---------------------------- MODULE AppLifecycle ----------------------------
(***************************************************************************)
(* The life of one compose app in app-management: install, update, apply   *)
(* and uninstall requests, each a goroutine that outlives its HTTP call,   *)
(* working on the same compose file, backup file and docker project.       *)
(*                                                                         *)
(* A compose file's content is a version of the app's configuration; the   *)
(* docker project is the version its containers were created from.  Every  *)
(* call into docker or the file system may fail.                           *)
(***************************************************************************)
EXTENDS Naturals, FiniteSets

CONSTANTS
  Reqs,          \* requests; each one is issued at most once
  Kinds,         \* the kinds of requests issued
  Versions,      \* contents of a compose file
  StoreVersion,  \* the version the app store offers
  None           \* no file, no project

ASSUME VersionsAssumption == StoreVersion \in Versions /\ None \notin Versions
ASSUME KindsAssumption == Kinds \subseteq {"install", "update", "apply", "uninstall"}

VARIABLES
  file,        \* content of the compose file, or None
  bak,         \* content of its .bak copy, or None
  project,     \* what the docker project was created from, or None
  installing,  \* the app's entry in installationInProgress
  upgrading,   \* the app's entry in isAppUpgrading
  req,         \* request -> [kind, pc, cfg, old, res]
  overlapped   \* history: some request began before another one was over

vars == <<file, bak, project, installing, upgrading, req, overlapped>>

Idle(r) == req[r].pc \in {"idle", "done", "rejected"}
MayIssue(r) == req[r].pc = "idle"

\* A request begins: what it is to put in place, and what it found.
Accepted(r, kind, pc, cfg, old) ==
  req' = [req EXCEPT ![r] = [kind |-> kind, pc |-> pc, cfg |-> cfg, old |-> old, res |-> "none"]]
Refused(r, kind, cfg) ==
  req' = [req EXCEPT ![r] = [kind |-> kind, pc |-> "rejected", cfg |-> cfg,
                             old |-> None, res |-> "error"]]

Goto(r, pc) == req' = [req EXCEPT ![r].pc = pc]
Finishing(r, res) == req' = [req EXCEPT ![r].pc = "ending", ![r].res = res]
Rejected(r) == req' = [req EXCEPT ![r].pc = "rejected", ![r].res = "error"]

(***************************************************************************)
(* Install.                                                                *)
(***************************************************************************)
\* InstallComposeApp: 409 while the app's entry is in the map.
InstallCheck(r, v) ==
  /\ "install" \in Kinds /\ MayIssue(r)
  /\ \/ ~installing /\ Accepted(r, "install", "checked", v, None)
     \/ installing /\ Refused(r, "install", v)
  /\ UNCHANGED <<file, bak, project, installing, upgrading>>

\* Prepares the working directory and writes the compose file; if the write
\* fails the whole directory is removed, whoever it belongs to.
InstallWrite(r) ==
  /\ req[r].pc = "checked"
  /\ \/ file' = req[r].cfg /\ Goto(r, "written") /\ UNCHANGED bak
     \/ file' = None /\ bak' = None /\ Rejected(r)
     \/ Rejected(r) /\ UNCHANGED <<file, bak>>
  /\ UNCHANGED <<project, installing, upgrading>>

\* Loads the app back from the file, as it is by now.
InstallLoad(r) ==
  /\ req[r].pc = "written"
  /\ \/ /\ file # None
        /\ req' = [req EXCEPT ![r].pc = "spawned", ![r].cfg = file]
        /\ UNCHANGED <<file, bak>>
     \/ file' = None /\ bak' = None /\ Rejected(r)
  /\ UNCHANGED <<project, installing, upgrading>>

\* The goroutine starts: only now is the entry stored.
InstallBegin(r) ==
  /\ req[r].pc = "spawned"
  /\ installing' = TRUE
  /\ Goto(r, "creating")
  /\ UNCHANGED <<file, bak, project, upgrading>>

\* PullAndInstall up to Create.  Pull reports its errors but never returns one.
InstallCreate(r) ==
  /\ req[r].pc = "creating"
  /\ \/ project' = req[r].cfg /\ Goto(r, "starting")
     \/ Finishing(r, "error") /\ UNCHANGED project
  /\ UNCHANGED <<file, bak, installing, upgrading>>

InstallStart(r) ==
  /\ req[r].pc = "starting"
  /\ \E res \in {"ok", "error"} : Finishing(r, res)
  /\ UNCHANGED <<file, bak, project, installing, upgrading>>

(***************************************************************************)
(* Update and Apply, both through PullAndApply.                            *)
(***************************************************************************)
\* Update assigns the store's image to what App(name) returns, which is a copy
\* of the service: the YAML it marshals afterwards is that of the local app.
Retagged(local) == local

UpdateAccept(r) ==
  /\ "update" \in Kinds /\ MayIssue(r)
  /\ project # None /\ file # None
  /\ Accepted(r, "update", "accepted", Retagged(file), file)
  /\ UNCHANGED <<file, bak, project, installing, upgrading>>

\* StartUpgrade, in the goroutine.
UpdateBegin(r) ==
  /\ req[r].pc = "accepted"
  /\ upgrading' = TRUE
  /\ Goto(r, "backup")
  /\ UNCHANGED <<file, bak, project, installing>>

ApplyAccept(r, v) ==
  /\ "apply" \in Kinds /\ MayIssue(r)
  /\ project # None /\ file # None
  /\ Accepted(r, "apply", "backup", v, file)
  /\ UNCHANGED <<file, bak, project, installing, upgrading>>

\* Mutated Backup: the backup of an earlier call is kept.
BackupSkip(r) ==
  /\ req[r].pc = "backup"
  /\ \/ /\ file # None
        /\ bak' = IF bak = None THEN file ELSE bak
        /\ Goto(r, "saving")
     \/ bak' = None /\ Finishing(r, "error")
  /\ UNCHANGED <<file, project, installing, upgrading>>

\* CopySingleFile removes the old backup before it opens the source.
Backup(r) ==
  /\ req[r].pc = "backup"
  /\ \/ file # None /\ bak' = file /\ Goto(r, "saving")
     \/ bak' = None /\ Finishing(r, "error")
  /\ UNCHANGED <<file, project, installing, upgrading>>

\* Mutated Save: an error after the file was written skips the rollback.
SaveNoRollback(r) ==
  /\ req[r].pc = "saving"
  /\ \/ (file # None \/ bak # None) /\ file' = req[r].cfg /\ Goto(r, "loading")
     \/ Finishing(r, "restored") /\ file' \in {file, None}
  /\ UNCHANGED <<bak, project, installing, upgrading>>

\* apiService, then the new file.  Without a docker client nothing is rolled
\* back; a failed write truncates the file and is.
Save(r) ==
  /\ req[r].pc = "saving"
  /\ \/ Finishing(r, "error") /\ UNCHANGED file
     \/ (file # None \/ bak # None) /\ file' = req[r].cfg /\ Goto(r, "loading")
     \/ file' = None /\ Goto(r, "rollback")
  /\ UNCHANGED <<bak, project, installing, upgrading>>

\* Loads the new app from the file, as it is by now, and pulls its images.
LoadNew(r) ==
  /\ req[r].pc = "loading"
  /\ \/ /\ file # None
        /\ req' = [req EXCEPT ![r].pc = "upping", ![r].cfg = file]
     \/ Goto(r, "rollback")
  /\ UNCHANGED <<file, bak, project, installing, upgrading>>

\* UpWithCheckRequire: success is set whatever it returns, so its error is
\* returned without a rollback.
UpNew(r) ==
  /\ req[r].pc = "upping"
  /\ \/ project' = req[r].cfg /\ Finishing(r, "ok")
     \/ Finishing(r, "error") /\ UNCHANGED project
  /\ UNCHANGED <<file, bak, installing, upgrading>>

\* The deferred rollback: the file from its backup, then up with the old app.
Restore(r) ==
  /\ req[r].pc = "rollback"
  /\ \/ bak # None /\ file' = bak /\ Goto(r, "reupping")
     \/ file' = None /\ Finishing(r, "error")
  /\ UNCHANGED <<bak, project, installing, upgrading>>

ReUp(r) ==
  /\ req[r].pc = "reupping"
  /\ \/ project' = req[r].old /\ Finishing(r, "restored")
     \/ Finishing(r, "error") /\ UNCHANGED project
  /\ UNCHANGED <<file, bak, installing, upgrading>>

(***************************************************************************)
(* Uninstall.                                                              *)
(***************************************************************************)
UninstallAccept(r) ==
  /\ "uninstall" \in Kinds /\ MayIssue(r)
  /\ project # None /\ file # None
  /\ Accepted(r, "uninstall", "downing", None, None)
  /\ UNCHANGED <<file, bak, project, installing, upgrading>>

\* Stop and Down.
UninstallDown(r) ==
  /\ req[r].pc = "downing"
  /\ \/ project' = None /\ Goto(r, "removing")
     \/ Finishing(r, "error") /\ UNCHANGED project
  /\ UNCHANGED <<file, bak, installing, upgrading>>

\* The working directory goes, with the compose file and its backup.
UninstallRemove(r) ==
  /\ req[r].pc = "removing"
  /\ \/ file' = None /\ bak' = None
     \/ UNCHANGED <<file, bak>>
  /\ Finishing(r, "ok")
  /\ UNCHANGED <<project, installing, upgrading>>

(***************************************************************************)
(* The deferred calls of a goroutine that returns.                         *)
(***************************************************************************)
\* Mutated End: the entry is stored empty instead of being deleted.
EndStoresNil(r) ==
  /\ req[r].pc = "ending"
  /\ Goto(r, "done")
  /\ installing' = IF req[r].kind = "install" THEN None ELSE installing
  /\ upgrading' = IF req[r].kind = "update" THEN FALSE ELSE upgrading
  /\ UNCHANGED <<file, bak, project>>

\* Mutated End: the entry is only deleted after a success.
EndOnSuccess(r) ==
  /\ req[r].pc = "ending"
  /\ Goto(r, "done")
  /\ installing' = IF req[r].kind = "install" /\ req[r].res = "ok" THEN FALSE ELSE installing
  /\ upgrading' = IF req[r].kind = "update" THEN FALSE ELSE upgrading
  /\ UNCHANGED <<file, bak, project>>

End(r) ==
  /\ req[r].pc = "ending"
  /\ Goto(r, "done")
  /\ installing' = IF req[r].kind = "install" THEN FALSE ELSE installing
  /\ upgrading' = IF req[r].kind = "update" THEN FALSE ELSE upgrading
  /\ UNCHANGED <<file, bak, project>>

(***************************************************************************)
(* The specification.                                                      *)
(***************************************************************************)
NewReq == [kind |-> "none", pc |-> "idle", cfg |-> None, old |-> None, res |-> "none"]

\* The app is not installed, or is installed and running.
Init ==
  /\ file \in Versions \cup {None}
  /\ bak = None
  /\ project = file
  /\ installing = FALSE
  /\ upgrading = FALSE
  /\ req = [r \in Reqs |-> NewReq]
  /\ overlapped = FALSE

Installing(r) ==
  InstallWrite(r) \/ InstallLoad(r) \/ InstallBegin(r) \/ InstallCreate(r) \/ InstallStart(r)
Applying(r) ==
  UpdateBegin(r) \/ Backup(r) \/ Save(r) \/ LoadNew(r) \/ UpNew(r) \/ Restore(r) \/ ReUp(r)
Uninstalling(r) == UninstallDown(r) \/ UninstallRemove(r)

Issue(r) ==
  \/ \E v \in Versions : InstallCheck(r, v) \/ ApplyAccept(r, v)
  \/ UpdateAccept(r)
  \/ UninstallAccept(r)

Working(r) == Installing(r) \/ Applying(r) \/ Uninstalling(r) \/ End(r)

Next == \E r \in Reqs :
  \/ Issue(r) /\ overlapped' = (overlapped \/ \E q \in Reqs : ~Idle(q))
  \/ Working(r) /\ UNCHANGED overlapped

Spec == Init /\ [][Next]_vars

(***************************************************************************)
(* Properties.                                                             *)
(***************************************************************************)
Content == Versions \cup {None}
ReqPC == {"idle", "rejected", "checked", "written", "spawned", "creating", "starting",
          "accepted", "backup", "saving", "loading", "upping", "rollback", "reupping",
          "downing", "removing", "ending", "done"}

\* Every variable has its type.
TypeOK ==
  /\ file \in Content /\ bak \in Content /\ project \in Content
  /\ installing \in BOOLEAN /\ upgrading \in BOOLEAN /\ overlapped \in BOOLEAN
  /\ req \in [Reqs -> [kind : {"none", "install", "update", "apply", "uninstall"},
                       pc : ReqPC, cfg : Content, old : Content,
                       res : {"none", "ok", "error", "restored"}]]

\* An "installing" or "updating" mark is never left behind: whatever failed,
\* and however many requests overlap, some goroutine that will clear it is
\* still running, so no app is refused or shown as busy for ever.
InstallPC == {"creating", "starting", "ending"}
UpdatePC == {"backup", "saving", "loading", "upping", "rollback", "reupping", "ending"}
MarksHaveOwners ==
  /\ installing => \E r \in Reqs : req[r].kind = "install" /\ req[r].pc \in InstallPC
  /\ upgrading => \E r \in Reqs : req[r].kind = "update" /\ req[r].pc \in UpdatePC

\* When requests came one at a time, none is running and none has failed
\* outright, the containers were created from the compose file on disk, after
\* any sequence of installs, updates, rollbacks and uninstalls.
SerialConsistent ==
  ~overlapped /\ (\A r \in Reqs : Idle(r) /\ req[r].res # "error")
    => project \in {file, None}

\* When requests came one at a time, an apply that is rolled back leaves the
\* compose file and the containers as it found them ("restore original compose
\* file").
RollbackRestores ==
  [][\A r \in Reqs : ~overlapped /\ req[r].res # "restored" /\ req'[r].res = "restored" =>
       file' = req[r].old /\ project' = req[r].old]_vars

\* The compose file on disk is what runs, after any sequence of requests that
\* did not overlap (ComposeApp.PullAndApply, ComposeService.Install and
\* Uninstall).
DiskIsWhatRuns == TypeOK /\ SerialConsistent
=============================================================================

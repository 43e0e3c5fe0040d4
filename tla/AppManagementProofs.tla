------------------------ MODULE AppManagementProofs ------------------------
(***************************************************************************)
(* Proofs about app-management and the pages that drive it: AppLifecycle,  *)
(* for every set of requests and versions; TaskLog, for every set of       *)
(* operations and handlers; StoreInstall, for every number of apps, mounts *)
(* of the store page and runs; ComposeDoc, for every document, every text  *)
(* that may be typed and every number of rows and edits.                   *)
(***************************************************************************)
EXTENDS AppLifecycle, TaskLog, StoreInstall, ComposeDoc, SequenceTheorems, FiniteSetTheorems, TLAPS

ReqRec == [kind : {"none", "install", "update", "apply", "uninstall"},
           pc : ReqPC, cfg : Content, old : Content,
           res : {"none", "ok", "error", "restored"}]

\* The program counters only an install, and only an update, goes through.
KindsFit ==
  \A r \in Reqs :
    /\ req[r].pc \in {"checked", "written", "spawned", "creating", "starting"}
         => req[r].kind = "install"
    /\ req[r].pc = "accepted" => req[r].kind = "update"
    /\ req[r].pc = "idle" => req[r].kind = "none"

MarksInv == TypeOK /\ KindsFit /\ MarksHaveOwners

LEMMA MarksInit == Init => MarksInv
<1>. SUFFICES ASSUME Init PROVE MarksInv
  OBVIOUS
<1>1. TypeOK
  BY DEF Init, TypeOK, Content, NewReq, ReqPC
<1>2. KindsFit /\ MarksHaveOwners
  BY DEF Init, KindsFit, MarksHaveOwners, NewReq
<1>. QED
  BY <1>1, <1>2 DEF MarksInv

\* A step of one request that keeps its kind, and the marks, preserves the
\* invariant unless it takes the request out of the program counters that own
\* a mark.
LEMMA MarksStep ==
  ASSUME MarksInv, NEW r \in Reqs, req' \in [Reqs -> ReqRec],
         \A q \in Reqs \ {r} : req'[q] = req[q],
         req'[r].kind = req[r].kind,
         req'[r].pc \notin {"idle", "accepted", "checked"},
         req'[r].pc \in {"written", "spawned", "creating", "starting"} => req[r].kind = "install",
         req[r].pc \in InstallPC => req'[r].pc \in InstallPC \/ req[r].kind # "install",
         req[r].pc \in UpdatePC => req'[r].pc \in UpdatePC \/ req[r].kind # "update",
         file' \in Content, bak' \in Content, project' \in Content,
         overlapped' \in BOOLEAN,
         UNCHANGED <<installing, upgrading>>
  PROVE  MarksInv'
<1>1. TypeOK'
  BY DEF MarksInv, TypeOK, ReqRec
<1>2. KindsFit'
  BY DEF MarksInv, KindsFit
<1>3. MarksHaveOwners'
  <2>1. ASSUME installing PROVE \E q \in Reqs : req'[q].kind = "install" /\ req'[q].pc \in InstallPC
    BY <2>1 DEF MarksInv, MarksHaveOwners
  <2>2. ASSUME upgrading PROVE \E q \in Reqs : req'[q].kind = "update" /\ req'[q].pc \in UpdatePC
    BY <2>2 DEF MarksInv, MarksHaveOwners
  <2>. QED
    BY <2>1, <2>2 DEF MarksHaveOwners
<1>. QED
  BY <1>1, <1>2, <1>3 DEF MarksInv

\* Issuing a request: it was idle, so it owned no mark.
LEMMA MarksIssue ==
  ASSUME MarksInv, overlapped' \in BOOLEAN, NEW r \in Reqs, Issue(r)
  PROVE  MarksInv'
<1>1. req \in [Reqs -> ReqRec] /\ file \in Content
  BY DEF MarksInv, TypeOK, ReqRec
<1>2. req[r].pc = "idle" /\ req[r].kind = "none" /\ UNCHANGED <<file, bak, project, installing, upgrading>>
  BY DEF Issue, InstallCheck, ApplyAccept, UpdateAccept, UninstallAccept, MayIssue,
         MarksInv, KindsFit
<1>. DEFINE Issued(k, pcs) == /\ req' \in [Reqs -> ReqRec]
                              /\ \A q \in Reqs \ {r} : req'[q] = req[q]
                              /\ req'[r].kind = k /\ req'[r].pc \in pcs
<1>3. \/ Issued("install", {"checked", "rejected"})
      \/ Issued("apply", {"backup"})
      \/ Issued("update", {"accepted"})
      \/ Issued("uninstall", {"downing"})
  <2>1. ASSUME NEW v \in Versions, InstallCheck(r, v)
        PROVE  Issued("install", {"checked", "rejected"})
    BY <1>1, <2>1 DEF InstallCheck, Accepted, Refused, ReqRec, ReqPC, Content
  <2>2. ASSUME NEW v \in Versions, ApplyAccept(r, v) PROVE Issued("apply", {"backup"})
    BY <1>1, <2>2 DEF ApplyAccept, Accepted, ReqRec, ReqPC, Content
  <2>3. ASSUME UpdateAccept(r) PROVE Issued("update", {"accepted"})
    BY <1>1, <2>3 DEF UpdateAccept, Accepted, Retagged, ReqRec, ReqPC, Content
  <2>4. ASSUME UninstallAccept(r) PROVE Issued("uninstall", {"downing"})
    BY <1>1, <2>4 DEF UninstallAccept, Accepted, ReqRec, ReqPC, Content
  <2>. HIDE DEF Issued
  <2>. QED
    BY <2>1, <2>2, <2>3, <2>4 DEF Issue
<1>4. TypeOK'
  BY <1>2, <1>3 DEF MarksInv, TypeOK, ReqRec
<1>5. KindsFit'
  BY <1>3 DEF MarksInv, KindsFit
<1>6. MarksHaveOwners'
  BY <1>2, <1>3 DEF MarksInv, MarksHaveOwners
<1>. QED
  BY <1>4, <1>5, <1>6 DEF MarksInv

\* Moving on, and moving to the deferred calls, only change pc and result.
LEMMA GotoType ==
  ASSUME req \in [Reqs -> ReqRec], NEW r \in Reqs, NEW pc \in ReqPC, Goto(r, pc)
  PROVE  /\ req' \in [Reqs -> ReqRec] /\ \A q \in Reqs \ {r} : req'[q] = req[q]
         /\ req'[r].kind = req[r].kind /\ req'[r].pc = pc
BY DEF Goto, ReqRec

LEMMA FinishingType ==
  ASSUME req \in [Reqs -> ReqRec], NEW r \in Reqs,
         NEW res \in {"none", "ok", "error", "restored"}, Finishing(r, res)
  PROVE  /\ req' \in [Reqs -> ReqRec] /\ \A q \in Reqs \ {r} : req'[q] = req[q]
         /\ req'[r].kind = req[r].kind /\ req'[r].pc = "ending"
BY DEF Finishing, ReqRec, ReqPC

LEMMA RejectedType ==
  ASSUME req \in [Reqs -> ReqRec], NEW r \in Reqs, Rejected(r)
  PROVE  /\ req' \in [Reqs -> ReqRec] /\ \A q \in Reqs \ {r} : req'[q] = req[q]
         /\ req'[r].kind = req[r].kind /\ req'[r].pc = "rejected"
BY DEF Rejected, ReqRec, ReqPC

\* The steps of a request between its start and its deferred calls.
LEMMA MarksWorking ==
  ASSUME MarksInv, overlapped' \in BOOLEAN, NEW r \in Reqs,
         \/ InstallWrite(r) \/ InstallLoad(r) \/ InstallCreate(r) \/ InstallStart(r)
         \/ Backup(r) \/ Save(r) \/ LoadNew(r) \/ UpNew(r) \/ Restore(r) \/ ReUp(r)
         \/ Uninstalling(r)
  PROVE  MarksInv'
<1>0. /\ req \in [Reqs -> ReqRec] /\ req[r] \in ReqRec /\ req[r].cfg \in Content
      /\ req[r].old \in Content /\ None \in Content
      /\ file \in Content /\ bak \in Content /\ project \in Content
  BY DEF MarksInv, TypeOK, ReqRec, Content
<1>. DEFINE Moved(pcs) == /\ req' \in [Reqs -> ReqRec] /\ \A q \in Reqs \ {r} : req'[q] = req[q]
                          /\ req'[r].kind = req[r].kind /\ req'[r].pc \in pcs
<1>1. CASE InstallWrite(r)
  <2>1. req[r].pc = "checked" /\ req[r].kind = "install" /\ UNCHANGED <<project, installing, upgrading>>
    BY <1>1 DEF InstallWrite, MarksInv, KindsFit
  <2>2. Moved({"written", "rejected"})
    BY <1>0, <1>1, GotoType, RejectedType DEF InstallWrite, ReqPC
  <2>3. file' \in Content /\ bak' \in Content
    BY <1>0, <1>1 DEF InstallWrite
  <2>. QED
    BY <1>0, <2>1, <2>2, <2>3, MarksStep DEF InstallPC, UpdatePC
<1>2. CASE InstallLoad(r)
  <2>1. req[r].pc = "written" /\ req[r].kind = "install" /\ UNCHANGED <<project, installing, upgrading>>
    BY <1>2 DEF InstallLoad, MarksInv, KindsFit
  <2>2. Moved({"spawned", "rejected"})
    <3>1. CASE Rejected(r)
      BY <1>0, <3>1, RejectedType
    <3>2. CASE req' = [req EXCEPT ![r].pc = "spawned", ![r].cfg = file]
      BY <1>0, <3>2 DEF ReqRec, ReqPC
    <3>. QED
      BY <1>2, <3>1, <3>2 DEF InstallLoad
  <2>3. file' \in Content /\ bak' \in Content
    BY <1>0, <1>2 DEF InstallLoad
  <2>. QED
    BY <1>0, <2>1, <2>2, <2>3, MarksStep DEF InstallPC, UpdatePC
<1>3. CASE InstallCreate(r)
  <2>1. req[r].pc = "creating" /\ req[r].kind = "install" /\ UNCHANGED <<file, bak, installing, upgrading>>
    BY <1>3 DEF InstallCreate, MarksInv, KindsFit
  <2>2. Moved({"starting", "ending"})
    BY <1>0, <1>3, GotoType, FinishingType DEF InstallCreate, ReqPC
  <2>3. project' \in Content
    BY <1>0, <1>3 DEF InstallCreate
  <2>. QED
    BY <1>0, <2>1, <2>2, <2>3, MarksStep DEF InstallPC, UpdatePC
<1>4. CASE InstallStart(r)
  <2>1. req[r].pc = "starting" /\ UNCHANGED <<file, bak, project, installing, upgrading>>
    BY <1>4 DEF InstallStart
  <2>2. Moved({"ending"})
    BY <1>0, <1>4, FinishingType DEF InstallStart
  <2>. QED
    BY <1>0, <2>1, <2>2, MarksStep DEF InstallPC, UpdatePC
<1>5. CASE Backup(r)
  <2>1. req[r].pc = "backup" /\ UNCHANGED <<file, project, installing, upgrading>>
    BY <1>5 DEF Backup
  <2>2. Moved({"saving", "ending"})
    BY <1>0, <1>5, GotoType, FinishingType DEF Backup, ReqPC
  <2>3. bak' \in Content
    BY <1>0, <1>5 DEF Backup
  <2>. QED
    BY <1>0, <2>1, <2>2, <2>3, MarksStep DEF InstallPC, UpdatePC
<1>6. CASE Save(r)
  <2>1. req[r].pc = "saving" /\ UNCHANGED <<bak, project, installing, upgrading>>
    BY <1>6 DEF Save
  <2>2. Moved({"loading", "rollback", "ending"})
    BY <1>0, <1>6, GotoType, FinishingType DEF Save, ReqPC
  <2>3. file' \in Content
    BY <1>0, <1>6 DEF Save
  <2>. QED
    BY <1>0, <2>1, <2>2, <2>3, MarksStep DEF InstallPC, UpdatePC
<1>7. CASE LoadNew(r)
  <2>1. req[r].pc = "loading" /\ UNCHANGED <<file, bak, project, installing, upgrading>>
    BY <1>7 DEF LoadNew
  <2>2. Moved({"upping", "rollback"})
    <3>1. CASE Goto(r, "rollback")
      BY <1>0, <3>1, GotoType DEF ReqPC
    <3>2. CASE req' = [req EXCEPT ![r].pc = "upping", ![r].cfg = file]
      BY <1>0, <3>2 DEF ReqRec, ReqPC
    <3>. QED
      BY <1>7, <3>1, <3>2 DEF LoadNew
  <2>. QED
    BY <1>0, <2>1, <2>2, MarksStep DEF InstallPC, UpdatePC
<1>8. CASE UpNew(r)
  <2>1. req[r].pc = "upping" /\ UNCHANGED <<file, bak, installing, upgrading>>
    BY <1>8 DEF UpNew
  <2>2. Moved({"ending"})
    BY <1>0, <1>8, FinishingType DEF UpNew
  <2>3. project' \in Content
    BY <1>0, <1>8 DEF UpNew
  <2>. QED
    BY <1>0, <2>1, <2>2, <2>3, MarksStep DEF InstallPC, UpdatePC
<1>9. CASE Restore(r)
  <2>1. req[r].pc = "rollback" /\ UNCHANGED <<bak, project, installing, upgrading>>
    BY <1>9 DEF Restore
  <2>2. Moved({"reupping", "ending"})
    BY <1>0, <1>9, GotoType, FinishingType DEF Restore, ReqPC
  <2>3. file' \in Content
    BY <1>0, <1>9 DEF Restore
  <2>. QED
    BY <1>0, <2>1, <2>2, <2>3, MarksStep DEF InstallPC, UpdatePC
<1>10. CASE ReUp(r)
  <2>1. req[r].pc = "reupping" /\ UNCHANGED <<file, bak, installing, upgrading>>
    BY <1>10 DEF ReUp
  <2>2. Moved({"ending"})
    BY <1>0, <1>10, FinishingType DEF ReUp
  <2>3. project' \in Content
    BY <1>0, <1>10 DEF ReUp
  <2>. QED
    BY <1>0, <2>1, <2>2, <2>3, MarksStep DEF InstallPC, UpdatePC
<1>11. CASE UninstallDown(r)
  <2>1. req[r].pc = "downing" /\ UNCHANGED <<file, bak, installing, upgrading>>
    BY <1>11 DEF UninstallDown
  <2>2. Moved({"removing", "ending"})
    BY <1>0, <1>11, GotoType, FinishingType DEF UninstallDown, ReqPC
  <2>3. project' \in Content
    BY <1>0, <1>11 DEF UninstallDown
  <2>. QED
    BY <1>0, <2>1, <2>2, <2>3, MarksStep DEF InstallPC, UpdatePC
<1>12. CASE UninstallRemove(r)
  <2>1. req[r].pc = "removing" /\ UNCHANGED <<project, installing, upgrading>>
    BY <1>12 DEF UninstallRemove
  <2>2. Moved({"ending"})
    BY <1>0, <1>12, FinishingType DEF UninstallRemove
  <2>3. file' \in Content /\ bak' \in Content
    BY <1>0, <1>12 DEF UninstallRemove
  <2>. QED
    BY <1>0, <2>1, <2>2, <2>3, MarksStep DEF InstallPC, UpdatePC
<1>. QED
  BY <1>1, <1>2, <1>3, <1>4, <1>5, <1>6, <1>7, <1>8, <1>9, <1>10, <1>11, <1>12
     DEF Uninstalling

\* The goroutine that sets a mark owns it.
LEMMA MarksBegin ==
  ASSUME MarksInv, overlapped' \in BOOLEAN, NEW r \in Reqs, InstallBegin(r) \/ UpdateBegin(r)
  PROVE  MarksInv'
<1>0. req \in [Reqs -> ReqRec]
  BY DEF MarksInv, TypeOK, ReqRec
<1>1. /\ req' \in [Reqs -> ReqRec] /\ \A q \in Reqs \ {r} : req'[q] = req[q]
      /\ req'[r].kind = req[r].kind
      /\ \/ /\ req[r].pc = "spawned" /\ req[r].kind = "install" /\ req'[r].pc = "creating"
            /\ installing' = TRUE /\ upgrading' = upgrading
         \/ /\ req[r].pc = "accepted" /\ req[r].kind = "update" /\ req'[r].pc = "backup"
            /\ upgrading' = TRUE /\ installing' = installing
      /\ UNCHANGED <<file, bak, project>>
  <2>1. CASE InstallBegin(r)
    <3>1. req[r].pc = "spawned" /\ req[r].kind = "install"
      BY <2>1 DEF InstallBegin, MarksInv, KindsFit
    <3>. QED
      BY <1>0, <2>1, <3>1, GotoType DEF InstallBegin, ReqPC
  <2>2. CASE UpdateBegin(r)
    <3>1. req[r].pc = "accepted" /\ req[r].kind = "update"
      BY <2>2 DEF UpdateBegin, MarksInv, KindsFit
    <3>. QED
      BY <1>0, <2>2, <3>1, GotoType DEF UpdateBegin, ReqPC
  <2>. QED
    BY <2>1, <2>2
<1>2. TypeOK' /\ KindsFit'
  BY <1>1 DEF MarksInv, TypeOK, KindsFit, ReqRec
<1>3. MarksHaveOwners'
  BY <1>1 DEF MarksInv, MarksHaveOwners, InstallPC, UpdatePC
<1>. QED
  BY <1>2, <1>3 DEF MarksInv

\* The deferred calls clear the mark of their kind, so what is still marked is
\* owned by a request of the other kind, which does not move.
LEMMA MarksEnd ==
  ASSUME MarksInv, overlapped' \in BOOLEAN, NEW r \in Reqs, End(r)
  PROVE  MarksInv'
<1>0. req \in [Reqs -> ReqRec]
  BY DEF MarksInv, TypeOK, ReqRec
<1>1. /\ req' \in [Reqs -> ReqRec] /\ \A q \in Reqs \ {r} : req'[q] = req[q]
      /\ req'[r].kind = req[r].kind /\ req'[r].pc = "done"
      /\ UNCHANGED <<file, bak, project>>
  BY <1>0, GotoType DEF End, ReqPC
<1>2. /\ installing' \in BOOLEAN /\ upgrading' \in BOOLEAN
      /\ installing' => installing /\ req[r].kind # "install"
      /\ upgrading' => upgrading /\ req[r].kind # "update"
  BY DEF End, MarksInv, TypeOK
<1>3. TypeOK' /\ KindsFit'
  BY <1>1, <1>2 DEF MarksInv, TypeOK, KindsFit, ReqRec
<1>4. MarksHaveOwners'
  BY <1>1, <1>2 DEF MarksInv, MarksHaveOwners
<1>. QED
  BY <1>3, <1>4 DEF MarksInv

LEMMA MarksNext == MarksInv /\ [Next]_vars => MarksInv'
<1>. SUFFICES ASSUME MarksInv, [Next]_vars PROVE MarksInv'
  OBVIOUS
<1>1. ASSUME NEW r \in Reqs, Issue(r), overlapped' \in BOOLEAN PROVE MarksInv'
  BY <1>1, MarksIssue
<1>2. ASSUME NEW r \in Reqs, Working(r), overlapped' \in BOOLEAN PROVE MarksInv'
  BY <1>2, MarksWorking, MarksBegin, MarksEnd DEF Working, Installing, Applying
<1>3. CASE UNCHANGED vars
  BY <1>3 DEF vars, MarksInv, TypeOK, KindsFit, MarksHaveOwners
<1>4. overlapped \in BOOLEAN
  BY DEF MarksInv, TypeOK
<1>5. ASSUME NEW r \in Reqs,
             \/ Issue(r) /\ overlapped' = (overlapped \/ \E q \in Reqs : ~Idle(q))
             \/ Working(r) /\ UNCHANGED overlapped
      PROVE  MarksInv'
  <2>1. overlapped' \in BOOLEAN
    BY <1>4, <1>5
  <2>. QED
    BY <1>1, <1>2, <1>5, <2>1
<1>. QED
  BY <1>3, <1>5 DEF Next

\* However many requests overlap and whichever of their steps fail, an app is
\* only marked as installing or updating while a goroutine that will clear the
\* mark is running.
THEOREM MarksNeverStale == Spec => [](TypeOK /\ MarksHaveOwners)
<1>1. Init => MarksInv
  BY MarksInit
<1>2. MarksInv /\ [Next]_vars => MarksInv'
  BY MarksNext
<1>3. MarksInv => TypeOK /\ MarksHaveOwners
  BY DEF MarksInv
<1>. QED
  BY <1>1, <1>2, <1>3, PTL DEF Spec

(***************************************************************************)
(* Requests that come one at a time.  A request on its own finds in the    *)
(* files, and in the project, what its earlier steps left there.           *)
(***************************************************************************)
\* What a request has yet to restore is in the file, then in the backup, then
\* in the file again; it has no result before its deferred calls.
Sound(r) ==
  /\ req[r].pc \in {"accepted", "backup", "reupping"} => req[r].old = file
  /\ req[r].pc \in {"saving", "loading", "rollback"} => req[r].old = bak
  /\ req[r].pc \notin {"ending", "done", "rejected"} => req[r].res = "none"

\* What its next steps make of the project is what is on disk.
Agrees(r) ==
  /\ req[r].pc \in {"spawned", "creating", "upping"} => req[r].cfg = file
  /\ req[r].pc = "starting" => project = file
  /\ req[r].pc = "removing" => project = None
  /\ req[r].pc = "ending" => project \in {file, None}

NoError == \A r \in Reqs : req[r].res # "error"
Alone == \A q, r \in Reqs : Idle(q) \/ Idle(r) \/ q = r

SerialInv ==
  /\ MarksInv
  /\ ~overlapped =>
       /\ Alone
       /\ \A r \in Reqs : Sound(r)
       /\ NoError => \A r \in Reqs : Agrees(r)
       /\ NoError /\ (\A r \in Reqs : Idle(r)) => project \in {file, None}

LEMMA SerialInit == Init => SerialInv
<1>. SUFFICES ASSUME Init PROVE SerialInv
  OBVIOUS
<1>1. \A r \in Reqs : req[r].pc = "idle" /\ req[r].res = "none"
  BY DEF Init, NewReq
<1>2. project = file
  BY DEF Init
<1>. QED
  BY <1>1, <1>2, MarksInit DEF SerialInv, Alone, Idle, Sound, Agrees

LEMMA GotoKeeps ==
  ASSUME req \in [Reqs -> ReqRec], NEW r \in Reqs, NEW pc, Goto(r, pc)
  PROVE  /\ req'[r].pc = pc /\ req'[r].cfg = req[r].cfg /\ req'[r].old = req[r].old
         /\ req'[r].res = req[r].res
BY DEF Goto, ReqRec

LEMMA FinishingKeeps ==
  ASSUME req \in [Reqs -> ReqRec], NEW r \in Reqs, NEW res, Finishing(r, res)
  PROVE  req'[r].pc = "ending" /\ req'[r].old = req[r].old /\ req'[r].res = res
BY DEF Finishing, ReqRec

LEMMA RejectedKeeps ==
  ASSUME req \in [Reqs -> ReqRec], NEW r \in Reqs, Rejected(r)
  PROVE  req'[r].pc = "rejected" /\ req'[r].res = "error"
BY DEF Rejected, ReqRec

LEMMA LoadedKeeps ==
  ASSUME req \in [Reqs -> ReqRec], NEW r \in Reqs, NEW pc,
         req' = [req EXCEPT ![r].pc = pc, ![r].cfg = file]
  PROVE  /\ req'[r].pc = pc /\ req'[r].cfg = file /\ req'[r].old = req[r].old
         /\ req'[r].res = req[r].res
BY DEF ReqRec

\* One step of a request that is on its own.
Carried(r) ==
  /\ Sound(r)'
  /\ Agrees(r) /\ req'[r].res # "error" => Agrees(r)' /\ (Idle(r)' => project' \in {file', None})
  /\ req[r].res = "error" => req'[r].res = "error"
  /\ req[r].res # "restored" /\ req'[r].res = "restored" =>
       file' = req[r].old /\ project' = req[r].old

LEMMA InstallCarried ==
  ASSUME MarksInv, NEW r \in Reqs, Sound(r), Installing(r)
  PROVE  Carried(r)
<1>0. req \in [Reqs -> ReqRec]
  BY DEF MarksInv, TypeOK, ReqRec
<1>1. CASE InstallWrite(r)
  <2>1. req[r].res = "none"
    BY <1>1 DEF InstallWrite, Sound
  <2>2. \/ req'[r].pc = "written" /\ req'[r].res = "none"
        \/ req'[r].pc = "rejected" /\ req'[r].res = "error"
    BY <1>0, <1>1, <2>1, GotoKeeps, RejectedKeeps DEF InstallWrite
  <2>. QED
    BY <2>1, <2>2 DEF Carried, Sound, Agrees, Idle
<1>2. CASE InstallLoad(r)
  <2>1. req[r].res = "none"
    BY <1>2 DEF InstallLoad, Sound
  <2>2. \/ req'[r].pc = "spawned" /\ req'[r].res = "none" /\ req'[r].cfg = file /\ file' = file
        \/ req'[r].pc = "rejected" /\ req'[r].res = "error"
    BY <1>0, <1>2, <2>1, LoadedKeeps, RejectedKeeps DEF InstallLoad
  <2>. QED
    BY <2>1, <2>2 DEF Carried, Sound, Agrees, Idle
<1>3. CASE InstallBegin(r)
  <2>1. req[r].res = "none" /\ req[r].pc = "spawned" /\ UNCHANGED <<file, bak, project>>
    BY <1>3 DEF InstallBegin, Sound
  <2>2. req'[r].pc = "creating" /\ req'[r].res = "none" /\ req'[r].cfg = req[r].cfg
    BY <1>0, <1>3, <2>1, GotoKeeps DEF InstallBegin
  <2>. QED
    BY <2>1, <2>2 DEF Carried, Sound, Agrees, Idle
<1>4. CASE InstallCreate(r)
  <2>1. req[r].res = "none" /\ req[r].pc = "creating" /\ UNCHANGED <<file, bak>>
    BY <1>4 DEF InstallCreate, Sound
  <2>2. \/ req'[r].pc = "starting" /\ req'[r].res = "none" /\ project' = req[r].cfg
        \/ req'[r].pc = "ending" /\ req'[r].res = "error"
    BY <1>0, <1>4, <2>1, GotoKeeps, FinishingKeeps DEF InstallCreate
  <2>. QED
    BY <2>1, <2>2 DEF Carried, Sound, Agrees, Idle
<1>5. CASE InstallStart(r)
  <2>1. req[r].res = "none" /\ req[r].pc = "starting" /\ UNCHANGED <<file, bak, project>>
    BY <1>5 DEF InstallStart, Sound
  <2>2. req'[r].pc = "ending" /\ req'[r].res \in {"ok", "error"}
    BY <1>0, <1>5, <2>1, FinishingKeeps DEF InstallStart
  <2>. QED
    BY <2>1, <2>2 DEF Carried, Sound, Agrees, Idle
<1>. QED
  BY <1>1, <1>2, <1>3, <1>4, <1>5 DEF Installing

LEMMA ApplyCarried ==
  ASSUME MarksInv, NEW r \in Reqs, Sound(r), Applying(r)
  PROVE  Carried(r)
<1>0. req \in [Reqs -> ReqRec]
  BY DEF MarksInv, TypeOK, ReqRec
<1>1. CASE UpdateBegin(r)
  <2>1. req[r].res = "none" /\ req[r].pc = "accepted" /\ UNCHANGED <<file, bak, project>>
    BY <1>1 DEF UpdateBegin, Sound
  <2>2. req'[r].pc = "backup" /\ req'[r].res = "none" /\ req'[r].old = req[r].old
    BY <1>0, <1>1, <2>1, GotoKeeps DEF UpdateBegin
  <2>. QED
    BY <2>1, <2>2 DEF Carried, Sound, Agrees, Idle
<1>2. CASE Backup(r)
  <2>1. req[r].res = "none" /\ req[r].pc = "backup" /\ UNCHANGED <<file, project>>
    BY <1>2 DEF Backup, Sound
  <2>2. \/ req'[r].pc = "saving" /\ req'[r].res = "none" /\ req'[r].old = req[r].old /\ bak' = file
        \/ req'[r].pc = "ending" /\ req'[r].res = "error"
    BY <1>0, <1>2, <2>1, GotoKeeps, FinishingKeeps DEF Backup
  <2>. QED
    BY <2>1, <2>2 DEF Carried, Sound, Agrees, Idle
<1>3. CASE Save(r)
  <2>1. req[r].res = "none" /\ req[r].pc = "saving" /\ UNCHANGED <<bak, project>>
    BY <1>3 DEF Save, Sound
  <2>2. \/ /\ req'[r].pc \in {"loading", "rollback"} /\ req'[r].res = "none"
           /\ req'[r].old = req[r].old
        \/ req'[r].pc = "ending" /\ req'[r].res = "error"
    BY <1>0, <1>3, <2>1, GotoKeeps, FinishingKeeps DEF Save
  <2>. QED
    BY <2>1, <2>2 DEF Carried, Sound, Agrees, Idle
<1>4. CASE LoadNew(r)
  <2>1. req[r].res = "none" /\ req[r].pc = "loading" /\ UNCHANGED <<file, bak, project>>
    BY <1>4 DEF LoadNew, Sound
  <2>2. \/ req'[r].pc = "upping" /\ req'[r].res = "none" /\ req'[r].cfg = file
        \/ req'[r].pc = "rollback" /\ req'[r].res = "none" /\ req'[r].old = req[r].old
    BY <1>0, <1>4, <2>1, GotoKeeps, LoadedKeeps DEF LoadNew
  <2>. QED
    BY <2>1, <2>2 DEF Carried, Sound, Agrees, Idle
<1>5. CASE UpNew(r)
  <2>1. req[r].res = "none" /\ req[r].pc = "upping" /\ UNCHANGED <<file, bak>>
    BY <1>5 DEF UpNew, Sound
  <2>2. /\ req'[r].pc = "ending"
        /\ \/ req'[r].res = "ok" /\ project' = req[r].cfg
           \/ req'[r].res = "error"
    BY <1>0, <1>5, <2>1, FinishingKeeps DEF UpNew
  <2>. QED
    BY <2>1, <2>2 DEF Carried, Sound, Agrees, Idle
<1>6. CASE Restore(r)
  <2>1. req[r].res = "none" /\ req[r].pc = "rollback" /\ UNCHANGED <<bak, project>>
    BY <1>6 DEF Restore, Sound
  <2>2. \/ req'[r].pc = "reupping" /\ req'[r].res = "none" /\ req'[r].old = req[r].old /\ file' = bak
        \/ req'[r].pc = "ending" /\ req'[r].res = "error"
    BY <1>0, <1>6, <2>1, GotoKeeps, FinishingKeeps DEF Restore
  <2>. QED
    BY <2>1, <2>2 DEF Carried, Sound, Agrees, Idle
<1>7. CASE ReUp(r)
  <2>1. req[r].res = "none" /\ req[r].pc = "reupping" /\ req[r].old = file /\ UNCHANGED <<file, bak>>
    BY <1>7 DEF ReUp, Sound
  <2>2. /\ req'[r].pc = "ending"
        /\ \/ req'[r].res = "restored" /\ project' = req[r].old
           \/ req'[r].res = "error"
    BY <1>0, <1>7, <2>1, FinishingKeeps DEF ReUp
  <2>. QED
    BY <2>1, <2>2 DEF Carried, Sound, Agrees, Idle
<1>. QED
  BY <1>1, <1>2, <1>3, <1>4, <1>5, <1>6, <1>7 DEF Applying

LEMMA LastCarried ==
  ASSUME MarksInv, NEW r \in Reqs, Sound(r), Uninstalling(r) \/ End(r)
  PROVE  Carried(r)
<1>0. req \in [Reqs -> ReqRec]
  BY DEF MarksInv, TypeOK, ReqRec
<1>1. CASE UninstallDown(r)
  <2>1. req[r].res = "none" /\ req[r].pc = "downing" /\ UNCHANGED <<file, bak>>
    BY <1>1 DEF UninstallDown, Sound
  <2>2. \/ req'[r].pc = "removing" /\ req'[r].res = "none" /\ project' = None
        \/ req'[r].pc = "ending" /\ req'[r].res = "error"
    BY <1>0, <1>1, <2>1, GotoKeeps, FinishingKeeps DEF UninstallDown
  <2>. QED
    BY <2>1, <2>2 DEF Carried, Sound, Agrees, Idle
<1>2. CASE UninstallRemove(r)
  <2>1. req[r].res = "none" /\ req[r].pc = "removing" /\ project' = project
    BY <1>2 DEF UninstallRemove, Sound
  <2>2. req'[r].pc = "ending" /\ req'[r].res = "ok"
    BY <1>0, <1>2, <2>1, FinishingKeeps DEF UninstallRemove
  <2>. QED
    BY <2>1, <2>2 DEF Carried, Sound, Agrees, Idle
<1>3. CASE End(r)
  <2>1. req[r].pc = "ending" /\ UNCHANGED <<file, bak, project>>
    BY <1>3 DEF End
  <2>2. req'[r].pc = "done" /\ req'[r].res = req[r].res
    BY <1>0, <1>3, <2>1, GotoKeeps DEF End
  <2>. QED
    BY <2>1, <2>2 DEF Carried, Sound, Agrees, Idle
<1>. QED
  BY <1>1, <1>2, <1>3 DEF Uninstalling

\* A step of a request moves no other one.
LEMMA OthersStay ==
  ASSUME MarksInv, NEW r \in Reqs, Working(r)
  PROVE  ~Idle(r) /\ \A q \in Reqs \ {r} : req'[q] = req[q]
<1>0. req \in [Reqs -> ReqRec]
  BY DEF MarksInv, TypeOK, ReqRec
<1>1. ~Idle(r)
  BY DEF Working, Installing, Applying, Uninstalling, InstallWrite, InstallLoad, InstallBegin,
         InstallCreate, InstallStart, UpdateBegin, Backup, Save, LoadNew, UpNew, Restore, ReUp,
         UninstallDown, UninstallRemove, End, Idle
<1>2. \/ \E pc \in ReqPC : Goto(r, pc)
      \/ \E res \in {"ok", "error", "restored"} : Finishing(r, res)
      \/ Rejected(r)
      \/ \E pc \in ReqPC : req' = [req EXCEPT ![r].pc = pc, ![r].cfg = file]
  BY DEF Working, Installing, Applying, Uninstalling, InstallWrite, InstallLoad, InstallBegin,
         InstallCreate, InstallStart, UpdateBegin, Backup, Save, LoadNew, UpNew, Restore, ReUp,
         UninstallDown, UninstallRemove, End, ReqPC
<1>3. \A q \in Reqs \ {r} : req'[q] = req[q]
  BY <1>0, <1>2 DEF Goto, Finishing, Rejected
<1>. QED
  BY <1>1, <1>3

LEMMA WorkingSerial ==
  ASSUME SerialInv, NEW r \in Reqs, Working(r), UNCHANGED overlapped, MarksInv', ~overlapped
  PROVE  SerialInv' /\ Carried(r)
<1>1. Carried(r)
  BY InstallCarried, ApplyCarried, LastCarried DEF SerialInv, Working
<1>2. ~Idle(r) /\ \A q \in Reqs \ {r} : req'[q] = req[q] /\ Idle(q)
  BY OthersStay DEF SerialInv, Alone
<1>3. \A q \in Reqs \ {r} : Idle(q)' /\ Agrees(q)' /\ Sound(q)'
  <2>1. \A q \in Reqs \ {r} : req[q].pc = "idle" => req[q].res = "none"
    BY DEF SerialInv, Sound
  <2>. QED
    BY <1>2, <2>1 DEF Idle, Agrees, Sound
<1>4. Alone'
  BY <1>3 DEF Alone
<1>5. \A q \in Reqs : Sound(q)'
  BY <1>1, <1>3 DEF Carried
<1>6. ASSUME NoError' PROVE NoError /\ Agrees(r)' /\ (Idle(r)' => project' \in {file', None})
  <2>1. NoError
    BY <1>1, <1>2, <1>6 DEF NoError, Carried
  <2>2. Agrees(r)
    BY <2>1 DEF SerialInv
  <2>. QED
    BY <1>1, <1>6, <2>1, <2>2 DEF Carried, NoError
<1>7. NoError' => \A q \in Reqs : Agrees(q)'
  BY <1>3, <1>6
<1>8. NoError' /\ (\A q \in Reqs : Idle(q)') => project' \in {file', None}
  BY <1>6
<1>. QED
  BY <1>1, <1>4, <1>5, <1>7, <1>8 DEF SerialInv

LEMMA IssueSerial ==
  ASSUME SerialInv, NEW r \in Reqs, Issue(r), MarksInv', ~overlapped, \A q \in Reqs : Idle(q)
  PROVE  SerialInv'
<1>0. req \in [Reqs -> ReqRec]
  BY DEF SerialInv, MarksInv, TypeOK, ReqRec
<1>1. /\ UNCHANGED <<file, bak, project>>
      /\ \A q \in Reqs \ {r} : req'[q] = req[q]
      /\ \/ req'[r].pc = "checked" /\ req'[r].res = "none"
         \/ req'[r].pc = "rejected" /\ req'[r].res = "error"
         \/ req'[r].pc \in {"backup", "accepted"} /\ req'[r].res = "none" /\ req'[r].old = file
         \/ req'[r].pc = "downing" /\ req'[r].res = "none"
  BY <1>0 DEF Issue, InstallCheck, ApplyAccept, UpdateAccept, UninstallAccept, Accepted, Refused
<1>2. \A q \in Reqs \ {r} : Idle(q)' /\ Agrees(q)' /\ Sound(q)'
  <2>1. \A q \in Reqs \ {r} : req[q].pc = "idle" => req[q].res = "none"
    BY DEF SerialInv, Sound
  <2>. QED
    BY <1>1, <2>1 DEF Idle, Agrees, Sound
<1>3. Agrees(r)' /\ Sound(r)' /\ (NoError' => ~Idle(r)')
  BY <1>1 DEF Agrees, Sound, Idle, NoError
<1>. QED
  BY <1>2, <1>3 DEF SerialInv, Alone

LEMMA SerialNext == SerialInv /\ [Next]_vars => SerialInv'
<1>. SUFFICES ASSUME SerialInv, [Next]_vars PROVE SerialInv'
  OBVIOUS
<1>1. MarksInv'
  BY MarksNext DEF SerialInv
<1>2. CASE overlapped'
  BY <1>1, <1>2 DEF SerialInv
<1>3. ASSUME ~overlapped', NEW r \in Reqs, Issue(r),
             overlapped' = (overlapped \/ \E q \in Reqs : ~Idle(q))
      PROVE  SerialInv'
  BY <1>1, <1>3, IssueSerial
<1>4. ASSUME ~overlapped', NEW r \in Reqs, Working(r), UNCHANGED overlapped PROVE SerialInv'
  BY <1>1, <1>4, WorkingSerial
<1>5. CASE UNCHANGED vars
  BY <1>1, <1>5 DEF vars, SerialInv, Alone, Idle, Sound, Agrees, NoError
<1>. QED
  BY <1>2, <1>3, <1>4, <1>5 DEF Next

\* After any sequence of installs, updates, applies, rollbacks and uninstalls
\* that came one at a time and did not fail outright, what runs was created from
\* the compose file on disk (ComposeService.Install, ComposeApp.PullAndApply).
THEOREM DiskAndProjectAgree == Spec => []DiskIsWhatRuns
<1>1. SerialInv => DiskIsWhatRuns
  BY DEF SerialInv, MarksInv, DiskIsWhatRuns, SerialConsistent, NoError
<1>. QED
  BY <1>1, SerialInit, SerialNext, PTL DEF Spec

\* An apply that is rolled back while no other request is running leaves the
\* compose file and the containers as it found them.
THEOREM RollbackIsExact == Spec => RollbackRestores
<1>. DEFINE Exact == \A r \in Reqs :
              ~overlapped /\ req[r].res # "restored" /\ req'[r].res = "restored" =>
                file' = req[r].old /\ project' = req[r].old
<1>1. SerialInv /\ [Next]_vars => [Exact]_vars
  <2>. SUFFICES ASSUME SerialInv, Next, NEW q \in Reqs, ~overlapped,
                       req[q].res # "restored", req'[q].res = "restored"
                PROVE  file' = req[q].old /\ project' = req[q].old
    OBVIOUS
  <2>0. req \in [Reqs -> ReqRec] /\ MarksInv'
    BY MarksNext DEF SerialInv, MarksInv, TypeOK, ReqRec
  <2>1. ASSUME NEW r \in Reqs, Issue(r) PROVE FALSE
    <3>1. req'[r].res # "restored" /\ \A p \in Reqs \ {r} : req'[p] = req[p]
      BY <2>0, <2>1 DEF Issue, InstallCheck, ApplyAccept, UpdateAccept, UninstallAccept, Accepted, Refused
    <3>. QED
      BY <3>1
  <2>2. ASSUME NEW r \in Reqs, Working(r), UNCHANGED overlapped
        PROVE  file' = req[q].old /\ project' = req[q].old
    <3>1. Carried(r)
      BY <2>0, <2>2, WorkingSerial
    <3>2. q = r
      BY <2>2, OthersStay DEF SerialInv
    <3>. QED
      BY <3>1, <3>2 DEF Carried
  <2>. QED
    BY <2>1, <2>2 DEF Next
<1>. QED
  BY <1>1, SerialInit, SerialNext, PTL DEF Spec, RollbackRestores

(***************************************************************************)
(* TaskLog.                                                                *)
(***************************************************************************)
\* An attached channel is open, and belongs to a handler that has subscribed
\* and not yet run its cleanup; a handler that has not subscribed has no
\* channel that could be closed.
AttachedOpen ==
  /\ subscribers \subseteq Subs /\ closed \subseteq Subs
  /\ sse \in [Subs -> SsePC]
  /\ subscribers \cap closed = {}
  /\ \A s \in Subs : sse[s] = "off" => s \notin closed /\ s \notin subscribers
  /\ panic = FALSE

LEMMA AttachedOpenInit == TaskInit => AttachedOpen
BY DEF TaskInit, AttachedOpen, SsePC

LEMMA AttachedOpenNext == AttachedOpen /\ [TaskNext]_taskVars => AttachedOpen'
<1>. SUFFICES ASSUME AttachedOpen, [TaskNext]_taskVars PROVE AttachedOpen'
  OBVIOUS
<1>1. ASSUME NEW o \in Ops, Start(o) PROVE AttachedOpen'
  BY <1>1 DEF Start, AttachedOpen
<1>2. ASSUME NEW o \in Ops, Write(o) PROVE AttachedOpen'
  BY <1>2 DEF Write, AttachedOpen
<1>3. ASSUME NEW o \in Ops, Finish(o) PROVE AttachedOpen'
  BY <1>3 DEF Finish, AttachedOpen
<1>4. ASSUME NEW s \in Subs, Subscribe(s) PROVE AttachedOpen'
  <2>1. s \notin closed /\ s \notin subscribers /\ sse' = [sse EXCEPT ![s] = "streaming"]
    BY <1>4 DEF Subscribe, AttachedOpen
  <2>2. sse' \in [Subs -> SsePC] /\ sse'[s] = "streaming"
        /\ \A t \in Subs \ {s} : sse'[t] = sse[t]
    BY <2>1 DEF AttachedOpen, SsePC
  <2>3. CASE isFinished
    BY <1>4, <2>1, <2>2, <2>3 DEF Subscribe, AttachedOpen
  <2>4. CASE ~isFinished
    BY <1>4, <2>1, <2>2, <2>4 DEF Subscribe, AttachedOpen
  <2>. QED
    BY <2>3, <2>4
<1>5. ASSUME NEW s \in Subs, ReceiveLine(s) PROVE AttachedOpen'
  BY <1>5 DEF ReceiveLine, AttachedOpen
<1>6. ASSUME NEW s \in Subs, ReceiveEnd(s) \/ Disconnect(s) PROVE AttachedOpen'
  BY <1>6 DEF ReceiveEnd, Disconnect, AttachedOpen, SsePC
<1>7. ASSUME NEW s \in Subs, Cleanup(s) PROVE AttachedOpen'
  <2>1. sse' \in [Subs -> SsePC] /\ sse'[s] # "off" /\ \A t \in Subs \ {s} : sse'[t] = sse[t]
    BY <1>7 DEF Cleanup, AttachedOpen, SsePC
  <2>2. CASE s \in subscribers
    <3>1. s \notin closed /\ panic = FALSE
      BY <2>2 DEF AttachedOpen
    <3>2. closed' = closed \cup {s} /\ subscribers' = subscribers \ {s}
      BY <1>7, <2>2 DEF Cleanup
    <3>3. panic' = (panic \/ s \in closed)
      BY <1>7, <2>2 DEF Cleanup
    <3>4. panic' = FALSE
      BY <3>1, <3>3, Zenon
    <3>. QED
      BY <2>1, <3>2, <3>4 DEF AttachedOpen
  <2>3. CASE s \notin subscribers
    BY <1>7, <2>1, <2>3 DEF Cleanup, AttachedOpen
  <2>. QED
    BY <2>2, <2>3
<1>8. CASE UNCHANGED taskVars
  BY <1>8 DEF taskVars, AttachedOpen
<1>. QED
  BY <1>1, <1>2, <1>3, <1>4, <1>5, <1>6, <1>7, <1>8 DEF TaskNext, Operation, Handler

\* Whatever the number of operations that share the task and of handlers that
\* come and go, no channel is closed twice and nothing is sent on a closed one.
THEOREM TaskNeverPanics == TaskSpec => []NoPanic
<1>1. TaskInit => AttachedOpen
  BY AttachedOpenInit
<1>2. AttachedOpen /\ [TaskNext]_taskVars => AttachedOpen'
  BY AttachedOpenNext
<1>3. AttachedOpen => NoPanic
  BY DEF AttachedOpen, NoPanic
<1>. QED
  BY <1>1, <1>2, <1>3, PTL DEF TaskSpec

(***************************************************************************)
(* What the handlers see.  Invariant: a stream rises and never runs ahead  *)
(* of the log; unless it lost a line to a full channel it is the log's     *)
(* beginning, and all of it while it is attached.                          *)
(***************************************************************************)
Seen(s) == got[s] \o ch[s]
Rising(w) == \A i, j \in 1..Len(w) : i < j => w[i] < w[j]
Follows(w, n) == w \in Seq(Nat) /\ Rising(w) /\ \A i \in 1..Len(w) : w[i] <= n
Whole(w, n, attached) == w = UpTo(Len(w)) /\ Len(w) <= n /\ (attached => Len(w) = n)

StreamInv ==
  /\ TaskTypeOK /\ AttachedOpen
  /\ \A s \in Subs : Follows(Seen(s), log)
  /\ \A s \in Subs \ lossy : Whole(Seen(s), log, s \in subscribers)
  /\ \A s \in Subs : sse[s] = "off" => got[s] = <<>> /\ ch[s] = <<>>

LEMMA UpToFollows ==
  ASSUME NEW n \in Nat, NEW k \in Nat, k <= n
  PROVE  Follows(UpTo(k), n) /\ Len(UpTo(k)) = k
<1>1. UpTo(k) \in Seq(Nat) /\ Len(UpTo(k)) = k /\ \A i \in 1..k : UpTo(k)[i] = i
  BY DEF UpTo
<1>. QED
  BY <1>1 DEF Follows, Rising

LEMMA LineFollows ==
  ASSUME NEW n \in Nat, NEW w, Follows(w, n)
  PROVE  /\ Follows(Append(w, n + 1), n + 1)
         /\ Whole(w, n, TRUE) => Whole(Append(w, n + 1), n + 1, TRUE)
<1>. DEFINE v == Append(w, n + 1)
<1>1. /\ v \in Seq(Nat) /\ Len(v) = Len(w) + 1 /\ Len(w) \in Nat
      /\ \A i \in 1..Len(w) : v[i] = w[i] /\ w[i] \in Nat
      /\ v[Len(w) + 1] = n + 1
  BY AppendProperties, LenProperties, ElementOfSeq DEF Follows
<1>2. Follows(v, n + 1)
  <2>. HIDE DEF v
  <2>1. ASSUME NEW i \in 1..Len(v) PROVE v[i] <= n + 1
    <3>1. \A k \in 1..Len(w) : w[k] <= n
      BY DEF Follows
    <3>2. CASE i \in 1..Len(w)
      BY <1>1, <3>1, <3>2
    <3>3. CASE i = Len(w) + 1
      BY <1>1, <3>3
    <3>. QED
      BY <1>1, <3>2, <3>3
  <2>2. ASSUME NEW i \in 1..Len(v), NEW j \in 1..Len(v), i < j PROVE v[i] < v[j]
    <3>1. i \in 1..Len(w) /\ w[i] <= n
      BY <1>1, <2>2 DEF Follows
    <3>2. CASE j \in 1..Len(w)
      BY <1>1, <2>2, <3>1, <3>2 DEF Follows, Rising
    <3>3. CASE j = Len(w) + 1
      BY <1>1, <3>1, <3>3
    <3>. QED
      BY <1>1, <3>2, <3>3
  <2>. QED
    BY <1>1, <2>1, <2>2 DEF Follows, Rising
<1>3. ASSUME Whole(w, n, TRUE) PROVE Whole(v, n + 1, TRUE)
  <2>. HIDE DEF v
  <2>1. Len(w) = n /\ w = UpTo(n) /\ Len(v) = n + 1
    BY <1>1, <1>3 DEF Whole
  <2>2. \A i \in 1..n : w[i] = i
    BY <2>1 DEF UpTo
  <2>3. \A i \in 1..(n + 1) : v[i] = i
    BY <1>1, <2>1, <2>2
  <2>4. UpTo(n + 1) \in Seq(Nat) /\ Len(UpTo(n + 1)) = n + 1 /\ \A i \in 1..(n + 1) : UpTo(n + 1)[i] = i
    BY DEF UpTo
  <2>5. v = UpTo(n + 1)
    BY <1>1, <2>1, <2>3, <2>4, SeqEqual
  <2>. QED
    BY <2>1, <2>5 DEF Whole
<1>. QED
  BY <1>2, <1>3

LEMMA LineIsPassedOn ==
  ASSUME NEW g \in Seq(Nat), NEW c \in Seq(Nat), c # <<>>
  PROVE  /\ Append(g, Head(c)) \in Seq(Nat) /\ Tail(c) \in Seq(Nat) /\ Len(Tail(c)) < Len(c)
         /\ Append(g, Head(c)) \o Tail(c) = g \o c
<1>. DEFINE h == Head(c)
           t == Tail(c)
<1>1. h \in Nat /\ t \in Seq(Nat) /\ Len(t) < Len(c) /\ <<h>> \in Seq(Nat)
  BY HeadTailProperties, LenProperties
<1>2. c = <<h>> \o t
  <2>1. Len(c) \in Nat \ {0} /\ h = c[1]
    BY LenProperties, EmptySeq
  <2>2. SubSeq(c, 1, Len(c)) = <<c[1]>> \o SubSeq(c, 1 + 1, Len(c))
    <3>1. 1 \in 1..Len(c) /\ Len(c) \in 1..Len(c)
      BY <2>1
    <3>. QED
      BY <3>1, SubSeqRecursiveFirst
  <2>3. SubSeq(c, 1, Len(c)) = c /\ t = SubSeq(c, 2, Len(c))
    BY SubSeqFull, TailIsSubSeq
  <2>4. 1 + 1 = 2
    OBVIOUS
  <2>. HIDE DEF h, t
  <2>. QED
    BY <2>1, <2>2, <2>3, <2>4
<1>. HIDE DEF h, t
<1>3. Append(g, h) = g \o <<h>> /\ Append(g, h) \in Seq(Nat)
  BY <1>1, AppendIsConcat, AppendProperties
<1>4. (g \o <<h>>) \o t = g \o (<<h>> \o t)
  BY <1>1, ConcatAssociative
<1>. QED
  BY <1>1, <1>2, <1>3, <1>4 DEF h, t

LEMMA StreamInit == TaskInit => StreamInv
<1>. SUFFICES ASSUME TaskInit PROVE StreamInv
  OBVIOUS
<1>1. TaskTypeOK
  <2>1. ch = [s \in Subs |-> <<>>] /\ got = [s \in Subs |-> <<>>]
    BY DEF TaskInit
  <2>2. <<>> \in Seq(Nat) /\ Len(<<>>) = 0
    BY EmptySeq
  <2>3. ch \in [Subs -> Seq(Nat)] /\ got \in [Subs -> Seq(Nat)] /\ \A s \in Subs : ch[s] = <<>>
    BY <2>1, <2>2
  <2>4. \A s \in Subs : Len(ch[s]) <= ChanCap
    BY <2>2, <2>3, CapAssumption
  <2>5. panic \in BOOLEAN /\ isFinished \in BOOLEAN
    BY Zenon DEF TaskInit
  <2>6. op \in [Ops -> {"idle", "running", "done"}] /\ sse \in [Subs -> SsePC]
    BY DEF TaskInit, SsePC
  <2>7. log \in 0..MaxLines /\ subscribers = {} /\ closed = {} /\ lossy = {}
    BY CapAssumption DEF TaskInit
  <2>. QED
    BY <2>3, <2>4, <2>5, <2>6, <2>7 DEF TaskTypeOK
<1>2. ASSUME NEW s \in Subs PROVE Seen(s) = <<>>
  <2>1. got[s] = <<>> /\ ch[s] = <<>>
    BY DEF TaskInit
  <2>2. <<>> \o <<>> = <<>>
    BY EmptySeq, ConcatEmptySeq
  <2>. QED
    BY <2>1, <2>2 DEF Seen
<1>3. <<>> = UpTo(0) /\ Len(<<>>) = 0 /\ Follows(<<>>, 0)
  <2>1. UpTo(0) = <<>>
    BY EmptySeq DEF UpTo
  <2>2. Len(UpTo(0)) = 0 /\ Follows(UpTo(0), 0)
    BY UpToFollows
  <2>. QED
    BY <2>1, <2>2
<1>4. log = 0 /\ Whole(<<>>, 0, TRUE) /\ Whole(<<>>, 0, FALSE)
  BY <1>3 DEF TaskInit, Whole
<1>5. \A s \in Subs : Follows(Seen(s), log)
  BY <1>2, <1>3, <1>4
<1>6. \A s \in Subs : Whole(Seen(s), log, s \in subscribers)
  BY <1>2, <1>3, <1>4 DEF Whole
<1>. QED
  BY <1>1, <1>5, <1>6, AttachedOpenInit DEF StreamInv, TaskInit

\* A step that leaves what a handler has seen alone, adds no line to the log and
\* attaches nobody.
LEMMA StreamKept ==
  ASSUME StreamInv, TaskTypeOK', AttachedOpen', UNCHANGED <<log, lossy>>, subscribers' \subseteq subscribers,
         \A s \in Subs : Seen(s)' = Seen(s),
         \A s \in Subs : sse'[s] = "off" => sse[s] = "off" /\ got'[s] = got[s] /\ ch'[s] = ch[s]
  PROVE  StreamInv'
<1>1. \A s \in Subs : Follows(Seen(s), log)'
  BY DEF StreamInv
<1>2. ASSUME NEW s \in Subs \ lossy' PROVE Whole(Seen(s)', log', s \in subscribers')
  <2>1. Whole(Seen(s), log, s \in subscribers)
    BY <1>2 DEF StreamInv
  <2>. QED
    BY <1>2, <2>1 DEF Whole
<1>3. \A s \in Subs : sse'[s] = "off" => got'[s] = <<>> /\ ch'[s] = <<>>
  BY DEF StreamInv
<1>. QED
  BY <1>1, <1>2, <1>3 DEF StreamInv

LEMMA WriteStreams ==
  ASSUME StreamInv, NEW o \in Ops, Write(o), AttachedOpen'
  PROVE  StreamInv'
<1>1. /\ log < MaxLines /\ log' = log + 1 /\ UNCHANGED <<subscribers, isFinished, closed, op, sse, got>>
      /\ ch' = [s \in Subs |-> IF s \in subscribers /\ Len(ch[s]) < ChanCap
                                 THEN Append(ch[s], log + 1) ELSE ch[s]]
      /\ lossy' = lossy \cup {s \in subscribers : Len(ch[s]) >= ChanCap}
  BY DEF Write, Broadcast
<1>2. log \in Nat /\ log + 1 \in 0..MaxLines /\ ch \in [Subs -> Seq(Nat)] /\ got \in [Subs -> Seq(Nat)]
      /\ lossy \subseteq Subs /\ subscribers \subseteq Subs /\ ChanCap \in Nat
      /\ \A s \in Subs : Len(ch[s]) <= ChanCap /\ Len(ch[s]) \in Nat
  <2>1. TaskTypeOK
    BY DEF StreamInv
  <2>2. \A s \in Subs : Len(ch[s]) \in Nat
    BY <2>1, LenProperties DEF TaskTypeOK
  <2>. QED
    BY <1>1, <2>1, <2>2, CapAssumption DEF TaskTypeOK
<1>3. ASSUME NEW s \in Subs
      PROVE  ch'[s] \in Seq(Nat) /\ Len(ch'[s]) <= ChanCap /\ Follows(Seen(s)', log')
             /\ (s \notin lossy' => Whole(Seen(s)', log', s \in subscribers'))
  <2>1. Follows(Seen(s), log) /\ (s \notin lossy => Whole(Seen(s), log, s \in subscribers))
    BY DEF StreamInv
  <2>2. CASE s \in subscribers /\ Len(ch[s]) < ChanCap
    <3>1. ch'[s] = Append(ch[s], log + 1) /\ s \notin lossy' => s \notin lossy
      BY <1>1, <2>2
    <3>2. Append(ch[s], log + 1) \in Seq(Nat) /\ Len(Append(ch[s], log + 1)) = Len(ch[s]) + 1
      BY <1>2, AppendProperties
    <3>3. Seen(s)' = Append(Seen(s), log + 1)
      <4>1. got[s] \o Append(ch[s], log + 1) = Append(got[s] \o ch[s], log + 1)
        <5>. DEFINE g == got[s]
                    c == ch[s]
                    l == <<log + 1>>
        <5>1. g \in Seq(Nat) /\ c \in Seq(Nat) /\ l \in Seq(Nat) /\ log + 1 \in Nat
          BY <1>2
        <5>. HIDE DEF g, c
        <5>2. g \o c \in Seq(Nat) /\ g \o (c \o l) = (g \o c) \o l
          BY <5>1, ConcatProperties, ConcatAssociative
        <5>3. Append(c, log + 1) = c \o l /\ Append(g \o c, log + 1) = (g \o c) \o l
          BY <5>1, <5>2, AppendIsConcat
        <5>4. g \o Append(c, log + 1) = Append(g \o c, log + 1)
          BY <5>2, <5>3
        <5>. QED
          BY <5>4 DEF g, c
      <4>. QED
        BY <1>1, <2>2, <3>1, <4>1 DEF Seen
    <3>4. Follows(Append(Seen(s), log + 1), log + 1)
          /\ (Whole(Seen(s), log, TRUE) => Whole(Append(Seen(s), log + 1), log + 1, TRUE))
      BY <1>2, <2>1, LineFollows
    <3>5. s \notin lossy' => Whole(Seen(s), log, TRUE)
      BY <1>1, <2>1, <2>2
    <3>6. s \notin lossy' => Whole(Seen(s)', log', s \in subscribers')
      BY <1>1, <2>2, <3>3, <3>4, <3>5
    <3>. QED
      BY <1>1, <1>2, <2>2, <3>1, <3>2, <3>3, <3>4, <3>6
  <2>3. CASE ~(s \in subscribers /\ Len(ch[s]) < ChanCap)
    <3>1. ch'[s] = ch[s] /\ Seen(s)' = Seen(s) /\ log' = log + 1 /\ subscribers' = subscribers
      BY <1>1, <2>3 DEF Seen
    <3>2. Follows(Seen(s), log + 1)
      <4>1. Seen(s) \in Seq(Nat) /\ \A i \in 1..Len(Seen(s)) : Seen(s)[i] \in Nat
        BY <2>1, ElementOfSeq DEF Follows
      <4>. QED
        BY <1>2, <2>1, <4>1 DEF Follows
    <3>3. s \notin lossy' => s \notin lossy /\ s \notin subscribers
      BY <1>1, <1>2, <2>3
    <3>4. s \notin lossy' => Whole(Seen(s), log + 1, FALSE)
      <4>1. Len(Seen(s)) \in Nat
        BY <2>1, LenProperties DEF Follows
      <4>. QED
        BY <1>2, <2>1, <3>3, <4>1 DEF Whole
    <3>5. Follows(Seen(s)', log')
      BY <3>1, <3>2
    <3>6. s \notin lossy' => Whole(Seen(s)', log', s \in subscribers')
      BY <3>1, <3>3, <3>4 DEF Whole
    <3>7. ch'[s] \in Seq(Nat) /\ Len(ch'[s]) <= ChanCap
      BY <1>2, <3>1
    <3>. QED
      BY <3>5, <3>6, <3>7
  <2>. QED
    BY <2>2, <2>3
<1>4. TaskTypeOK'
  <2>1. panic' \in BOOLEAN
    BY DEF AttachedOpen
  <2>2. ch' \in [Subs -> Seq(Nat)]
    BY <1>1, <1>3
  <2>3. lossy' \subseteq Subs
    BY <1>1, <1>2
  <2>4. TaskTypeOK
    BY DEF StreamInv
  <2>. QED
    BY <1>1, <1>2, <1>3, <2>1, <2>2, <2>3, <2>4 DEF TaskTypeOK
<1>5. ASSUME NEW s \in Subs, sse'[s] = "off" PROVE got'[s] = <<>> /\ ch'[s] = <<>>
  <2>1. s \notin subscribers
    BY <1>1, <1>5 DEF StreamInv, AttachedOpen
  <2>. QED
    BY <1>1, <1>5, <2>1 DEF StreamInv
<1>. QED
  BY <1>3, <1>4, <1>5 DEF StreamInv

LEMMA SubscribeStreams ==
  ASSUME StreamInv, NEW s \in Subs, Subscribe(s), AttachedOpen'
  PROVE  StreamInv'
<1>. DEFINE k == IF log < ChanCap THEN log ELSE ChanCap
<1>1. /\ sse[s] = "off" /\ sse' = [sse EXCEPT ![s] = "streaming"]
      /\ ch' = [ch EXCEPT ![s] = UpTo(k)]
      /\ lossy' = IF log > ChanCap THEN lossy \cup {s} ELSE lossy
      /\ UNCHANGED <<log, isFinished, op, got>>
      /\ subscribers' \subseteq subscribers \cup {s} /\ closed' \subseteq closed \cup {s}
  BY DEF Subscribe
<1>2. TaskTypeOK /\ k \in Nat /\ k <= log /\ k <= ChanCap /\ log \in Nat /\ ChanCap \in Nat
      /\ (log <= ChanCap => k = log)
  BY CapAssumption DEF StreamInv, TaskTypeOK
<1>3. UpTo(k) \in Seq(Nat) /\ Len(UpTo(k)) = k /\ Follows(UpTo(k), log)
  BY <1>2, UpToFollows DEF Follows
<1>. HIDE DEF k
<1>4. /\ ch' \in [Subs -> Seq(Nat)] /\ ch'[s] = UpTo(k) /\ \A t \in Subs \ {s} : ch'[t] = ch[t]
      /\ sse' \in [Subs -> SsePC] /\ sse'[s] = "streaming" /\ \A t \in Subs \ {s} : sse'[t] = sse[t]
  BY <1>1, <1>2, <1>3 DEF TaskTypeOK, SsePC
<1>5. TaskTypeOK'
  <2>1. panic' \in BOOLEAN
    BY DEF AttachedOpen
  <2>2. lossy' \subseteq Subs /\ subscribers' \subseteq Subs /\ closed' \subseteq Subs
    BY <1>1, <1>2 DEF TaskTypeOK
  <2>3. \A t \in Subs : Len(ch'[t]) <= ChanCap
    BY <1>2, <1>3, <1>4 DEF TaskTypeOK
  <2>. QED
    BY <1>1, <1>2, <1>4, <2>1, <2>2, <2>3 DEF TaskTypeOK
<1>6. Seen(s)' = UpTo(k)
  <2>1. got'[s] = <<>>
    BY <1>1 DEF StreamInv
  <2>2. <<>> \o UpTo(k) = UpTo(k)
    BY <1>3, ConcatEmptySeq
  <2>. QED
    BY <1>4, <2>1, <2>2 DEF Seen
<1>7. \A t \in Subs \ {s} : Seen(t)' = Seen(t)
  BY <1>1, <1>4 DEF Seen
<1>8. \A t \in Subs : Follows(Seen(t)', log')
  BY <1>1, <1>3, <1>6, <1>7 DEF StreamInv
<1>9. ASSUME NEW t \in Subs \ lossy' PROVE Whole(Seen(t)', log', t \in subscribers')
  <2>1. CASE t = s
    <3>1. k = log
      BY <1>1, <1>2, <1>9, <2>1
    <3>. QED
      BY <1>1, <1>2, <1>3, <1>6, <2>1, <3>1 DEF Whole
  <2>2. CASE t # s
    <3>1. t \notin lossy /\ (t \in subscribers' => t \in subscribers)
      BY <1>1, <1>9, <2>2
    <3>2. Whole(Seen(t), log, t \in subscribers)
      BY <3>1 DEF StreamInv
    <3>. QED
      BY <1>1, <1>7, <2>2, <3>1, <3>2 DEF Whole
  <2>. QED
    BY <2>1, <2>2
<1>10. \A t \in Subs : sse'[t] = "off" => got'[t] = <<>> /\ ch'[t] = <<>>
  BY <1>1, <1>4 DEF StreamInv
<1>. QED
  BY <1>5, <1>8, <1>9, <1>10 DEF StreamInv

LEMMA StreamNext == StreamInv /\ [TaskNext]_taskVars => StreamInv'
<1>. SUFFICES ASSUME StreamInv, [TaskNext]_taskVars PROVE StreamInv'
  OBVIOUS
<1>1. AttachedOpen'
  BY AttachedOpenNext DEF StreamInv
<1>2. TaskTypeOK /\ panic' \in BOOLEAN
  BY <1>1 DEF StreamInv, AttachedOpen
<1>3. ASSUME NEW o \in Ops, Start(o) \/ Finish(o) PROVE StreamInv'
  <2>1. /\ UNCHANGED <<log, lossy, ch, got, sse>> /\ subscribers' \subseteq subscribers
        /\ closed' \subseteq closed \cup subscribers /\ isFinished' \in {isFinished, TRUE}
        /\ op' \in [Ops -> {"idle", "running", "done"}]
    BY <1>2, <1>3 DEF Start, Finish, TaskTypeOK
  <2>2. TaskTypeOK'
    BY <1>2, <2>1 DEF TaskTypeOK
  <2>3. \A s \in Subs : Seen(s)' = Seen(s)
    BY <2>1 DEF Seen
  <2>. QED
    BY <1>1, <2>1, <2>2, <2>3, StreamKept
<1>4. ASSUME NEW s \in Subs, ReceiveLine(s) PROVE StreamInv'
  <2>1. /\ sse[s] = "streaming" /\ ch[s] # <<>>
        /\ got' = [got EXCEPT ![s] = Append(got[s], Head(ch[s]))]
        /\ ch' = [ch EXCEPT ![s] = Tail(ch[s])]
        /\ UNCHANGED <<log, subscribers, isFinished, closed, op, sse, lossy>>
    BY <1>4 DEF ReceiveLine
  <2>2. ch \in [Subs -> Seq(Nat)] /\ got \in [Subs -> Seq(Nat)]
    BY <1>2 DEF TaskTypeOK
  <2>3. /\ Append(got[s], Head(ch[s])) \in Seq(Nat) /\ Tail(ch[s]) \in Seq(Nat)
        /\ Len(Tail(ch[s])) < Len(ch[s])
        /\ Append(got[s], Head(ch[s])) \o Tail(ch[s]) = got[s] \o ch[s]
    BY <2>1, <2>2, LineIsPassedOn
  <2>4. /\ ch' \in [Subs -> Seq(Nat)] /\ got' \in [Subs -> Seq(Nat)]
        /\ ch'[s] = Tail(ch[s]) /\ got'[s] = Append(got[s], Head(ch[s]))
        /\ \A t \in Subs \ {s} : ch'[t] = ch[t] /\ got'[t] = got[t]
    BY <2>1, <2>2, <2>3
  <2>5. ASSUME NEW t \in Subs PROVE Len(ch'[t]) <= ChanCap
    <3>1. Len(ch[s]) \in Nat /\ Len(Tail(ch[s])) \in Nat /\ Len(ch[s]) <= ChanCap /\ Len(ch[t]) <= ChanCap
      BY <1>2, <2>2, <2>3, LenProperties DEF TaskTypeOK
    <3>2. CASE t = s
      BY <2>3, <2>4, <3>1, <3>2, CapAssumption
    <3>3. CASE t # s
      BY <2>4, <3>1, <3>3
    <3>. QED
      BY <3>2, <3>3
  <2>6. TaskTypeOK'
    BY <1>2, <2>1, <2>4, <2>5 DEF TaskTypeOK
  <2>7. \A t \in Subs : Seen(t)' = Seen(t)
    BY <2>3, <2>4 DEF Seen
  <2>. QED
    BY <1>1, <2>1, <2>4, <2>6, <2>7, StreamKept
<1>5. ASSUME NEW s \in Subs, ReceiveEnd(s) \/ Disconnect(s) \/ Cleanup(s) PROVE StreamInv'
  <2>1. /\ UNCHANGED <<log, lossy, ch, got, isFinished, op>> /\ subscribers' \subseteq subscribers
        /\ closed' \subseteq closed \cup {s}
        /\ \E x \in SsePC \ {"off"} : sse' = [sse EXCEPT ![s] = x]
    BY <1>5 DEF ReceiveEnd, Disconnect, Cleanup, SsePC
  <2>2. sse' \in [Subs -> SsePC] /\ \A t \in Subs : sse'[t] = "off" => sse[t] = "off"
    BY <1>2, <2>1 DEF TaskTypeOK
  <2>3. TaskTypeOK'
    BY <1>2, <2>1, <2>2 DEF TaskTypeOK
  <2>4. \A t \in Subs : Seen(t)' = Seen(t)
    BY <2>1 DEF Seen
  <2>. QED
    BY <1>1, <2>1, <2>2, <2>3, <2>4, StreamKept
<1>6. CASE UNCHANGED taskVars
  <2>1. TaskTypeOK' /\ \A t \in Subs : Seen(t)' = Seen(t)
    BY <1>2, <1>6 DEF taskVars, TaskTypeOK, Seen
  <2>. QED
    BY <1>1, <1>6, <2>1, StreamKept DEF taskVars
<1>. QED
  BY <1>1, <1>3, <1>4, <1>5, <1>6, WriteStreams, SubscribeStreams DEF TaskNext, Operation, Handler

\* However operations and handlers interleave, and whatever the capacity of the
\* channels, a handler sees the task's log in order, without a gap that a full
\* channel does not explain (Task.Subscribe, Task.broadcastLocked).
THEOREM StreamsShowTheLog == TaskSpec => []StreamIsTheLog
<1>1. StreamInv => StreamIsTheLog
  BY DEF StreamInv, StreamIsTheLog, Gapless, InOrder, Seen, Follows, Rising, Whole
<1>. QED
  BY <1>1, StreamInit, StreamNext, PTL DEF TaskSpec

----------------------------------------------------------------------------
(* The store page.  Its requests and timers are a bag, whose effect on the  *)
(* copies of a job two lemmas give.                                         *)
BagOfJobs(b) == IsABag(b) /\ BagToSet(b) \subseteq Jobs

LEMMA MoreJobs ==
  ASSUME NEW b, BagOfJobs(b), NEW j \in Jobs
  PROVE  /\ BagOfJobs(More(b, j))
         /\ BagToSet(More(b, j)) = BagToSet(b) \cup {j}
         /\ \A k : Copies(More(b, j), k) = Copies(b, k) + (IF k = j THEN 1 ELSE 0)
BY DEF BagOfJobs, More, SetToBag, (+), IsABag, BagToSet, Copies

LEMMA LessJobs ==
  ASSUME NEW b, BagOfJobs(b), NEW j \in BagToSet(b)
  PROVE  /\ BagOfJobs(Less(b, j))
         /\ BagToSet(b) \ {j} \subseteq BagToSet(Less(b, j))
         /\ BagToSet(Less(b, j)) \subseteq BagToSet(b)
         /\ \A k : Copies(Less(b, j), k) = Copies(b, k) - (IF k = j THEN 1 ELSE 0)
BY DEF BagOfJobs, Less, SetToBag, (-), IsABag, BagToSet, Copies

LEMMA CopiesAre ==
  ASSUME NEW b, BagOfJobs(b), NEW k
  PROVE  Copies(b, k) \in Nat /\ (k \in BagToSet(b) <=> Copies(b, k) > 0)
BY DEF BagOfJobs, IsABag, BagToSet, Copies

(* A confirmed run claims a stream from its confirmation to the answer that *)
(* opens it: one claim for each copy of its request.                        *)
Claiming == {"yaml", "post", "update"}
Claims(b) == {c \in Jobs \X Nat : c[1].wait \in Claiming /\ 1 <= c[2] /\ c[2] <= Copies(b, c[1])}
Busy(st) == {i \in Streams : st[i] # NoStream}

Fits(b, st, n) ==
    /\ IsFiniteSet(Claims(b))
    /\ Cardinality(Claims(b)) + Cardinality(Busy(st)) <= n

LEMMA BusyIsFinite == ASSUME NEW st PROVE IsFiniteSet(Busy(st)) /\ Cardinality(Busy(st)) \in Nat
<1>1. MaxRuns \in Nat /\ Busy(st) \subseteq 1..MaxRuns
  BY ConstantsOK DEF Busy, Streams
<1>2. IsFiniteSet(1..MaxRuns)
  BY <1>1, FS_Interval
<1>. QED  BY <1>1, <1>2, FS_Subset, FS_CardinalityType

LEMMA FitsMore ==
  ASSUME NEW b, BagOfJobs(b), NEW j \in Jobs, NEW st, NEW n \in Int, Fits(b, st, n)
  PROVE  Fits(More(b, j), st, IF j.wait \in Claiming THEN n + 1 ELSE n)
<1>1. \A k : Copies(More(b, j), k) = Copies(b, k) + (IF k = j THEN 1 ELSE 0)
  BY MoreJobs
<1>2. \A k : Copies(b, k) \in Nat
  BY CopiesAre
<1>3. CASE j.wait \notin Claiming
  <2>1. Claims(More(b, j)) = Claims(b)
    BY <1>1, <1>2, <1>3 DEF Claims
  <2>. QED  BY <2>1, <1>3 DEF Fits
<1>4. CASE j.wait \in Claiming
  <2>. DEFINE c == <<j, Copies(b, j) + 1>>
  <2>1. Claims(More(b, j)) = Claims(b) \cup {c}
    BY <1>1, <1>2, <1>4 DEF Claims
  <2>2. c \notin Claims(b)
    BY <1>2 DEF Claims
  <2>3. IsFiniteSet(Claims(b) \cup {c}) /\ Cardinality(Claims(b) \cup {c}) = Cardinality(Claims(b)) + 1
    BY <2>2, FS_AddElement DEF Fits
  <2>. QED  BY <2>1, <2>3, <1>4, BusyIsFinite, FS_CardinalityType DEF Fits
<1>. QED  BY <1>3, <1>4

LEMMA FitsLess ==
  ASSUME NEW b, BagOfJobs(b), NEW j \in BagToSet(b), NEW st, NEW n \in Int, Fits(b, st, n)
  PROVE  Fits(Less(b, j), st, IF j.wait \in Claiming THEN n - 1 ELSE n)
<1>1. \A k : Copies(Less(b, j), k) = Copies(b, k) - (IF k = j THEN 1 ELSE 0)
  BY LessJobs
<1>2. (\A k : Copies(b, k) \in Nat) /\ Copies(b, j) > 0 /\ j \in Jobs
  BY CopiesAre DEF BagOfJobs
<1>3. CASE j.wait \notin Claiming
  <2>1. Claims(Less(b, j)) = Claims(b)
    BY <1>1, <1>2, <1>3 DEF Claims
  <2>. QED  BY <2>1, <1>3 DEF Fits
<1>4. CASE j.wait \in Claiming
  <2>. DEFINE c == <<j, Copies(b, j)>>
  <2>1. Claims(Less(b, j)) = Claims(b) \ {c}
    BY <1>1, <1>2, <1>4 DEF Claims
  <2>2. c \in Claims(b)
    BY <1>2, <1>4 DEF Claims
  <2>3. IsFiniteSet(Claims(b) \ {c}) /\ Cardinality(Claims(b) \ {c}) = Cardinality(Claims(b)) - 1
    BY <2>2, FS_RemoveElement DEF Fits
  <2>. QED  BY <2>1, <2>3, <1>4, BusyIsFinite, FS_CardinalityType DEF Fits
<1>. QED  BY <1>3, <1>4

LEMMA FitsStreams ==
  ASSUME NEW b, NEW st, NEW new, NEW n \in Int, Fits(b, st, n), Busy(new) \subseteq Busy(st)
  PROVE  Fits(b, new, n)
<1>1. Cardinality(Busy(new)) <= Cardinality(Busy(st)) /\ Cardinality(Busy(new)) \in Nat /\ Cardinality(Busy(st)) \in Nat
  BY BusyIsFinite, FS_Subset
<1>. QED  BY <1>1, FS_CardinalityType DEF Fits

(* A page and the tiles as records and functions of their types.            *)
PageRec == [phase : PagePhase, pending : MaybeApp, app : MaybeApp,
            project : MaybeApp, active : 0..MaxRuns, timer : 0..MaxRuns,
            analysing : BOOLEAN, ports : PortChoices]
StreamRec == [mount : Mounts, app : MaybeApp, open : BOOLEAN, armed : BOOLEAN]
Tiles == [Apps -> {"none"} \cup InFlight \cup Terminal]

(* What makes the overlay's invariant inductive: the timer a page names is  *)
(* armed and its own, nobody but the mounted page checks ports, and there   *)
(* is a free stream for every claim, which the next answer takes.           *)
TimerIsArmed ==
    \A m \in Mounts :
        page[m].timer # 0 => stream[page[m].timer].armed /\ stream[page[m].timer].mount = m
AwayIsQuiet == \A m \in Mounts : m # mounted => ~page[m].analysing

StoreInv ==
    /\ StoreTypeOK /\ BagOfJobs(jobs) /\ Fits(jobs, stream, runs)
    /\ ActiveIsGuarded /\ TimerIsArmed
    /\ AnalysisEnds /\ AwayIsQuiet

LEMMA StoreInvInit == StoreInit => StoreInv
<1>. SUFFICES ASSUME StoreInit PROVE StoreInv
  OBVIOUS
<1>. USE ConstantsOK DEF StoreInit
<1>1. FreshPage \in PageRec /\ NoStream \in StreamRec
  BY DEF FreshPage, PageRec, NoStream, StreamRec, PagePhase, MaybeApp, PortChoices, Mounts
<1>2. BagOfJobs(jobs) /\ BagToSet(jobs) = {}
  BY DEF BagOfJobs, EmptyBag, SetToBag, IsABag, BagToSet
<1>3. Claims(jobs) = {} /\ Busy(stream) = {}
  BY <1>2 DEF Claims, Copies, BagToSet, Busy
<1>4. Fits(jobs, stream, runs)
  BY <1>3, FS_EmptySet DEF Fits
<1>5. StoreTypeOK
  BY <1>1, <1>2 DEF StoreTypeOK, PageRec, StreamRec, Mounts
<1>6. ActiveIsGuarded /\ TimerIsArmed /\ AnalysisEnds /\ AwayIsQuiet
  BY DEF ActiveIsGuarded, TimerIsArmed, AnalysisEnds, AwayIsQuiet, FreshPage
<1>. QED  BY <1>2, <1>4, <1>5, <1>6 DEF StoreInv

LEMMA InvTypes ==
  ASSUME StoreInv
  PROVE  /\ task \in [Apps -> {"none", "open", "done"}]
         /\ page \in [Mounts -> PageRec] /\ tile \in Tiles
         /\ mounted \in 0..MaxMounts /\ born \in Mounts
         /\ stream \in [Streams -> StreamRec] /\ runs \in 0..MaxRuns
         /\ BagOfJobs(jobs) /\ Fits(jobs, stream, runs)
BY DEF StoreInv, StoreTypeOK, PageRec, StreamRec, Tiles

LEMMA TilesTold ==
  ASSUME NEW t \in Tiles, NEW a, NEW ph \in InFlight \cup Terminal
  PROVE  UpdateTile(t, a, ph) \in Tiles /\ \A x \in Apps : t[x] = "none" => UpdateTile(t, a, ph)[x] = "none"
BY DEF UpdateTile, Tiles

LEMMA TilesMirrored ==
  ASSUME NEW t \in Tiles, NEW m, NEW pg \in PageRec
  PROVE  Mirrored(t, m, pg) \in Tiles /\ \A x \in Apps : t[x] = "none" => Mirrored(t, m, pg)[x] = "none"
<1>1. CASE pg.phase \in {"idle", "confirm"}
  BY <1>1 DEF Mirrored
<1>2. CASE pg.phase \notin {"idle", "confirm"}
  <2>1. pg.phase \in InFlight \cup Terminal
    BY <1>2 DEF PageRec, PagePhase
  <2>. QED  BY <2>1, TilesTold DEF Mirrored
<1>. QED  BY <1>1, <1>2

(* What one callback of a mount leaves of the others.                       *)
LEMMA PageOf ==
  ASSUME page \in [Mounts -> PageRec], NEW m \in Mounts, NEW pg \in PageRec, NEW t \in Tiles,
         PageBecomes(m, pg, t)
  PROVE  /\ page' \in [Mounts -> PageRec] /\ tile' \in Tiles
         /\ page'[m] = pg /\ \A n \in Mounts : n # m => page'[n] = page[n]
         /\ \A x \in Apps : t[x] = "none" => tile'[x] = "none"
BY TilesMirrored DEF PageBecomes

(* The jobs that keep a page's analysis going.                              *)
Analysing(b, m) == \E j \in BagToSet(b) : j.mount = m /\ j.wait \in {"analyse", "seed"}

(* A callback that leaves the streams alone and the page's names for them.  *)
LEMMA OneCallback ==
  ASSUME StoreInv, NEW m \in Mounts, NEW pg \in PageRec, NEW t \in Tiles, PageBecomes(m, pg, t),
         pg.active = page[m].active, pg.timer = page[m].timer,
         UNCHANGED <<task, mounted, born, stream>>, runs' \in 0..MaxRuns,
         BagOfJobs(jobs'), Fits(jobs', stream, runs'),
         pg.analysing => m = mounted /\ Analysing(jobs', m),
         \A n \in Mounts : n # m /\ Analysing(jobs, n) => Analysing(jobs', n)
  PROVE  StoreInv'
<1>. USE InvTypes
<1>1. /\ page' \in [Mounts -> PageRec] /\ tile' \in Tiles
      /\ page'[m] = pg /\ \A n \in Mounts : n # m => page'[n] = page[n]
  BY PageOf
<1>2. StoreTypeOK'
  BY <1>1 DEF StoreTypeOK, PageRec, StreamRec, Tiles, BagOfJobs
<1>3. ActiveIsGuarded' /\ TimerIsArmed'
  BY <1>1 DEF StoreInv, ActiveIsGuarded, TimerIsArmed
<1>4. AnalysisEnds'
  <2>1. \A n \in Mounts : page[n].analysing => Analysing(jobs, n)
    BY DEF StoreInv, AnalysisEnds, Analysing
  <2>2. \A n \in Mounts : page'[n].analysing => Analysing(jobs', n)
    BY <1>1, <2>1
  <2>. QED  BY <2>2 DEF AnalysisEnds, Analysing
<1>5. AwayIsQuiet'
  BY <1>1 DEF StoreInv, AwayIsQuiet
<1>6. BagOfJobs(jobs)' /\ Fits(jobs, stream, runs)'
  OBVIOUS
<1>. QED  BY <1>2, <1>3, <1>4, <1>5, <1>6 DEF StoreInv

LEMMA JobTaken ==
  ASSUME StoreInv, NEW j \in BagToSet(jobs)
  PROVE  /\ j \in Jobs /\ j.mount \in Mounts /\ j.app \in MaybeApp /\ page[j.mount] \in PageRec
         /\ BagOfJobs(Less(jobs, j))
         /\ Fits(Less(jobs, j), stream, IF j.wait \in Claiming THEN runs - 1 ELSE runs)
         /\ \A n : n # j.mount \/ j.wait \notin {"analyse", "seed"} =>
                (Analysing(jobs, n) => Analysing(Less(jobs, j), n))
<1>1. j \in Jobs /\ j.mount \in Mounts /\ j.app \in MaybeApp /\ page[j.mount] \in PageRec
  BY InvTypes DEF BagOfJobs, Jobs
<1>2. runs \in Int
  BY InvTypes, ConstantsOK
<1>3. BagOfJobs(Less(jobs, j)) /\ BagToSet(jobs) \ {j} \subseteq BagToSet(Less(jobs, j))
  BY LessJobs, InvTypes
<1>4. Fits(Less(jobs, j), stream, IF j.wait \in Claiming THEN runs - 1 ELSE runs)
  BY FitsLess, <1>2, InvTypes
<1>5. ASSUME NEW n, n # j.mount \/ j.wait \notin {"analyse", "seed"}, Analysing(jobs, n)
      PROVE  Analysing(Less(jobs, j), n)
  BY <1>3, <1>5 DEF Analysing
<1>. QED  BY <1>1, <1>3, <1>4, <1>5

LEMMA JobAdded ==
  ASSUME NEW b, BagOfJobs(b), NEW w \in Waits, NEW m \in Mounts, NEW a \in MaybeApp
  PROVE  /\ Job(w, m, a) \in Jobs
         /\ BagOfJobs(More(b, Job(w, m, a)))
         /\ \A n : Analysing(b, n) => Analysing(More(b, Job(w, m, a)), n)
         /\ w \in {"analyse", "seed"} => Analysing(More(b, Job(w, m, a)), m)
         /\ \A n \in Int : Fits(b, stream, n) =>
                Fits(More(b, Job(w, m, a)), stream, IF w \in Claiming THEN n + 1 ELSE n)
<1>1. Job(w, m, a) \in Jobs /\ Job(w, m, a).wait = w /\ Job(w, m, a).mount = m
  BY DEF Job, Jobs
<1>2. BagOfJobs(More(b, Job(w, m, a))) /\ BagToSet(More(b, Job(w, m, a))) = BagToSet(b) \cup {Job(w, m, a)}
  BY <1>1, MoreJobs
<1>3. ASSUME NEW n \in Int, Fits(b, stream, n)
      PROVE  Fits(More(b, Job(w, m, a)), stream, IF w \in Claiming THEN n + 1 ELSE n)
  BY <1>1, <1>3, FitsMore
<1>. QED  BY <1>1, <1>2, <1>3 DEF Analysing

LEMMA PageIsQuiet ==
  ASSUME StoreInv, NEW m \in Mounts, page[m].analysing
  PROVE  m = mounted /\ Analysing(jobs, m)
BY DEF StoreInv, AnalysisEnds, AwayIsQuiet, Analysing

LEMMA OnScreen ==
  ASSUME StoreInv, mounted # 0
  PROVE  mounted \in Mounts /\ Pg \in PageRec /\ (Pg.analysing => Analysing(jobs, mounted))
BY InvTypes, PageIsQuiet, ConstantsOK DEF Mounts, Pg

LEMMA InvCheckGoes ==
  ASSUME StoreInv, mounted # 0, NEW w \in {"analyse", "debounce", "pick"}, NEW pg \in PageRec, CheckGoes(w, pg),
         pg.active = Pg.active, pg.timer = Pg.timer, pg.analysing => Pg.analysing \/ w = "analyse",
         UNCHANGED <<task, mounted, born, stream, runs>>
  PROVE  StoreInv'
<1>. USE InvTypes, OnScreen
<1>1. runs \in Int /\ runs' \in 0..MaxRuns /\ w \in Waits /\ w \notin Claiming /\ NoApp \in MaybeApp
  BY ConstantsOK DEF Waits, Checks, Claiming, MaybeApp
<1>2. /\ BagOfJobs(jobs') /\ Fits(jobs', stream, runs')
      /\ \A n : Analysing(jobs, n) => Analysing(jobs', n)
      /\ w = "analyse" => Analysing(jobs', mounted)
  BY <1>1, JobAdded DEF CheckGoes
<1>3. PageBecomes(mounted, pg, tile) /\ pg.active = page[mounted].active /\ pg.timer = page[mounted].timer
  BY DEF CheckGoes, Pg
<1>. QED  BY <1>1, <1>2, <1>3, OneCallback

LEMMA InvConfirm ==
  ASSUME StoreInv,
         \/ CancelConfirm \/ OnPortInput \/ AutoPickPort \/ ExecuteInstall \/ StayInStore
         \/ \E a \in Apps : RequestInstall(a) \/ HandleUpdate(a)
  PROVE  StoreInv'
<1>. USE InvTypes
<1>0. mounted # 0
  BY DEF CancelConfirm, OnPortInput, AutoPickPort, ExecuteInstall, StayInStore, RequestInstall, HandleUpdate,
         ConfirmOffers, GetOffered, UpdateOffered
<1>. USE <1>0, OnScreen
<1>1. CASE CancelConfirm
  <2>. DEFINE pg == [Pg EXCEPT !.phase = "idle", !.pending = NoApp]
  <2>1. pg \in PageRec /\ pg.active = page[mounted].active /\ pg.timer = page[mounted].timer /\ pg.analysing = Pg.analysing
    BY DEF PageRec, PagePhase, MaybeApp, Pg
  <2>2. PageBecomes(mounted, pg, tile) /\ UNCHANGED <<task, mounted, born, stream, jobs, runs>>
    BY <1>1 DEF CancelConfirm
  <2>. HIDE DEF pg
  <2>. QED  BY <2>1, <2>2, OneCallback
<1>2. CASE OnPortInput
  BY <1>2, InvCheckGoes DEF OnPortInput
<1>3. CASE AutoPickPort
  <2>. DEFINE pg == [Pg EXCEPT !.ports = "checking"]
  <2>1. pg \in PageRec /\ pg.active = Pg.active /\ pg.timer = Pg.timer /\ pg.analysing = Pg.analysing
    BY DEF PageRec, PortChoices
  <2>2. CheckGoes("pick", pg) /\ UNCHANGED <<task, mounted, born, stream, runs>>
    BY <1>3 DEF AutoPickPort
  <2>. HIDE DEF pg
  <2>. QED  BY <2>1, <2>2, InvCheckGoes
<1>4. CASE ExecuteInstall
  <2>. DEFINE pg == [Pg EXCEPT !.phase = "installing", !.app = Pg.pending, !.pending = NoApp, !.project = NoApp]
              a == Pg.pending
  <2>1. /\ pg \in PageRec /\ pg.active = page[mounted].active /\ pg.timer = page[mounted].timer
        /\ pg.analysing = Pg.analysing /\ a \in MaybeApp
    BY DEF PageRec, PagePhase, InFlight, MaybeApp, Pg
  <2>2. /\ PageBecomes(mounted, pg, tile) /\ UNCHANGED <<task, mounted, born, stream>>
        /\ jobs' = More(jobs, Job("yaml", mounted, a)) /\ runs' = runs + 1 /\ runs < MaxRuns
    BY <1>4 DEF ExecuteInstall
  <2>3. runs \in Int /\ runs' \in 0..MaxRuns /\ "yaml" \in Waits /\ "yaml" \in Claiming
    BY <2>2, ConstantsOK DEF Waits, Claiming
  <2>. HIDE DEF pg, a
  <2>4. BagOfJobs(jobs') /\ Fits(jobs', stream, runs') /\ \A n : Analysing(jobs, n) => Analysing(jobs', n)
    BY <2>1, <2>2, <2>3, JobAdded
  <2>. QED  BY <2>1, <2>2, <2>3, <2>4, OneCallback
<1>5. CASE StayInStore
  <2>. DEFINE pg == [Pg EXCEPT !.phase = "idle"]
  <2>1. pg \in PageRec /\ pg.active = page[mounted].active /\ pg.timer = page[mounted].timer /\ pg.analysing = Pg.analysing
    BY DEF PageRec, PagePhase, Pg
  <2>2. PageBecomes(mounted, pg, tile) /\ UNCHANGED <<task, mounted, born, stream, jobs, runs>>
    BY <1>5 DEF StayInStore
  <2>. HIDE DEF pg
  <2>. QED  BY <2>1, <2>2, OneCallback
<1>6. ASSUME NEW a \in Apps, RequestInstall(a) PROVE StoreInv'
  <2>. DEFINE pg == [Pg EXCEPT !.phase = "confirm", !.pending = a, !.analysing = TRUE, !.ports = "none"]
  <2>1. pg \in PageRec /\ pg.active = Pg.active /\ pg.timer = Pg.timer
    BY DEF PageRec, PagePhase, PortChoices, MaybeApp
  <2>2. CheckGoes("analyse", pg) /\ UNCHANGED <<task, mounted, born, stream, runs>>
    BY <1>6 DEF RequestInstall
  <2>. HIDE DEF pg
  <2>. QED  BY <2>1, <2>2, InvCheckGoes
<1>7. ASSUME NEW a \in Apps, HandleUpdate(a) PROVE StoreInv'
  <2>. DEFINE pg == [Pg EXCEPT !.phase = "installing", !.app = a, !.project = a]
  <2>1. /\ pg \in PageRec /\ pg.active = page[mounted].active /\ pg.timer = page[mounted].timer
        /\ pg.analysing = Pg.analysing /\ a \in MaybeApp
    BY DEF PageRec, PagePhase, InFlight, MaybeApp, Pg
  <2>2. /\ PageBecomes(mounted, pg, tile) /\ UNCHANGED <<task, mounted, born, stream>>
        /\ jobs' = More(jobs, Job("update", mounted, a)) /\ runs' = runs + 1 /\ runs < MaxRuns
    BY <1>7 DEF HandleUpdate
  <2>3. runs \in Int /\ runs' \in 0..MaxRuns /\ "update" \in Waits /\ "update" \in Claiming
    BY <2>2, ConstantsOK DEF Waits, Claiming
  <2>. HIDE DEF pg
  <2>4. BagOfJobs(jobs') /\ Fits(jobs', stream, runs') /\ \A n : Analysing(jobs, n) => Analysing(jobs', n)
    BY <2>1, <2>2, <2>3, JobAdded
  <2>. QED  BY <2>1, <2>2, <2>3, <2>4, OneCallback
<1>. QED  BY <1>1, <1>2, <1>3, <1>4, <1>5, <1>6, <1>7

(* Streams that are closed or disarmed on behalf of one mount, and only     *)
(* those: no new one is named, and the others' go on.                       *)
Quieted(new, m) ==
    /\ new \in [Streams -> StreamRec]
    /\ \A i \in Streams :
          /\ new[i] # NoStream => stream[i] # NoStream
          /\ (stream[i].open \/ stream[i].armed) /\ stream[i].mount # m => new[i] = stream[i]

LEMMA TidyQuiets ==
  ASSUME stream \in [Streams -> StreamRec], NEW m, NEW new, Quieted(new, m)
  PROVE  Quieted(Tidy(new), m)
<1>1. NoStream \in StreamRec
  BY ConstantsOK DEF NoStream, StreamRec, Mounts, MaybeApp
<1>2. \A i \in Streams : Tidy(new)[i] = new[i] \/ Tidy(new)[i] = NoStream
  BY DEF Tidy
<1>3. \A i \in Streams : new[i].open \/ new[i].armed => Tidy(new)[i] = new[i]
  BY DEF Tidy
<1>4. Tidy(new) \in [Streams -> StreamRec]
  BY <1>1 DEF Quieted, Tidy
<1>5. \A i \in Streams : Tidy(new)[i] # NoStream => stream[i] # NoStream
  BY <1>2 DEF Quieted
<1>6. \A i \in Streams : (stream[i].open \/ stream[i].armed) /\ stream[i].mount # m => Tidy(new)[i] = stream[i]
  BY <1>3 DEF Quieted
<1>. QED  BY <1>4, <1>5, <1>6 DEF Quieted

LEMMA StreamSet ==
  ASSUME NEW st \in [Streams -> StreamRec], NEW i \in Streams
  PROVE  /\ [st EXCEPT ![i].open = FALSE] \in [Streams -> StreamRec]
         /\ [st EXCEPT ![i].armed = FALSE] \in [Streams -> StreamRec]
         /\ \A k \in Streams : k # i => /\ [st EXCEPT ![i].open = FALSE][k] = st[k]
                                       /\ [st EXCEPT ![i].armed = FALSE][k] = st[k]
BY DEF StreamRec

LEMMA DisarmQuiets ==
  ASSUME StoreInv, NEW m \in Mounts, NEW st, Quieted(st, m)
  PROVE  Quieted(Disarmed(st, page[m]), m)
<1>. DEFINE t == page[m].timer
<1>1. /\ t \in 0..MaxRuns
      /\ t # 0 => t \in Streams /\ stream[t].mount = m /\ stream[t].armed
  BY InvTypes, ConstantsOK DEF PageRec, StoreInv, TimerIsArmed, Streams
<1>2. CASE t = 0
  BY <1>2 DEF Disarmed
<1>3. CASE t # 0
  <2>. DEFINE new == [st EXCEPT ![t].armed = FALSE]
  <2>1. Disarmed(st, page[m]) = new
    BY <1>3 DEF Disarmed
  <2>2. new \in [Streams -> StreamRec] /\ \A k \in Streams : k # t => new[k] = st[k]
    BY <1>1, <1>3, StreamSet DEF Quieted
  <2>3. stream[t] # NoStream /\ stream[t].mount = m
    BY <1>1, <1>3 DEF NoStream
  <2>. HIDE DEF new, t
  <2>. QED  BY <2>1, <2>2, <2>3 DEF Quieted
<1>. QED  BY <1>2, <1>3

LEMMA ShutQuiets ==
  ASSUME NEW m, NEW st, Quieted(st, m), NEW i \in Streams, stream[i].open, stream[i].mount = m
  PROVE  Quieted([st EXCEPT ![i].open = FALSE], m)
<1>. DEFINE new == [st EXCEPT ![i].open = FALSE]
<1>1. new \in [Streams -> StreamRec] /\ \A k \in Streams : k # i => new[k] = st[k]
  BY StreamSet DEF Quieted
<1>2. stream[i] # NoStream
  BY DEF NoStream
<1>. HIDE DEF new
<1>3. Quieted(new, m)
  BY <1>1, <1>2 DEF Quieted
<1>. QED  BY <1>3 DEF new

(* Closing, then disarming, as the end of a stream does; and the reverse,   *)
(* as the overlay's closing does.                                           *)
LEMMA EndQuiets ==
  ASSUME StoreInv, NEW i \in Streams, stream[i].open
  PROVE  Quieted(Tidy(Disarmed([stream EXCEPT ![i].open = FALSE], page[stream[i].mount])), stream[i].mount)
<1>1. stream \in [Streams -> StreamRec] /\ stream[i].mount \in Mounts
  BY InvTypes DEF StreamRec
<1>2. Quieted(stream, stream[i].mount)
  BY <1>1 DEF Quieted
<1>3. Quieted([stream EXCEPT ![i].open = FALSE], stream[i].mount)
  BY <1>2, ShutQuiets
<1>. QED  BY <1>1, <1>3, DisarmQuiets, TidyQuiets

LEMMA CloseQuiets ==
  ASSUME StoreInv, NEW m \in Mounts
  PROVE  Quieted(Tidy(ClosedStreams(page[m])), m)
<1>. DEFINE a == page[m].active
            st == Disarmed(stream, page[m])
<1>1. stream \in [Streams -> StreamRec] /\ (a # 0 => a \in Streams /\ stream[a].mount = m /\ stream[a].open)
  BY InvTypes, ConstantsOK DEF PageRec, StoreInv, ActiveIsGuarded, Streams
<1>2. Quieted(stream, m)
  BY <1>1 DEF Quieted
<1>3. Quieted(st, m)
  BY <1>2, DisarmQuiets
<1>4. CASE a = 0
  BY <1>1, <1>3, <1>4, TidyQuiets DEF ClosedStreams
<1>5. CASE a # 0
  <2>1. Quieted([st EXCEPT ![a].open = FALSE], m)
    BY <1>1, <1>3, <1>5, ShutQuiets
  <2>2. ClosedStreams(page[m]) = [st EXCEPT ![a].open = FALSE]
    BY <1>5 DEF ClosedStreams
  <2>. QED  BY <1>1, <2>1, <2>2, TidyQuiets
<1>. QED  BY <1>4, <1>5

(* A callback that ends streams of its mount and names none as active.      *)
LEMMA QuietCallback ==
  ASSUME StoreInv, NEW m \in Mounts, NEW pg \in PageRec, NEW t \in Tiles, PageBecomes(m, pg, t),
         pg.active = 0, pg.timer # 0 => stream'[pg.timer].armed /\ stream'[pg.timer].mount = m,
         Quieted(stream', m), UNCHANGED <<task, mounted, born, runs>>,
         BagOfJobs(jobs'), Fits(jobs', stream, runs), pg.analysing = page[m].analysing,
         \A n \in Mounts : Analysing(jobs, n) => Analysing(jobs', n)
  PROVE  StoreInv'
<1>. USE InvTypes
<1>1. /\ page' \in [Mounts -> PageRec] /\ tile' \in Tiles
      /\ page'[m] = pg /\ \A n \in Mounts : n # m => page'[n] = page[n]
  BY PageOf
<1>2. StoreTypeOK'
  BY <1>1 DEF StoreTypeOK, PageRec, StreamRec, Tiles, BagOfJobs, Quieted
<1>3. ASSUME NEW n \in Mounts, n # m
      PROVE  /\ page[n].active # 0 => stream'[page[n].active] = stream[page[n].active]
             /\ page[n].timer # 0 => stream'[page[n].timer] = stream[page[n].timer]
  <2>1. page[n].active \in 0..MaxRuns /\ page[n].timer \in 0..MaxRuns
    BY DEF PageRec
  <2>2. page[n].active # 0 => page[n].active \in Streams
    BY <2>1, ConstantsOK DEF Streams
  <2>3. page[n].timer # 0 => page[n].timer \in Streams
    BY <2>1, ConstantsOK DEF Streams
  <2>. QED  BY <1>3, <2>2, <2>3 DEF StoreInv, ActiveIsGuarded, TimerIsArmed, Quieted
<1>4. ActiveIsGuarded'
  BY <1>1, <1>3 DEF StoreInv, ActiveIsGuarded
<1>5. TimerIsArmed'
  BY <1>1, <1>3 DEF StoreInv, TimerIsArmed
<1>6. AnalysisEnds'
  <2>1. \A n \in Mounts : page'[n].analysing = page[n].analysing
    BY <1>1
  <2>. QED  BY <2>1 DEF StoreInv, AnalysisEnds, Analysing
<1>7. AwayIsQuiet'
  BY <1>1 DEF StoreInv, AwayIsQuiet
<1>8. Busy(stream') \subseteq Busy(stream) /\ runs \in Int
  BY ConstantsOK DEF Busy, Quieted
<1>9. Fits(jobs', stream', runs)
  BY <1>8, FitsStreams
<1>10. BagOfJobs(jobs)' /\ Fits(jobs, stream, runs)'
  BY <1>9
<1>. QED  BY <1>2, <1>4, <1>5, <1>6, <1>7, <1>10 DEF StoreInv

(* The page after its timer, or that of stream i, has fired.                *)
TimedOut(pg, i) == [pg EXCEPT !.active = 0, !.phase = "timeout", !.timer = IF @ = i THEN 0 ELSE @]
Reopened(pg) == [Closed(pg) EXCEPT !.pending = pg.app]
NamesNone(q, p) == q \in PageRec /\ q.active = 0 /\ q.timer = 0 /\ q.analysing = p.analysing

LEMMA PageEnds ==
  ASSUME NEW p \in PageRec
  PROVE  NamesNone(Ended(p), p) /\ NamesNone(Closed(p), p) /\ NamesNone(Reopened(p), p)
<1>1. 0 \in 0..MaxRuns /\ NoApp \in MaybeApp /\ "idle" \in PagePhase
  BY ConstantsOK DEF MaybeApp, PagePhase
<1>2. ASSUME NEW x \in PageRec PROVE [x EXCEPT !.active = 0] \in PageRec /\ [x EXCEPT !.timer = 0] \in PageRec
  BY <1>1 DEF PageRec
<1>3. ASSUME NEW x \in PageRec, NEW c \in MaybeApp
      PROVE  [x EXCEPT !.app = c] \in PageRec /\ [x EXCEPT !.project = c] \in PageRec /\ [x EXCEPT !.pending = c] \in PageRec
  BY DEF PageRec
<1>4. ASSUME NEW x \in PageRec, NEW ph \in PagePhase PROVE [x EXCEPT !.phase = ph] \in PageRec
  BY DEF PageRec
<1>5. Ended(p) \in PageRec
  BY <1>2 DEF Ended
<1>6. Closed(p) \in PageRec
  BY <1>1, <1>2, <1>3, <1>4 DEF Closed
<1>7. p.app \in MaybeApp
  BY DEF PageRec
<1>8. Reopened(p) \in PageRec
  BY <1>3, <1>6, <1>7 DEF Reopened
<1>. QED  BY <1>5, <1>6, <1>8 DEF PageRec, Ended, Closed, Reopened, NamesNone

LEMMA PageTimesOut ==
  ASSUME NEW p \in PageRec, NEW i
  PROVE  /\ TimedOut(p, i) \in PageRec /\ TimedOut(p, i).active = 0 /\ TimedOut(p, i).analysing = p.analysing
         /\ TimedOut(p, i).timer = 0 \/ (TimedOut(p, i).timer = p.timer /\ p.timer # i)
<1>1. 0 \in 0..MaxRuns /\ "timeout" \in PagePhase
  BY ConstantsOK DEF PagePhase, Terminal
<1>2. CASE p.timer = i
  BY <1>1, <1>2 DEF PageRec, TimedOut
<1>3. CASE p.timer # i
  BY <1>1, <1>3 DEF PageRec, TimedOut
<1>. QED  BY <1>2, <1>3

LEMMA InvStreamEnds ==
  ASSUME StoreInv, NEW i \in Streams, StreamFinishes(i) \/ StreamFails(i)
  PROVE  StoreInv'
<1>. USE InvTypes
<1>. DEFINE m == stream[i].mount
            a == stream[i].app
            pg == Ended(page[m])
<1>1. m \in Mounts /\ a \in MaybeApp /\ page[m] \in PageRec /\ runs \in Int
  BY ConstantsOK DEF StreamRec
<1>2. pg \in PageRec /\ pg.active = 0 /\ pg.timer = 0 /\ pg.analysing = page[m].analysing
  BY <1>1, PageEnds DEF NamesNone
<1>3. /\ stream[i].open /\ PageBecomes(m, pg, tile) /\ UNCHANGED <<task, mounted, born, runs>>
      /\ stream' = Tidy(Disarmed([stream EXCEPT ![i].open = FALSE], page[m]))
      /\ \E w \in {"fetch", "retry"} : jobs' = More(jobs, Job(w, m, a))
  BY DEF StreamFinishes, StreamFails
<1>4. Quieted(stream', m)
  BY <1>3, EndQuiets
<1>5. PICK w \in {"fetch", "retry"} : jobs' = More(jobs, Job(w, m, a))
  BY <1>3
<1>6. w \in Waits /\ w \notin Claiming
  BY DEF Waits, Claiming
<1>. HIDE DEF pg, m, a
<1>7. BagOfJobs(jobs') /\ Fits(jobs', stream, runs) /\ \A n : Analysing(jobs, n) => Analysing(jobs', n)
  BY <1>1, <1>5, <1>6, JobAdded
<1>. QED  BY <1>1, <1>2, <1>3, <1>4, <1>7, QuietCallback

LEMMA InvTimesOut ==
  ASSUME StoreInv, NEW i \in Streams, StreamTimesOut(i)
  PROVE  StoreInv'
<1>. USE InvTypes
<1>. DEFINE m == stream[i].mount
            pg == TimedOut(page[m], i)
<1>1. m \in Mounts /\ page[m] \in PageRec /\ NoStream \in StreamRec
  BY ConstantsOK DEF StreamRec, NoStream, Mounts, MaybeApp
<1>2. /\ pg \in PageRec /\ pg.active = 0 /\ pg.analysing = page[m].analysing
      /\ pg.timer = 0 \/ (pg.timer = page[m].timer /\ pg.timer # i)
  BY <1>1, PageTimesOut
<1>3. /\ stream[i].armed /\ PageBecomes(m, pg, tile) /\ UNCHANGED <<task, mounted, born, jobs, runs>>
      /\ stream' = [stream EXCEPT ![i] = NoStream]
  BY DEF StreamTimesOut, TimedOut
<1>. HIDE DEF pg
<1>4. Quieted(stream', m)
  BY <1>1, <1>3 DEF Quieted
<1>5. pg.timer # 0 => stream'[pg.timer].armed /\ stream'[pg.timer].mount = m
  <2>1. pg.timer # 0 => pg.timer \in Streams
    BY <1>2, ConstantsOK DEF PageRec, Streams
  <2>. QED  BY <1>1, <1>2, <1>3, <2>1 DEF StoreInv, TimerIsArmed
<1>. HIDE DEF m
<1>. QED  BY <1>1, <1>2, <1>3, <1>4, <1>5, QuietCallback

LEMMA InvCloses ==
  ASSUME StoreInv, CloseOverlay \/ Retry
  PROVE  StoreInv'
<1>. USE InvTypes
<1>0. mounted # 0
  BY DEF CloseOverlay, Retry
<1>1. /\ mounted \in Mounts /\ Pg \in PageRec /\ Pg = page[mounted] /\ runs \in Int
      /\ "reconfirm" \in Waits /\ "reconfirm" \notin Claiming /\ NoApp \in MaybeApp
  BY <1>0, OnScreen, ConstantsOK DEF Pg, Waits, Claiming, MaybeApp
<1>2. ASSUME NEW pg, pg \in {Closed(Pg), Reopened(Pg)}
      PROVE  pg \in PageRec /\ pg.active = 0 /\ pg.timer = 0 /\ pg.analysing = page[mounted].analysing
  BY <1>1, <1>2, PageEnds DEF NamesNone
<1>3. Quieted(Tidy(ClosedStreams(Pg)), mounted)
  BY <1>1, CloseQuiets
<1>4. CASE CloseOverlay
  <2>1. /\ stream' = Tidy(ClosedStreams(Pg)) /\ PageBecomes(mounted, Closed(Pg), tile)
        /\ UNCHANGED <<task, mounted, born, jobs, runs>>
    BY <1>4 DEF CloseOverlay
  <2>. QED  BY <1>1, <1>2, <1>3, <2>1, QuietCallback
<1>5. CASE Retry
  <2>. DEFINE pg == Reopened(Pg)
  <2>1. /\ stream' = Tidy(ClosedStreams(Pg)) /\ PageBecomes(mounted, pg, tile)
        /\ jobs' = More(jobs, Job("reconfirm", mounted, NoApp))
        /\ UNCHANGED <<task, mounted, born, runs>>
    BY <1>5 DEF Retry, Reopened
  <2>2. BagOfJobs(jobs') /\ Fits(jobs', stream, runs) /\ \A n : Analysing(jobs, n) => Analysing(jobs', n)
    BY <1>1, <2>1, JobAdded
  <2>3. pg \in PageRec /\ pg.active = 0 /\ pg.timer = 0 /\ pg.analysing = page[mounted].analysing
    BY <1>2
  <2>. HIDE DEF pg
  <2>. QED  BY <1>1, <1>3, <2>1, <2>2, <2>3, QuietCallback
<1>. QED  BY <1>4, <1>5

(* The answer to a request takes one of the streams left for its claim.     *)
LEMMA SlotIsFree ==
  ASSUME StoreInv, NEW j \in BagToSet(jobs), j.wait \in Claiming
  PROVE  Slot \in Streams /\ stream[Slot] = NoStream
<1>1. Fits(Less(jobs, j), stream, runs - 1) /\ runs \in 0..MaxRuns
  BY JobTaken, InvTypes
<1>2. Cardinality(Busy(stream)) < MaxRuns
  BY <1>1, BusyIsFinite, FS_CardinalityType, ConstantsOK DEF Fits
<1>3. Cardinality(Streams) = MaxRuns
  BY FS_Interval, ConstantsOK DEF Streams
<1>4. Busy(stream) # Streams
  BY <1>2, <1>3, ConstantsOK
<1>5. \E i \in Streams : stream[i] = NoStream
  BY <1>4 DEF Busy
<1>. QED  BY <1>5 DEF Slot

LEMMA InvAccepted ==
  ASSUME StoreInv, NEW j \in BagToSet(jobs), RequestAccepted(j)
  PROVE  StoreInv'
<1>. USE InvTypes
<1>. DEFINE m == j.mount
            pg == page[m]
            a == IF j.wait = "post" THEN pg.project ELSE j.app
            t == IF j.wait = "post" THEN UpdateTile(tile, a, "starting") ELSE tile
            s == Slot
            st == [mount |-> m, app |-> a, open |-> TRUE, armed |-> TRUE]
            new == Streaming(pg)
<1>1. /\ m \in Mounts /\ pg \in PageRec /\ j.wait \in Claiming /\ runs \in Int
      /\ j.wait \notin {"analyse", "seed"}
  BY JobTaken, ConstantsOK DEF RequestAccepted, Claiming
<1>2. a \in MaybeApp
  BY <1>1, JobTaken DEF PageRec
<1>3. t \in Tiles
  BY TilesTold DEF InFlight
<1>4. s \in Streams /\ stream[s] = NoStream
  BY <1>1, SlotIsFree
<1>5. st \in StreamRec
  BY <1>1, <1>2 DEF StreamRec
<1>6. s \in 0..MaxRuns /\ s # 0
  BY <1>4, ConstantsOK DEF Streams
<1>7. new \in PageRec /\ new.active = s /\ new.timer = s /\ new.analysing = pg.analysing
  BY <1>1, <1>6 DEF Streaming, PageRec, PagePhase, InFlight
<1>8. /\ task' = [task EXCEPT ![j.app] = IF @ = "none" THEN "open" ELSE @]
      /\ stream' = [stream EXCEPT ![s] = st]
      /\ PageBecomes(m, new, t) /\ jobs' = Less(jobs, j) /\ UNCHANGED <<mounted, born, runs>>
  BY DEF RequestAccepted, OpenStream
<1>9. stream' \in [Streams -> StreamRec] /\ stream'[s] = st /\ \A k \in Streams : k # s => stream'[k] = stream[k]
  BY <1>4, <1>5, <1>8
<1>10. st.open /\ st.armed /\ st.mount = m /\ st # NoStream
  BY DEF NoStream
<1>. HIDE DEF new, st, s, t, a, pg
<1>11. /\ page' \in [Mounts -> PageRec] /\ tile' \in Tiles
       /\ page'[m] = new /\ \A n \in Mounts : n # m => page'[n] = page[n]
  BY <1>1, <1>3, <1>7, <1>8, PageOf
<1>. HIDE DEF m
<1>12. ASSUME NEW n \in Mounts, n # m
       PROVE  /\ page[n].active # 0 => page[n].active \in Streams /\ page[n].active # s
              /\ page[n].timer # 0 => page[n].timer \in Streams /\ page[n].timer # s
  <2>1. page[n].active \in 0..MaxRuns /\ page[n].timer \in 0..MaxRuns
    BY DEF PageRec
  <2>2. NoStream.open = FALSE /\ NoStream.armed = FALSE
    BY DEF NoStream
  <2>3. (page[n].active # 0 => stream[page[n].active].open) /\ (page[n].timer # 0 => stream[page[n].timer].armed)
    BY DEF StoreInv, ActiveIsGuarded, TimerIsArmed
  <2>. QED  BY <1>4, <2>1, <2>2, <2>3, ConstantsOK DEF Streams
<1>13. ActiveIsGuarded'
  BY <1>7, <1>9, <1>10, <1>11, <1>12 DEF StoreInv, ActiveIsGuarded
<1>14. TimerIsArmed'
  BY <1>7, <1>9, <1>10, <1>11, <1>12 DEF StoreInv, TimerIsArmed
<1>15. AnalysisEnds'
  <2>1. \A n \in Mounts : page'[n].analysing = page[n].analysing
    BY <1>7, <1>11 DEF pg
  <2>2. \A n : Analysing(jobs, n) => Analysing(jobs', n)
    BY <1>1, <1>8, JobTaken
  <2>. QED  BY <2>1, <2>2 DEF StoreInv, AnalysisEnds, Analysing
<1>16. AwayIsQuiet'
  BY <1>7, <1>8, <1>11 DEF StoreInv, AwayIsQuiet, pg
<1>17. BagOfJobs(jobs') /\ Fits(jobs', stream, runs - 1)
  BY <1>1, <1>8, JobTaken
<1>18. Fits(jobs', stream', runs)
  <2>1. Busy(stream') = Busy(stream) \cup {s} /\ s \notin Busy(stream)
    BY <1>4, <1>9, <1>10 DEF Busy
  <2>2. Cardinality(Busy(stream')) = Cardinality(Busy(stream)) + 1
    BY <2>1, BusyIsFinite, FS_AddElement
  <2>. QED  BY <1>1, <1>17, <2>2, BusyIsFinite, FS_CardinalityType DEF Fits
<1>19. StoreTypeOK'
  <2>1. task' \in [Apps -> {"none", "open", "done"}]
    BY <1>8
  <2>. QED  BY <2>1, <1>8, <1>9, <1>11, <1>17 DEF StoreTypeOK, PageRec, StreamRec, Tiles, BagOfJobs
<1>20. BagOfJobs(jobs)' /\ Fits(jobs, stream, runs)'
  BY <1>8, <1>17, <1>18
<1>. QED  BY <1>13, <1>14, <1>15, <1>16, <1>19, <1>20 DEF StoreInv

LEMMA InvComesAndGoes ==
  ASSUME StoreInv, LeavePage \/ EnterPage \/ \E a \in Apps : ServerFinishes(a)
  PROVE  StoreInv'
<1>. USE InvTypes
<1>1. CASE LeavePage
  <2>0. mounted \in Mounts /\ mounted' = 0 /\ 0 \notin Mounts /\ UNCHANGED <<task, born, tile, stream, runs>>
    BY <1>1, OnScreen, ConstantsOK DEF LeavePage, Mounts
  <2>. DEFINE pg == [Pg EXCEPT !.pending = NoApp, !.app = NoApp, !.analysing = FALSE, !.ports = "none"]
  <2>1. /\ pg \in PageRec /\ pg.active = Pg.active /\ pg.timer = Pg.timer /\ pg.analysing = FALSE
    BY <1>1, OnScreen DEF LeavePage, PageRec, MaybeApp, PortChoices
  <2>2. page' = [page EXCEPT ![mounted] = pg]
    BY <1>1 DEF LeavePage, Pg
  <2>. HIDE DEF pg
  <2>3. /\ page' \in [Mounts -> PageRec] /\ page'[mounted] = pg
        /\ \A n \in Mounts : n # mounted => page'[n] = page[n]
    BY <2>0, <2>1, <2>2
  <2>4. BagOfJobs(jobs') /\ \A k \in Jobs : k.wait \in Claiming => Copies(jobs', k) = Copies(jobs, k)
    BY <1>1 DEF LeavePage, BagOfJobs, IsABag, BagToSet, Copies, Claiming, Checks
  <2>5. Claims(jobs') = Claims(jobs)
    BY <2>4 DEF Claims
  <2>6. Fits(jobs', stream', runs')
    BY <2>0, <2>5 DEF Fits
  <2>7. StoreTypeOK'
    BY <2>0, <2>3, <2>4, ConstantsOK DEF StoreTypeOK, PageRec, StreamRec, Tiles, BagOfJobs
  <2>8. ActiveIsGuarded' /\ TimerIsArmed'
    BY <2>0, <2>1, <2>3 DEF StoreInv, ActiveIsGuarded, TimerIsArmed, Pg
  <2>9. \A n \in Mounts : ~page'[n].analysing
    BY <2>0, <2>1, <2>3 DEF StoreInv, AwayIsQuiet
  <2>10. AnalysisEnds' /\ AwayIsQuiet'
    BY <2>9 DEF AnalysisEnds, AwayIsQuiet
  <2>11. BagOfJobs(jobs)' /\ Fits(jobs, stream, runs)'
    BY <2>4, <2>6
  <2>. QED  BY <2>7, <2>8, <2>10, <2>11 DEF StoreInv
<1>2. CASE EnterPage
  <2>1. /\ mounted = 0 /\ mounted' = born + 1 /\ born' = born + 1 /\ born < MaxMounts
        /\ UNCHANGED <<task, page, tile, stream, jobs, runs>>
    BY <1>2 DEF EnterPage
  <2>2. mounted' \in 0..MaxMounts /\ born' \in Mounts
    BY <2>1, ConstantsOK DEF Mounts
  <2>3. StoreTypeOK'
    BY <2>1, <2>2 DEF StoreTypeOK, PageRec, StreamRec, Tiles, BagOfJobs
  <2>4. \A n \in Mounts : ~page[n].analysing
    BY <2>1, ConstantsOK DEF StoreInv, AwayIsQuiet, Mounts
  <2>5. AnalysisEnds' /\ AwayIsQuiet'
    BY <2>1, <2>4 DEF AnalysisEnds, AwayIsQuiet
  <2>6. ActiveIsGuarded' /\ TimerIsArmed'
    BY <2>1 DEF StoreInv, ActiveIsGuarded, TimerIsArmed
  <2>7. BagOfJobs(jobs)' /\ Fits(jobs, stream, runs)'
    BY <2>1
  <2>. QED  BY <2>3, <2>5, <2>6, <2>7 DEF StoreInv
<1>3. ASSUME NEW a \in Apps, ServerFinishes(a) PROVE StoreInv'
  <2>1. task' = [task EXCEPT ![a] = "done"] /\ UNCHANGED <<page, mounted, born, tile, stream, jobs, runs>>
    BY <1>3 DEF ServerFinishes
  <2>2. StoreTypeOK'
    BY <2>1 DEF StoreTypeOK, PageRec, StreamRec, Tiles, BagOfJobs
  <2>3. ActiveIsGuarded' /\ TimerIsArmed' /\ AnalysisEnds' /\ AwayIsQuiet'
    BY <2>1 DEF StoreInv, ActiveIsGuarded, TimerIsArmed, AnalysisEnds, AwayIsQuiet
  <2>4. BagOfJobs(jobs)' /\ Fits(jobs, stream, runs)'
    BY <2>1
  <2>. QED  BY <2>2, <2>3, <2>4 DEF StoreInv
<1>. QED  BY <1>1, <1>2, <1>3

(* A continuation that leaves the streams alone: it ends, or waits for one  *)
(* more thing.                                                              *)
Checking == {"analyse", "seed"}
StillChecks(pg, j) == pg.analysing => page[j.mount].analysing /\ j.wait \notin Checking
GoesOn(w, a, pg, j) ==
    /\ jobs' = More(Less(jobs, j), Job(w, j.mount, a))
    /\ w \in Claiming => j.wait \in Claiming
    /\ StillChecks(pg, j) \/ (w = "seed" /\ (pg.analysing => page[j.mount].analysing))

LEMMA JobCallback ==
  ASSUME StoreInv, NEW j \in BagToSet(jobs), NEW pg \in PageRec, NEW t \in Tiles, PageBecomes(j.mount, pg, t),
         pg.active = page[j.mount].active, pg.timer = page[j.mount].timer,
         UNCHANGED <<task, mounted, born, stream, runs>>,
         \/ jobs' = Less(jobs, j) /\ StillChecks(pg, j)
         \/ \E w \in Waits, a \in MaybeApp : GoesOn(w, a, pg, j)
  PROVE  StoreInv'
<1>. USE InvTypes
<1>. DEFINE m == j.mount
<1>1. m \in Mounts /\ runs \in Int /\ runs' \in 0..MaxRuns /\ runs' = runs
  BY JobTaken, ConstantsOK
<1>2. /\ BagOfJobs(Less(jobs, j))
      /\ Fits(Less(jobs, j), stream, IF j.wait \in Claiming THEN runs - 1 ELSE runs)
      /\ \A n : n # m \/ j.wait \notin Checking => (Analysing(jobs, n) => Analysing(Less(jobs, j), n))
  BY JobTaken DEF Checking
<1>3. page[m].analysing => m = mounted /\ Analysing(jobs, m)
  BY <1>1, PageIsQuiet
<1>4. CASE jobs' = Less(jobs, j) /\ StillChecks(pg, j)
  <2>1. Fits(jobs', stream, runs')
    BY <1>1, <1>2, <1>4, BusyIsFinite, FS_CardinalityType DEF Fits
  <2>2. pg.analysing => m = mounted /\ Analysing(jobs', m)
    BY <1>2, <1>3, <1>4 DEF StillChecks
  <2>. HIDE DEF m
  <2>. QED  BY <1>1, <1>2, <1>4, <2>1, <2>2, OneCallback DEF m
<1>5. ASSUME NEW w \in Waits, NEW a \in MaybeApp, GoesOn(w, a, pg, j)
      PROVE  StoreInv'
  <2>1. jobs' = More(Less(jobs, j), Job(w, m, a))
    BY <1>5 DEF GoesOn
  <2>2. /\ BagOfJobs(jobs')
        /\ \A n : Analysing(Less(jobs, j), n) => Analysing(jobs', n)
        /\ w \in Checking => Analysing(jobs', m)
        /\ \A n \in Int : Fits(Less(jobs, j), stream, n) => Fits(jobs', stream, IF w \in Claiming THEN n + 1 ELSE n)
    BY <1>1, <1>2, <2>1, JobAdded DEF Checking
  <2>3. Fits(jobs', stream, runs')
    <3>1. CASE j.wait \in Claiming
      <4>1. Fits(jobs', stream, IF w \in Claiming THEN runs - 1 + 1 ELSE runs - 1)
        BY <1>1, <1>2, <2>2, <3>1
      <4>. QED  BY <1>1, <4>1, BusyIsFinite, FS_CardinalityType DEF Fits
    <3>2. CASE j.wait \notin Claiming
      <4>1. w \notin Claiming
        BY <1>5, <3>2 DEF GoesOn
      <4>. QED  BY <1>1, <1>2, <2>2, <3>2, <4>1
    <3>. QED  BY <3>1, <3>2
  <2>4. pg.analysing => m = mounted /\ Analysing(jobs', m)
    BY <1>2, <1>3, <1>5, <2>2 DEF GoesOn, StillChecks, Checking
  <2>5. \A n \in Mounts : n # m /\ Analysing(jobs, n) => Analysing(jobs', n)
    BY <1>2, <2>2
  <2>. HIDE DEF m
  <2>. QED  BY <1>1, <2>2, <2>3, <2>4, <2>5, OneCallback DEF m
<1>. QED  BY <1>4, <1>5

(* The pages a continuation may leave: with the same streams, checking or   *)
(* not.                                                                     *)
Like(q, p, checking) ==
    q \in PageRec /\ q.active = p.active /\ q.timer = p.timer /\ q.analysing = checking

LEMMA PageAnswers ==
  ASSUME NEW p \in PageRec, NEW a \in MaybeApp, NEW ph \in PagePhase, NEW v \in PortChoices
  PROVE  /\ Like(p, p, p.analysing) /\ Like([p EXCEPT !.project = a], p, p.analysing)
         /\ Like([p EXCEPT !.phase = ph], p, p.analysing) /\ Like([p EXCEPT !.ports = v], p, p.analysing)
         /\ \A q \in Judged(p) : Like(q, p, p.analysing)
         /\ Like(Analysed(p), p, FALSE) /\ \A q \in Judged(Analysed(p)) : Like(q, p, FALSE)
<1>1. {"none", "free", "taken"} \subseteq PortChoices
  BY DEF PortChoices
<1>2. \A x \in PageRec : [x EXCEPT !.analysing = FALSE] \in PageRec
  BY DEF PageRec
<1>3. \A x \in PageRec : \A u \in PortChoices : [x EXCEPT !.ports = u] \in PageRec
  BY DEF PageRec
<1>4. \A x \in PageRec : Judged(x) \subseteq {[x EXCEPT !.ports = u] : u \in PortChoices}
  BY <1>1 DEF Judged
<1>5. [p EXCEPT !.project = a] \in PageRec /\ [p EXCEPT !.phase = ph] \in PageRec
  BY DEF PageRec
<1>6. Analysed(p) \in PageRec /\ Analysed(p).active = p.active /\ Analysed(p).timer = p.timer /\ Analysed(p).analysing = FALSE
  BY <1>2 DEF Analysed, PageRec
<1>7. \A x \in PageRec : \A q \in Judged(x) :
        q \in PageRec /\ q.active = x.active /\ q.timer = x.timer /\ q.analysing = x.analysing
  BY <1>3, <1>4 DEF PageRec
<1>8. /\ [p EXCEPT !.project = a].active = p.active /\ [p EXCEPT !.project = a].timer = p.timer
      /\ [p EXCEPT !.project = a].analysing = p.analysing
      /\ [p EXCEPT !.phase = ph].active = p.active /\ [p EXCEPT !.phase = ph].timer = p.timer
      /\ [p EXCEPT !.phase = ph].analysing = p.analysing
      /\ [p EXCEPT !.ports = v].active = p.active /\ [p EXCEPT !.ports = v].timer = p.timer
      /\ [p EXCEPT !.ports = v].analysing = p.analysing
  BY DEF PageRec
<1>. QED  BY <1>3, <1>5, <1>6, <1>7, <1>8 DEF Like

LEMMA InvContinue ==
  ASSUME StoreInv, NEW j \in BagToSet(jobs), Continue(j)
  PROVE  StoreInv'
<1>. DEFINE m == j.mount
            pg == page[m]
<1>1. /\ m \in Mounts /\ pg \in PageRec /\ j.app \in MaybeApp /\ tile \in Tiles
      /\ NoApp \in MaybeApp /\ pg.project \in MaybeApp
      /\ "checking" \in PortChoices /\ {"error", "success", "confirm"} \subseteq PagePhase
      /\ {"none", "taken"} \subseteq PortChoices /\ pg.ports \in PortChoices
      /\ {"post", "fetch", "finish", "seed", "validate"} \subseteq Waits
      /\ {"fetch", "finish", "seed", "validate"} \cap Claiming = {}
  BY JobTaken, InvTypes DEF MaybeApp, PortChoices, PagePhase, Terminal, Waits, Checks, Claiming, PageRec
<1>. USE <1>1
<1>2. CASE YamlAnswered(j)
  <2>. DEFINE q == [pg EXCEPT !.project = j.app]
  <2>1. Like(q, pg, pg.analysing)
    BY PageAnswers
  <2>2. StartTile(tile, j.app) \in Tiles
    BY DEF StartTile, Tiles, InFlight
  <2>3. /\ j.wait = "yaml" /\ PageBecomes(m, q, StartTile(tile, j.app))
        /\ jobs' = More(Less(jobs, j), Job("post", m, j.app))
        /\ UNCHANGED <<task, mounted, born, stream, runs>>
    BY <1>2 DEF YamlAnswered
  <2>. HIDE DEF q
  <2>4. GoesOn("post", j.app, q, j)
    BY <2>1, <2>3 DEF GoesOn, StillChecks, Claiming, Checking, Like
  <2>. QED  BY <2>1, <2>2, <2>3, <2>4, JobCallback DEF Like
<1>3. CASE RequestFails(j)
  <2>. DEFINE q == [pg EXCEPT !.phase = "error"]
              t == IF j.wait = "update" THEN tile ELSE UpdateTile(tile, pg.project, "error")
  <2>1. Like(q, pg, pg.analysing)
    BY PageAnswers
  <2>2. t \in Tiles
    BY TilesTold DEF Terminal
  <2>3. /\ j.wait \in {"yaml", "post", "update"} /\ PageBecomes(m, q, t) /\ jobs' = Less(jobs, j)
        /\ UNCHANGED <<task, mounted, born, stream, runs>>
    BY <1>3 DEF RequestFails
  <2>. HIDE DEF q, t
  <2>4. StillChecks(q, j)
    BY <2>1, <2>3 DEF StillChecks, Checking, Like
  <2>. QED  BY <2>1, <2>2, <2>3, <2>4, JobCallback DEF Like
<1>4. CASE RequestAccepted(j)
  BY <1>4, InvAccepted
<1>5. CASE ListArrives(j)
  <2>1. PICK found \in BOOLEAN : Checked(j, found)
    BY <1>5 DEF ListArrives
  <2>. DEFINE outcome == IF found THEN "success" ELSE "error"
              q == [pg EXCEPT !.phase = outcome]
              t == UpdateTile(tile, j.app, outcome)
  <2>2. Like(q, pg, pg.analysing) /\ t \in Tiles
    BY PageAnswers, TilesTold DEF Terminal
  <2>3. /\ j.wait = "fetch" /\ PageBecomes(m, q, t) /\ UNCHANGED <<task, mounted, born, stream, runs>>
        /\ jobs' = Less(jobs, j) \/ jobs' = More(Less(jobs, j), Job("finish", m, j.app))
    BY <1>5, <2>1 DEF ListArrives, Checked
  <2>. HIDE DEF q, t
  <2>4. StillChecks(q, j) /\ (jobs' = Less(jobs, j) \/ GoesOn("finish", j.app, q, j))
    BY <2>2, <2>3 DEF StillChecks, GoesOn, Claiming, Checking, Like
  <2>. QED  BY <2>2, <2>3, <2>4, JobCallback DEF Like
<1>6. CASE TimerFires(j)
  <2>0. j.wait \in {"retry", "finish", "reconfirm"} /\ UNCHANGED <<task, mounted, born, stream, runs>>
    BY <1>6 DEF TimerFires
  <2>1. ASSUME NEW q, Like(q, pg, pg.analysing)
        PROVE  StillChecks(q, j)
    BY <2>0, <2>1 DEF StillChecks, Checking, Like
  <2>2. Like(pg, pg, pg.analysing) /\ Like([pg EXCEPT !.phase = "confirm"], pg, pg.analysing)
    BY PageAnswers
  <2>3. ASSUME NEW t \in Tiles PROVE Mirrored(t, m, pg) = t
    BY DEF Mirrored
  <2>4. page \in [Mounts -> PageRec]
    BY InvTypes
  <2>5. ASSUME page' = page, NEW t \in Tiles, tile' = t PROVE PageBecomes(m, pg, t)
    BY <2>3, <2>4, <2>5 DEF PageBecomes
  <2>6. CASE j.wait = "retry"
    <3>1. jobs' = More(Less(jobs, j), Job("fetch", m, j.app)) /\ UNCHANGED <<page, tile>>
      BY <1>6, <2>6 DEF TimerFires
    <3>2. PageBecomes(m, pg, tile) /\ GoesOn("fetch", j.app, pg, j)
      BY <2>1, <2>2, <2>5, <3>1 DEF GoesOn
    <3>. QED  BY <2>0, <3>2, JobCallback
  <2>7. CASE j.wait = "finish"
    <3>1. jobs' = Less(jobs, j) /\ tile' = FinishTile(tile, j.app) /\ UNCHANGED page
      BY <1>6, <2>7 DEF TimerFires
    <3>2. FinishTile(tile, j.app) \in Tiles
      BY DEF FinishTile, Tiles
    <3>3. PageBecomes(m, pg, FinishTile(tile, j.app)) /\ StillChecks(pg, j)
      BY <2>1, <2>2, <2>5, <3>1, <3>2
    <3>. QED  BY <2>0, <3>1, <3>2, <3>3, JobCallback
  <2>8. CASE j.wait = "reconfirm"
    <3>. DEFINE q == [pg EXCEPT !.phase = "confirm"]
    <3>1. jobs' = Less(jobs, j) /\ PageBecomes(m, q, tile)
      BY <1>6, <2>8 DEF TimerFires
    <3>2. Like(q, pg, pg.analysing) /\ StillChecks(q, j)
      BY <2>1, <2>2
    <3>. HIDE DEF q
    <3>. QED  BY <2>0, <3>1, <3>2, JobCallback DEF Like
  <2>. QED  BY <2>0, <2>6, <2>7, <2>8
<1>7. CASE AnalysisAnswered(j)
  <2>0. j.wait = "analyse" /\ UNCHANGED <<task, mounted, born, stream, runs>>
    BY <1>7 DEF AnalysisAnswered
  <2>1. CASE PageBecomes(m, Analysed(pg), tile) /\ jobs' = Less(jobs, j)
    <3>1. Like(Analysed(pg), pg, FALSE)
      BY PageAnswers
    <3>2. StillChecks(Analysed(pg), j)
      BY <3>1 DEF StillChecks, Like
    <3>. QED  BY <2>0, <2>1, <3>1, <3>2, JobCallback DEF Like
  <2>2. CASE /\ PageBecomes(m, [pg EXCEPT !.ports = "checking"], tile)
             /\ jobs' = More(Less(jobs, j), Job("seed", m, NoApp))
    <3>. DEFINE q == [pg EXCEPT !.ports = "checking"]
    <3>1. Like(q, pg, pg.analysing)
      BY PageAnswers
    <3>2. PageBecomes(m, q, tile)
      BY <2>2
    <3>. HIDE DEF q
    <3>3. GoesOn("seed", NoApp, q, j)
      BY <2>2, <3>1 DEF GoesOn, Like, Claiming
    <3>. QED  BY <2>0, <3>1, <3>2, <3>3, JobCallback DEF Like
  <2>. QED  BY <1>7, <2>1, <2>2 DEF AnalysisAnswered
<1>8. CASE ChoicesChecked(j)
  <2>0. jobs' = Less(jobs, j) /\ UNCHANGED <<task, mounted, born, stream, runs>>
    BY <1>8 DEF ChoicesChecked
  <2>1. ASSUME j.wait = "seed", NEW q \in Judged(Analysed(pg)), PageBecomes(m, q, tile) PROVE StoreInv'
    <3>1. Like(q, pg, FALSE)
      BY <2>1, PageAnswers
    <3>2. StillChecks(q, j)
      BY <3>1 DEF StillChecks, Like
    <3>. QED  BY <2>0, <2>1, <3>1, <3>2, JobCallback DEF Like
  <2>2. ASSUME j.wait = "validate", NEW q \in Judged(pg), PageBecomes(m, q, tile) PROVE StoreInv'
    <3>1. Like(q, pg, pg.analysing)
      BY <2>2, PageAnswers
    <3>2. StillChecks(q, j)
      BY <2>2, <3>1 DEF StillChecks, Like, Checking
    <3>. QED  BY <2>0, <2>2, <3>1, <3>2, JobCallback DEF Like
  <2>. QED  BY <1>8, <2>1, <2>2 DEF ChoicesChecked
<1>9. CASE DebounceFires(j)
  <2>0. j.wait = "debounce" /\ UNCHANGED <<task, mounted, born, stream, runs>>
    BY <1>9 DEF DebounceFires
  <2>1. ASSUME NEW v \in PortChoices
        PROVE  Like([pg EXCEPT !.ports = v], pg, pg.analysing) /\ StillChecks([pg EXCEPT !.ports = v], j)
    <3>1. Like([pg EXCEPT !.ports = v], pg, pg.analysing)
      BY PageAnswers
    <3>. QED  BY <2>0, <3>1 DEF StillChecks, Like, Checking
  <2>2. \/ /\ PageBecomes(m, [pg EXCEPT !.ports = "checking"], tile)
           /\ jobs' = More(Less(jobs, j), Job("validate", m, NoApp))
        \/ \E v \in PortChoices : PageBecomes(m, [pg EXCEPT !.ports = v], tile) /\ jobs' = Less(jobs, j)
    BY <1>9 DEF DebounceFires
  <2>3. PICK v \in PortChoices :
           /\ PageBecomes(m, [pg EXCEPT !.ports = v], tile)
           /\ jobs' = Less(jobs, j) \/ jobs' = More(Less(jobs, j), Job("validate", m, NoApp))
    BY <2>2
  <2>. DEFINE q == [pg EXCEPT !.ports = v]
  <2>4. PageBecomes(m, q, tile) /\ Like(q, pg, pg.analysing) /\ StillChecks(q, j)
    BY <2>1, <2>3
  <2>. HIDE DEF q
  <2>5. jobs' = Less(jobs, j) \/ GoesOn("validate", NoApp, q, j)
    BY <2>3, <2>4 DEF GoesOn
  <2>. QED  BY <2>0, <2>4, <2>5, JobCallback DEF Like
<1>10. CASE PickAnswered(j)
  <2>1. /\ j.wait = "pick" /\ jobs' = Less(jobs, j) /\ UNCHANGED <<task, mounted, born, stream, runs>>
        /\ \E q \in Judged(pg) \cup {pg} : PageBecomes(m, q, tile)
    BY <1>10 DEF PickAnswered
  <2>2. PICK q \in Judged(pg) \cup {pg} : PageBecomes(m, q, tile)
    BY <2>1
  <2>3. Like(q, pg, pg.analysing)
    BY <2>2, PageAnswers
  <2>4. StillChecks(q, j)
    BY <2>1, <2>3 DEF StillChecks, Like, Checking
  <2>. QED  BY <2>1, <2>2, <2>3, <2>4, JobCallback DEF Like
<1>. QED  BY <1>2, <1>3, <1>4, <1>5, <1>6, <1>7, <1>8, <1>9, <1>10 DEF Continue

LEMMA StoreInvNext == StoreInv /\ [StoreNext]_storeVars => StoreInv'
<1>. SUFFICES ASSUME StoreInv, [StoreNext]_storeVars PROVE StoreInv'
  OBVIOUS
<1>1. CASE User
  BY <1>1, InvConfirm, InvCloses, InvComesAndGoes DEF User
<1>2. ASSUME NEW j \in BagToSet(jobs), Continue(j) PROVE StoreInv'
  BY <1>2, InvContinue
<1>3. ASSUME NEW i \in Streams, StreamFinishes(i) \/ StreamFails(i) \/ StreamTimesOut(i) PROVE StoreInv'
  BY <1>3, InvStreamEnds, InvTimesOut
<1>4. ASSUME NEW a \in Apps, ServerFinishes(a) PROVE StoreInv'
  BY <1>4, InvComesAndGoes
<1>5. CASE UNCHANGED storeVars
  <2>1. UNCHANGED <<task, page, mounted, born, tile, stream, jobs, runs>>
    BY <1>5 DEF storeVars
  <2>2. StoreTypeOK'
    BY <2>1 DEF StoreInv, StoreTypeOK
  <2>3. ActiveIsGuarded' /\ TimerIsArmed' /\ AnalysisEnds' /\ AwayIsQuiet'
    BY <2>1 DEF StoreInv, ActiveIsGuarded, TimerIsArmed, AnalysisEnds, AwayIsQuiet
  <2>4. BagOfJobs(jobs)' /\ Fits(jobs, stream, runs)'
    BY <2>1 DEF StoreInv
  <2>. QED  BY <2>2, <2>3, <2>4 DEF StoreInv
<1>. QED  BY <1>1, <1>2, <1>3, <1>4, <1>5 DEF StoreNext

(* The overlay: in every reachable state the stream a page would close is   *)
(* open, guarded by its 10-minute timer and the page's own, and a page that *)
(* says it checks ports has its analysis under way                          *)
(* (apps/+page.svelte:296-336, 516-550), for any apps, mounts and runs.     *)
THEOREM OverlayStaysSound == StoreSpec => []OverlayIsSound
<1>1. StoreInv => OverlayIsSound
  BY DEF StoreInv, OverlayIsSound
<1>. QED  BY <1>1, StoreInvInit, StoreInvNext, PTL DEF StoreSpec

----------------------------------------------------------------------------
(* The tiles.  Telling a tile never tracks one, and so neither does the     *)
(* mirror.                                                                  *)
LEMMA NoneStays ==
  ASSUME NEW t \in Tiles, NEW m, NEW pg, NEW x \in Apps, PageBecomes(m, pg, t), t[x] = "none"
  PROVE  tile'[x] = "none"
BY DEF PageBecomes, Mirrored, UpdateTile, Tiles

LEMMA GhostContinue ==
  ASSUME StoreInv, NEW j \in BagToSet(jobs), Continue(j),
         NEW a \in Apps, tile[a] = "none", tile'[a] # "none"
  PROVE  j.wait = "yaml" /\ j.app = a /\ Copies(jobs', j) < Copies(jobs, j)
<1>1. tile \in Tiles /\ BagOfJobs(jobs) /\ j \in Jobs /\ j.mount \in Mounts /\ j.app \in MaybeApp
  BY InvTypes, JobTaken
<1>2. CASE YamlAnswered(j)
  <2>. DEFINE k == Job("post", j.mount, j.app)
  <2>1. /\ j.wait = "yaml" /\ jobs' = More(Less(jobs, j), k)
        /\ \E pg : PageBecomes(j.mount, pg, StartTile(tile, j.app))
    BY <1>2 DEF YamlAnswered
  <2>2. StartTile(tile, j.app) \in Tiles /\ (a # j.app => StartTile(tile, j.app)[a] = "none")
    BY <1>1 DEF StartTile, Tiles, InFlight
  <2>3. a = j.app
    BY <2>1, <2>2, NoneStays
  <2>4. k \in Jobs /\ k # j
    BY <1>1, <2>1 DEF Job, Jobs, Waits
  <2>5. BagOfJobs(Less(jobs, j)) /\ Copies(Less(jobs, j), j) = Copies(jobs, j) - 1
    BY <1>1, LessJobs
  <2>6. Copies(More(Less(jobs, j), k), j) = Copies(Less(jobs, j), j) + 0
    BY <2>4, <2>5, MoreJobs
  <2>7. Copies(jobs, j) \in Nat
    BY <1>1, CopiesAre
  <2>. HIDE DEF k
  <2>. QED  BY <2>1, <2>3, <2>5, <2>6, <2>7
<1>3. CASE ~YamlAnswered(j)
  <2>1. tile' = tile \/ \E t \in Tiles : t[a] = "none" /\ \E pg : PageBecomes(j.mount, pg, t)
    <3>1. CASE RequestFails(j) \/ RequestAccepted(j) \/ ListArrives(j)
      <4>1. \A x, ph : UpdateTile(tile, x, ph)[a] = "none"
        BY <1>1 DEF UpdateTile, Tiles
      <4>2. \A x : \A ph \in {"error", "success", "starting"} : UpdateTile(tile, x, ph) \in Tiles
        BY <1>1, TilesTold DEF InFlight, Terminal
      <4>. QED  BY <1>1, <3>1, <4>1, <4>2 DEF RequestFails, RequestAccepted, ListArrives, Checked
    <3>2. CASE TimerFires(j)
      <4>1. FinishTile(tile, j.app) \in Tiles /\ FinishTile(tile, j.app)[a] = "none"
        BY <1>1 DEF FinishTile, Tiles
      <4>. QED  BY <1>1, <3>2, <4>1 DEF TimerFires
    <3>3. CASE AnalysisAnswered(j) \/ ChoicesChecked(j) \/ DebounceFires(j) \/ PickAnswered(j)
      BY <1>1, <3>3 DEF AnalysisAnswered, ChoicesChecked, DebounceFires, PickAnswered
    <3>. QED  BY <1>3, <3>1, <3>2, <3>3 DEF Continue
  <2>. QED  BY <2>1, NoneStays
<1>. QED  BY <1>2, <1>3

LEMMA GhostNext ==
  ASSUME StoreInv, [StoreNext]_storeVars,
         NEW a \in Apps, tile[a] = "none", tile'[a] # "none"
  PROVE  \E j \in BagToSet(jobs) : j.wait = "yaml" /\ j.app = a /\ Copies(jobs', j) < Copies(jobs, j)
<1>1. tile \in Tiles
  BY InvTypes
<1>2. CASE User
  <2>1. tile' = tile \/ \E m, pg : PageBecomes(m, pg, tile)
    BY <1>2 DEF User, CancelConfirm, OnPortInput, AutoPickPort, ExecuteInstall, CloseOverlay, Retry, StayInStore,
                LeavePage, EnterPage, RequestInstall, HandleUpdate, CheckGoes
  <2>. QED  BY <1>1, <2>1, NoneStays
<1>3. ASSUME NEW i \in Streams, StreamFinishes(i) \/ StreamFails(i) \/ StreamTimesOut(i) PROVE FALSE
  <2>1. \E m, pg : PageBecomes(m, pg, tile)
    BY <1>3 DEF StreamFinishes, StreamFails, StreamTimesOut
  <2>. QED  BY <1>1, <2>1, NoneStays
<1>4. CASE (\E x \in Apps : ServerFinishes(x)) \/ UNCHANGED storeVars
  BY <1>4 DEF ServerFinishes, storeVars
<1>. QED  BY <1>2, <1>3, <1>4, GhostContinue DEF StoreNext

(* A ghost tile: a tile appears on the launchpad only as the manifest of    *)
(* an install arrives, however often its app was installed, updated or      *)
(* retried before, and on whichever mount (install-state.svelte.ts:55-90).  *)
THEOREM TilesAreInstalls == StoreSpec => NoGhost
<1>. DEFINE Ghostless == \A a \in Apps : tile[a] = "none" /\ tile'[a] # "none" =>
              \E j \in BagToSet(jobs) : j.wait = "yaml" /\ j.app = a /\ Copies(jobs', j) < Copies(jobs, j)
<1>1. StoreInv /\ [StoreNext]_storeVars => [Ghostless]_storeVars
  BY GhostNext
<1>. QED  BY <1>1, StoreInvInit, StoreInvNext, PTL DEF StoreSpec, NoGhost

----------------------------------------------------------------------------
(* The filter: its result is the kept places of the sequence, in order.     *)

\* w is s at the places in K, in their order, by way of f.
Picks(w, f, s, K) ==
    /\ f \in [DOMAIN w -> K]
    /\ \A k \in K : \E n \in DOMAIN w : f[n] = k
    /\ \A m, n \in DOMAIN w : m < n => f[m] < f[n]
    /\ \A n \in DOMAIN w : w[n] = s[f[n]]

Kept(s, S) == {i \in DOMAIN s : s[i] \in S}

CountTo(K, i) == Cardinality({j \in K : j <= i})

LEMMA KeptIsFinite ==
  ASSUME NEW T, NEW s \in Seq(T), NEW S
  PROVE  /\ Kept(s, S) \subseteq 1..Len(s) /\ IsFiniteSet(Kept(s, S))
         /\ Cardinality(Kept(s, S)) \in Nat
<1>1. Len(s) \in Nat /\ DOMAIN s = 1..Len(s)
  BY LenProperties
<1>2. IsFiniteSet(1..Len(s))
  BY <1>1, FS_Interval
<1>3. Kept(s, S) \in SUBSET (1..Len(s))
  BY <1>1 DEF Kept
<1>. QED
  BY <1>2, <1>3, FS_Subset, FS_CardinalityType

\* A place's rank among finitely many numbers, and the place of each rank.
LEMMA RankIs ==
  ASSUME NEW K \in SUBSET Nat, IsFiniteSet(K)
  PROVE  /\ \A i \in K : CountTo(K, i) \in 1..Cardinality(K)
         /\ \A i, j \in K : i < j => CountTo(K, i) < CountTo(K, j)
         /\ \A n \in 1..Cardinality(K) : \E i \in K : CountTo(K, i) = n
<1>. DEFINE Up(i) == {j \in K : j <= i}
           n == Cardinality(K)
           r == [i \in K |-> Cardinality(Up(i))]
<1>2. n \in Nat
  BY FS_CardinalityType
<1>3. \A i \in K : Up(i) \in SUBSET K /\ i \in Up(i) /\ IsFiniteSet(Up(i))
  BY FS_Subset
<1>4. ASSUME NEW i \in K PROVE r[i] \in 1..n
  <2>1. Cardinality(Up(i)) \in Nat /\ Cardinality(Up(i)) <= n
    BY <1>3, FS_Subset, FS_CardinalityType
  <2>2. Cardinality(Up(i)) # 0
    BY <1>3, FS_EmptySet
  <2>. QED
    BY <1>2, <2>1, <2>2
<1>5. ASSUME NEW i \in K, NEW j \in K, i < j PROVE r[i] < r[j]
  <2>0. i \in Nat /\ j \in Nat /\ \A k \in K : k \in Nat
    OBVIOUS
  <2>1. Up(i) \subseteq Up(j) /\ ~(j <= i)
    <3>1. ASSUME NEW k \in K, k <= i PROVE k <= j
      <4>1. k \in Nat /\ i \in Nat /\ j \in Nat
        BY <2>0
      <4>. QED
        BY <1>5, <3>1, <4>1
    <3>2. ~(j <= i)
      BY <1>5, <2>0
    <3>. QED
      BY <3>1, <3>2
  <2>2. Cardinality(Up(i)) <= Cardinality(Up(j)) /\ Cardinality(Up(i)) # Cardinality(Up(j))
    BY <1>3, <2>1, FS_Subset
  <2>. QED
    BY <1>4, <2>2
<1>6. \A i \in K : CountTo(K, i) = r[i]
  BY DEF CountTo
<1>. HIDE DEF r
<1>7. r \in Injection(K, 1..n)
  <2>1. r \in [K -> 1..n]
    BY <1>4 DEF r
  <2>2. ASSUME NEW i \in K, NEW j \in K, r[i] = r[j] PROVE i = j
    <3>1. r[i] \in Nat /\ r[j] \in Nat /\ i \in Nat /\ j \in Nat
      BY <1>4
    <3>. QED
      BY <1>5, <2>2, <3>1
  <2>. QED
    BY <2>1, <2>2 DEF Injection, IsInjective
<1>8. r \in Surjection(K, 1..n)
  <2>1. IsFiniteSet(1..n) /\ Cardinality(1..n) = n
    BY <1>2, FS_Interval
  <2>. QED
    BY <1>7, <2>1, FS_Injection
<1>9. \A k \in 1..n : \E i \in K : r[i] = k
  BY <1>8 DEF Surjection
<1>. QED
  BY <1>4, <1>5, <1>6, <1>9

LEMMA WhereIs ==
  ASSUME NEW T, NEW s \in Seq(T), NEW S
  PROVE  /\ Where(s, S) \in Seq(T \cap S)
         /\ DOMAIN Where(s, S) = 1..Cardinality(Kept(s, S))
         /\ Len(Where(s, S)) = Cardinality(Kept(s, S))
         /\ \E f : Picks(Where(s, S), f, s, Kept(s, S))
<1>. DEFINE K == Kept(s, S)
           N == Cardinality(K)
           f == [n \in 1..N |-> CHOOSE i \in K : CountTo(K, i) = n]
           w == [n \in 1..N |-> s[CHOOSE i \in K : CountTo(K, i) = n]]
<1>1. Len(s) \in Nat /\ DOMAIN s = 1..Len(s) /\ \A i \in DOMAIN s : s[i] \in T
  BY LenProperties, ElementOfSeq
<1>2. K \subseteq 1..Len(s) /\ IsFiniteSet(K) /\ N \in Nat
  BY KeptIsFinite
<1>3. K \in SUBSET Nat
  BY <1>1, <1>2
<1>4. Where(s, S) = w
  BY DEF Where, CountTo, Kept
<1>5. \A i \in K : i \in DOMAIN s /\ s[i] \in S
  BY DEF Kept
<1>. HIDE DEF K
<1>6. \A n \in 1..N : f[n] \in K /\ CountTo(K, f[n]) = n
  BY <1>2, <1>3, RankIs
<1>7. \A i \in K : CountTo(K, i) \in 1..N
  BY <1>2, <1>3, RankIs
<1>8. \A i, j \in K : i < j => CountTo(K, i) < CountTo(K, j)
  BY <1>2, <1>3, RankIs
<1>9. \A n \in 1..N : w[n] = s[f[n]]
  OBVIOUS
<1>10. w \in [1..N -> T \cap S]
  <2>1. \A n \in 1..N : w[n] \in T \cap S
    BY <1>1, <1>5, <1>6, <1>9
  <2>. QED
    BY <2>1
<1>11. w \in Seq(T \cap S) /\ DOMAIN w = 1..N /\ Len(w) = N
  <2>. HIDE DEF w, N
  <2>1. w \in Seq(T \cap S) /\ DOMAIN w = 1..N
    BY <1>2, <1>10, SeqDef
  <2>. QED
    BY <1>2, <2>1, LenProperties
<1>12. f \in [1..N -> K]
  BY <1>6
<1>. HIDE DEF f, w
<1>13. \A k \in K : \E n \in 1..N : f[n] = k
  <2>. SUFFICES ASSUME NEW k \in K PROVE f[CountTo(K, k)] = k
    BY <1>7
  <2>1. CountTo(K, k) \in 1..N /\ f[CountTo(K, k)] \in K /\ CountTo(K, f[CountTo(K, k)]) = CountTo(K, k)
    BY <1>6, <1>7
  <2>2. f[CountTo(K, k)] \in Nat /\ k \in Nat /\ CountTo(K, k) \in Nat
    <3>1. f[CountTo(K, k)] \in Nat /\ k \in Nat
      BY <1>3, <2>1, Zenon
    <3>. QED
      BY <1>2, <2>1, <3>1
  <2>. QED
    BY <1>8, <2>1, <2>2
<1>14. \A m, n \in 1..N : m < n => f[m] < f[n]
  <2>. SUFFICES ASSUME NEW m \in 1..N, NEW n \in 1..N, m < n PROVE f[m] < f[n]
    OBVIOUS
  <2>1. f[m] \in K /\ f[n] \in K /\ CountTo(K, f[m]) = m /\ CountTo(K, f[n]) = n
    BY <1>6
  <2>2. f[m] \in Nat /\ f[n] \in Nat /\ m \in Nat /\ n \in Nat
    <3>1. f[m] \in Nat /\ f[n] \in Nat
      BY <1>3, <2>1, Zenon
    <3>. QED
      BY <1>2, <3>1
  <2>. QED
    BY <1>8, <2>1, <2>2
<1>15. Picks(w, f, s, K)
  BY <1>9, <1>11, <1>12, <1>13, <1>14 DEF Picks
<1>. QED
  BY <1>4, <1>11, <1>15 DEF K

LEMMA WhereAll ==
  ASSUME NEW T, NEW s \in Seq(T), NEW S, \A i \in DOMAIN s : s[i] \in S
  PROVE  Where(s, S) = s
<1>. DEFINE N == Len(s)
<1>1. N \in Nat /\ DOMAIN s = 1..N
  BY LenProperties
<1>2. Kept(s, S) = 1..N
  BY <1>1 DEF Kept
<1>3. IsFiniteSet(1..N) /\ Cardinality(1..N) = N
  BY <1>1, FS_Interval
<1>4. ASSUME NEW i \in 1..N PROVE CountTo(1..N, i) = i
  <2>1. i \in Nat
    BY <1>1
  <2>2. {j \in 1..N : j <= i} = 1..i
    BY <1>1
  <2>3. Cardinality(1..i) = i
    BY <2>1, FS_Interval
  <2>. QED
    BY <2>2, <2>3 DEF CountTo
<1>5. \A n \in 1..N : (CHOOSE i \in 1..N : CountTo(1..N, i) = n) = n
  BY <1>4
<1>6. Where(s, S) = [n \in 1..N |-> s[CHOOSE i \in 1..N : CountTo(1..N, i) = n]]
  <2>1. Where(s, S) = [n \in 1..Cardinality(Kept(s, S)) |->
                          s[CHOOSE i \in Kept(s, S) : CountTo(Kept(s, S), i) = n]]
    BY DEF Where, Kept, CountTo
  <2>. QED
    BY <1>2, <1>3, <2>1
<1>7. Where(s, S) = [n \in 1..N |-> s[n]]
  BY <1>5, <1>6
<1>. QED
  BY <1>1, <1>7, LenProperties

LEMMA WhereSameLength ==
  ASSUME NEW T, NEW s \in Seq(T), NEW S, Len(Where(s, S)) = Len(s)
  PROVE  Where(s, S) = s
<1>1. Len(s) \in Nat /\ DOMAIN s = 1..Len(s)
  BY LenProperties
<1>2. IsFiniteSet(1..Len(s)) /\ Cardinality(1..Len(s)) = Len(s)
  <2>1. \A n \in Nat : IsFiniteSet(1..n) /\ Cardinality(1..n) = n
    BY FS_Interval
  <2>. QED
    BY <1>1, <2>1
<1>3. Kept(s, S) \in SUBSET (1..Len(s)) /\ Cardinality(Kept(s, S)) = Len(s)
  BY KeptIsFinite, WhereIs
<1>4. Kept(s, S) = 1..Len(s)
  BY <1>2, <1>3, FS_Subset
<1>5. \A i \in DOMAIN s : s[i] \in S
  BY <1>1, <1>4 DEF Kept
<1>. QED
  BY <1>5, WhereAll

\* Nothing is kept of a sequence with nothing in S; the first is kept first.
LEMMA WhereEmpty ==
  ASSUME NEW T, NEW s \in Seq(T), NEW S
  PROVE  /\ Where(s, S) = <<>> <=> \A i \in DOMAIN s : s[i] \notin S
         /\ Where(s, S) # <<>> => Where(s, S)[1] \in T \cap S
<1>. DEFINE w == Where(s, S)
           K == Kept(s, S)
<1>1. PICK f : Picks(w, f, s, K)
  BY WhereIs
<1>2. w \in Seq(T \cap S) /\ DOMAIN w = 1..Len(w) /\ Len(w) \in Nat
  BY WhereIs, LenProperties
<1>3. K = {i \in DOMAIN s : s[i] \in S}
  BY DEF Kept
<1>. HIDE DEF w, K
<1>4. (\A n \in DOMAIN w : f[n] \in K) /\ (\A k \in K : \E n \in DOMAIN w : f[n] = k)
  BY <1>1 DEF Picks
<1>5. w = <<>> <=> DOMAIN w = {}
  BY <1>2, EmptySeq
<1>6. w = <<>> <=> \A i \in DOMAIN s : s[i] \notin S
  BY <1>3, <1>4, <1>5
<1>7. w # <<>> => w[1] \in T \cap S
  BY <1>2, EmptySeq, ElementOfSeq
<1>. QED
  BY <1>6, <1>7 DEF w

LEMMA WhereFirst ==
  ASSUME NEW T, NEW s \in Seq(T), NEW S, s # <<>>, s[1] \in S
  PROVE  Where(s, S) # <<>> /\ Where(s, S)[1] = s[1]
<1>. DEFINE w == Where(s, S)
           K == Kept(s, S)
<1>1. PICK f : Picks(w, f, s, K)
  BY WhereIs
<1>2. w \in Seq(T \cap S) /\ DOMAIN w = 1..Len(w) /\ Len(w) \in Nat
  BY WhereIs, LenProperties
<1>3. DOMAIN s = 1..Len(s) /\ Len(s) \in Nat /\ Len(s) # 0
  BY LenProperties, EmptySeq
<1>4. 1 \in K /\ \A k \in K : k \in Nat /\ 1 <= k
  BY <1>3 DEF Kept
<1>5. w # <<>>
  BY <1>3, WhereEmpty
<1>. HIDE DEF w, K
<1>6. 1 \in DOMAIN w
  BY <1>2, <1>5, EmptySeq
<1>7. \A n \in DOMAIN w : f[n] \in K
  BY <1>1 DEF Picks
<1>8. PICK n \in DOMAIN w : f[n] = 1
  BY <1>1, <1>4 DEF Picks
<1>9. n = 1
  <2>1. 1 < n => f[1] < f[n]
    BY <1>1, <1>6, <1>8 DEF Picks
  <2>2. f[1] \in Nat /\ 1 <= f[1]
    BY <1>4, <1>6, <1>7
  <2>. QED
    BY <1>2, <1>8, <2>1, <2>2
<1>10. w[1] = s[1]
  BY <1>1, <1>6, <1>8, <1>9 DEF Picks
<1>. QED
  BY <1>5, <1>10 DEF w

\* No two elements have the same key.
Distinct(s) == \A i, j \in DOMAIN s : s[i].key = s[j].key => i = j

LEMMA DistinctIs ==
  ASSUME NEW s
  PROVE  IsInjective([i \in DOMAIN s |-> s[i].key]) <=> Distinct(s)
BY DEF IsInjective, Distinct

LEMMA WhereDistinct ==
  ASSUME NEW T, NEW s \in Seq(T), NEW S, Distinct(s)
  PROVE  Distinct(Where(s, S))
<1>. DEFINE w == Where(s, S)
           K == Kept(s, S)
<1>1. PICK f : Picks(w, f, s, K)
  BY WhereIs
<1>2. w \in Seq(T \cap S) /\ DOMAIN w = 1..Len(w) /\ Len(w) \in Nat
  BY WhereIs, LenProperties
<1>3. \A k \in K : k \in DOMAIN s /\ k \in Nat
  BY LenProperties DEF Kept
<1>. HIDE DEF w, K
<1>4. ASSUME NEW m \in DOMAIN w, NEW n \in DOMAIN w, w[m].key = w[n].key PROVE m = n
  <2>1. f[m] \in K /\ f[n] \in K /\ w[m] = s[f[m]] /\ w[n] = s[f[n]]
    BY <1>1 DEF Picks
  <2>2. f[m] = f[n]
    BY <1>3, <1>4, <2>1 DEF Distinct
  <2>3. (m < n => f[m] < f[n]) /\ (n < m => f[n] < f[m])
    BY <1>1 DEF Picks
  <2>4. f[m] \in Nat /\ f[n] \in Nat
    BY <1>3, <2>1
  <2>. QED
    BY <1>2, <2>2, <2>3, <2>4
<1>. QED
  BY <1>4 DEF Distinct, w

----------------------------------------------------------------------------
(* What the pieces of a service are, and what the setters make of them.     *)

PairT == [key : Text, val : Text]

LEMMA PairTyped ==
  ASSUME NEW k \in Text, NEW v \in Text
  PROVE  Pair(k, v) \in PairT /\ Pair(k, v).key = k /\ Pair(k, v).val = v
BY DEF Pair, PairT

LEMMA PairsTyped ==
  ASSUME NEW form \in {"list", "map"}, NEW e \in Seq(PairT)
  PROVE  Pairs(form, e) \in PairLists /\ Pairs(form, e).form = form /\ Pairs(form, e).e = e
BY DEF Pairs, PairLists, PairT

LEMMA NoPairsTyped ==
  NoPairs \in PairLists /\ NoPairs.form = "none" /\ NoPairs.e = <<>>
BY EmptySeq DEF NoPairs, PairLists

LEMMA PairListIs ==
  ASSUME NEW p \in PairLists
  PROVE  /\ p.form \in {"none", "list", "map"} /\ p.e \in Seq(PairT)
         /\ p = [form |-> p.form, e |-> p.e] /\ (p.form = "none" => p.e = <<>>)
<1>1. CASE p = NoPairs
  BY <1>1, EmptySeq DEF NoPairs
<1>2. CASE p # NoPairs
  BY <1>2 DEF PairLists, PairT
<1>. QED
  BY <1>1, <1>2

LEMMA ViewPairsTyped ==
  ASSUME NEW p \in PairLists
  PROVE  /\ ViewPairs(p) \in Seq(PairT) /\ Len(ViewPairs(p)) = Len(p.e)
         /\ DOMAIN ViewPairs(p) = DOMAIN p.e
         /\ \A i \in DOMAIN p.e : ViewPairs(p)[i].key = p.e[i].key
<1>. DEFINE w == ViewPairs(p)
           n == Len(p.e)
           shown(v) == IF v # Bare THEN v ELSE IF p.form = "map" THEN "null" ELSE ""
<1>1. p.e \in Seq(PairT)
  BY PairListIs
<1>2. DOMAIN p.e = 1..n /\ n \in Nat /\ \A i \in 1..n : p.e[i] \in PairT
  BY <1>1, LenProperties, ElementOfSeq
<1>3. \A x \in PairT : [x EXCEPT !.val = shown(x.val)] \in PairT
                       /\ [x EXCEPT !.val = shown(x.val)].key = x.key
  <2>1. \A v \in Text : shown(v) \in Text
    <3>1. "null" \in Text /\ "" \in Text
      BY DocConstantsOK
    <3>. QED
      BY <3>1, Zenon
  <2>. HIDE DEF shown
  <2>. QED
    BY <2>1 DEF PairT
<1>4. w = [i \in 1..n |-> [p.e[i] EXCEPT !.val = shown(p.e[i].val)]]
  BY <1>2 DEF ViewPairs
<1>. HIDE DEF shown, w
<1>5. w \in [1..n -> PairT] /\ \A i \in 1..n : w[i].key = p.e[i].key
  BY <1>2, <1>3, <1>4
<1>6. w \in Seq(PairT) /\ DOMAIN w = 1..n
  BY <1>2, <1>5, SeqDef
<1>7. Len(w) = n
  BY <1>2, <1>6, LenProperties
<1>. QED
  BY <1>2, <1>5, <1>6, <1>7 DEF w

LEMMA SetPairTyped ==
  ASSUME NEW s \in Seq(PairT), NEW i \in DOMAIN s, NEW field \in PairFields, NEW v \in Text
  PROVE  [s EXCEPT ![i][field] = v] \in Seq(PairT)
<1>1. DOMAIN s = 1..Len(s) /\ Len(s) \in Nat
  BY LenProperties
<1>2. s[i] \in PairT
  BY <1>1, ElementOfSeq
<1>3. [s[i] EXCEPT ![field] = v] \in PairT
  <2>2. CASE field = "key"
    BY <1>2, <2>2 DEF PairT
  <2>3. CASE field = "val"
    BY <1>2, <2>3 DEF PairT
  <2>. QED
    BY <2>2, <2>3 DEF PairFields
<1>4. [s EXCEPT ![i][field] = v] = [s EXCEPT ![i] = [s[i] EXCEPT ![field] = v]]
  OBVIOUS
<1>. QED
  BY <1>1, <1>3, <1>4, ExceptSeq

LEMMA KeyedTyped ==
  ASSUME NEW s \in Seq(PairT)
  PROVE  Keyed(s) \in Seq(PairT)
<1>. DEFINE S == {p \in ToSet(s) : p.key # ""}
<1>1. Where(s, S) \in Seq(PairT \cap S)
  BY WhereIs
<1>. HIDE DEF S
<1>2. Where(s, S) \in Seq(PairT)
  BY <1>1, SeqMonotonic
<1>. QED
  BY <1>2 DEF Keyed, S

LEMMA WhereTyped ==
  ASSUME NEW T, NEW s \in Seq(T), NEW S
  PROVE  Where(s, S) \in Seq(T)
<1>1. Where(s, S) \in Seq(T \cap S)
  BY WhereIs
<1>. QED
  BY <1>1, SeqMonotonic

LEMMA RemoveAtIs ==
  ASSUME NEW T, NEW s \in Seq(T), NEW i \in DOMAIN s
  PROVE  /\ RemoveAt(s, i) \in Seq(T)
         /\ DOMAIN RemoveAt(s, i) = 1..(Len(s) - 1)
         /\ \A j \in 1..(Len(s) - 1) : RemoveAt(s, i)[j] = IF j < i THEN s[j] ELSE s[j + 1]
<1>. DEFINE u == SubSeq(s, 1, i - 1)
           v == SubSeq(s, i + 1, Len(s))
<1>1. DOMAIN s = 1..Len(s) /\ Len(s) \in Nat /\ i \in 1..Len(s)
  BY LenProperties
<1>2. i - 1 \in Int /\ i + 1 \in Int /\ Len(s) \in Int /\ 1 \in Int
  BY <1>1
<1>3. (\A j \in 1..(i - 1) : s[j] \in T) /\ \A j \in (i + 1)..Len(s) : s[j] \in T
  BY <1>1, ElementOfSeq
<1>4. u \in Seq(T) /\ Len(u) = i - 1 /\ \A j \in 1..(i - 1) : u[j] = s[j]
  <2>1. /\ SubSeq(s, 1, i - 1) \in Seq(T)
        /\ Len(SubSeq(s, 1, i - 1)) = IF 1 <= i - 1 THEN i - 1 - 1 + 1 ELSE 0
        /\ \A j \in 1..(i - 1 - 1 + 1) : SubSeq(s, 1, i - 1)[j] = s[1 + j - 1]
    BY <1>2, <1>3, SubSeqProperties
  <2>. QED
    BY <1>1, <2>1
<1>5. v \in Seq(T) /\ Len(v) = Len(s) - i /\ \A j \in 1..(Len(s) - i) : v[j] = s[i + j]
  <2>1. /\ SubSeq(s, i + 1, Len(s)) \in Seq(T)
        /\ Len(SubSeq(s, i + 1, Len(s))) = IF i + 1 <= Len(s) THEN Len(s) - (i + 1) + 1 ELSE 0
        /\ \A j \in 1..(Len(s) - (i + 1) + 1) : SubSeq(s, i + 1, Len(s))[j] = s[i + 1 + j - 1]
    BY <1>2, <1>3, SubSeqProperties
  <2>. QED
    BY <1>1, <2>1
<1>. HIDE DEF u, v
<1>6. /\ u \o v \in Seq(T) /\ Len(u \o v) = Len(s) - 1
      /\ \A j \in 1..(Len(s) - 1) : (u \o v)[j] = IF j <= Len(u) THEN u[j] ELSE v[j - Len(u)]
  <2>1. Len(u) + Len(v) = Len(s) - 1
    BY <1>1, <1>4, <1>5
  <2>2. /\ u \o v \in Seq(T) /\ Len(u \o v) = Len(u) + Len(v)
        /\ \A j \in 1..(Len(u) + Len(v)) : (u \o v)[j] = IF j <= Len(u) THEN u[j] ELSE v[j - Len(u)]
    BY <1>4, <1>5, ConcatProperties
  <2>. QED
    BY <2>1, <2>2
<1>7. ASSUME NEW j \in 1..(Len(s) - 1)
      PROVE  (u \o v)[j] = IF j < i THEN s[j] ELSE s[j + 1]
  <2>1. CASE j < i
    BY <1>1, <1>4, <1>6, <2>1
  <2>2. CASE ~(j < i)
    <3>1. j - (i - 1) \in 1..(Len(s) - i) /\ i + (j - (i - 1)) = j + 1 /\ ~(j <= i - 1)
      BY <1>1, <2>2
    <3>. QED
      BY <1>4, <1>5, <1>6, <2>2, <3>1
  <2>. QED
    BY <2>1, <2>2
<1>8. RemoveAt(s, i) = u \o v
  BY DEF RemoveAt, u, v
<1>9. DOMAIN (u \o v) = 1..(Len(s) - 1)
  BY <1>6, LenProperties
<1>. QED
  BY <1>6, <1>7, <1>8, <1>9

\* A sequence without its i-th element still names each key once.
LEMMA RemoveAtDistinct ==
  ASSUME NEW T, NEW s \in Seq(T), NEW i \in DOMAIN s, Distinct(s)
  PROVE  Distinct(RemoveAt(s, i))
<1>. DEFINE w == RemoveAt(s, i)
           at(j) == IF j < i THEN j ELSE j + 1
<1>1. DOMAIN s = 1..Len(s) /\ Len(s) \in Nat /\ i \in 1..Len(s)
  BY LenProperties
<1>2. DOMAIN w = 1..(Len(s) - 1) /\ \A j \in DOMAIN w : w[j] = s[at(j)]
  BY RemoveAtIs
<1>3. \A j \in 1..(Len(s) - 1) : at(j) \in 1..Len(s)
  BY <1>1
<1>4. \A j, k \in 1..(Len(s) - 1) : at(j) = at(k) => j = k
  BY <1>1
<1>. HIDE DEF w, at
<1>. QED
  BY <1>1, <1>2, <1>3, <1>4 DEF Distinct, w

LEMMA MaxIs ==
  ASSUME NEW K \in SUBSET Nat, IsFiniteSet(K), K # {}
  PROVE  Max(K) \in K /\ \A j \in K : j <= Max(K)
<1>1. Cardinality(K) \in 1..Cardinality(K)
  BY FS_CardinalityType, FS_EmptySet
<1>2. PICK i \in K : CountTo(K, i) = Cardinality(K)
  BY <1>1, RankIs
<1>3. \A j \in K : j <= i
  <2>. SUFFICES ASSUME NEW j \in K PROVE j <= i
    OBVIOUS
  <2>1. i < j => CountTo(K, i) < CountTo(K, j)
    BY RankIs
  <2>2. CountTo(K, j) \in 1..Cardinality(K) /\ Cardinality(K) \in Nat
    BY RankIs, FS_CardinalityType
  <2>3. i \in Nat /\ j \in Nat
    OBVIOUS
  <2>. QED
    BY <1>2, <2>1, <2>2, <2>3
<1>4. \A j \in K : i >= j
  <2>1. \A j \in K : i \in Nat /\ j \in Nat
    OBVIOUS
  <2>. QED
    BY <1>3, <2>1
<1>5. Max(K) \in K /\ \A j \in K : Max(K) >= j
  BY <1>4, Zenon DEF Max
<1>6. \A j \in K : Max(K) \in Nat /\ j \in Nat
  BY <1>5
<1>. QED
  BY <1>5, <1>6

\* Building an object out of pairs: each key once, at its first place.
LEMMA AsObjectTyped ==
  ASSUME NEW s \in Seq(PairT)
  PROVE  AsObject(s) \in Seq(PairT) /\ Distinct(AsObject(s))
<1>. DEFINE lastOf(k) == Max({i \in DOMAIN s : s[i].key = k})
           F == {i \in DOMAIN s : \A j \in 1..(i - 1) : s[j].key # s[i].key}
           id == [i \in DOMAIN s |-> i]
           at == Where(id, F)
           w == [n \in DOMAIN at |-> Pair(s[at[n]].key, s[lastOf(s[at[n]].key)].val)]
<1>1. DOMAIN s = 1..Len(s) /\ Len(s) \in Nat /\ \A i \in DOMAIN s : s[i] \in PairT
  BY LenProperties, ElementOfSeq
<1>2. id \in Seq(1..Len(s)) /\ DOMAIN id = 1..Len(s)
  <2>. DEFINE n == Len(s)
  <2>1. DOMAIN s = 1..n /\ n \in Nat
    BY <1>1
  <2>. HIDE DEF n
  <2>2. id \in [1..n -> 1..n]
    BY <2>1
  <2>3. id \in Seq(1..n)
    BY <2>1, <2>2, SeqDef
  <2>. QED
    BY <2>2, <2>3 DEF n
<1>3. PICK f : Picks(at, f, id, Kept(id, F))
  BY <1>2, WhereIs
<1>4. at \in Seq((1..Len(s)) \cap F)
  BY <1>2, WhereIs
<1>5. DOMAIN at = 1..Len(at) /\ Len(at) \in Nat /\ \A n \in DOMAIN at : at[n] \in F /\ at[n] \in DOMAIN s
  <2>. HIDE DEF at, F
  <2>1. DOMAIN at = 1..Len(at) /\ Len(at) \in Nat
    BY <1>4, LenProperties
  <2>. QED
    BY <1>1, <1>4, <2>1, ElementOfSeq
<1>6. ASSUME NEW m \in DOMAIN at, NEW n \in DOMAIN at, at[m] = at[n] PROVE m = n
  <2>1. f[m] \in Kept(id, F) /\ f[n] \in Kept(id, F) /\ at[m] = id[f[m]] /\ at[n] = id[f[n]]
    BY <1>3 DEF Picks
  <2>2. f[m] \in DOMAIN s /\ f[n] \in DOMAIN s
    BY <1>1, <1>2, <2>1 DEF Kept
  <2>3. f[m] = f[n] /\ f[m] \in Nat
    BY <1>1, <1>6, <2>1, <2>2
  <2>4. (m < n => f[m] < f[n]) /\ (n < m => f[n] < f[m])
    BY <1>3 DEF Picks
  <2>. QED
    BY <1>5, <2>3, <2>4
<1>7. AsObject(s) = w
  BY DEF AsObject
<1>8. ASSUME NEW i \in DOMAIN s PROVE lastOf(s[i].key) \in DOMAIN s /\ s[lastOf(s[i].key)].key = s[i].key
  <2>. DEFINE K == {j \in DOMAIN s : s[j].key = s[i].key}
  <2>1. K \in SUBSET Nat /\ K # {} /\ K \in SUBSET (1..Len(s))
    BY <1>1
  <2>2. IsFiniteSet(1..Len(s))
    BY <1>1, FS_Interval
  <2>3. IsFiniteSet(K)
    BY <2>1, <2>2, FS_Subset
  <2>. HIDE DEF K
  <2>4. Max(K) \in K
    BY <2>1, <2>3, MaxIs
  <2>. QED
    BY <2>4 DEF K
<1>. HIDE DEF lastOf, at, id
<1>9. ASSUME NEW n \in DOMAIN at PROVE w[n] \in PairT /\ w[n].key = s[at[n]].key
  <2>1. at[n] \in DOMAIN s /\ s[at[n]] \in PairT /\ s[lastOf(s[at[n]].key)] \in PairT
    BY <1>1, <1>5, <1>8
  <2>2. s[at[n]].key \in Text /\ s[lastOf(s[at[n]].key)].val \in Text
    BY <2>1 DEF PairT
  <2>. QED
    BY <2>2, PairTyped
<1>10. w \in Seq(PairT)
  <2>1. w \in [DOMAIN at -> PairT]
    BY <1>9
  <2>. HIDE DEF w
  <2>. QED
    BY <1>5, <2>1, SeqDef
<1>11. DOMAIN w = DOMAIN at
  OBVIOUS
<1>. HIDE DEF w
<1>12. ASSUME NEW m \in DOMAIN w, NEW n \in DOMAIN w, w[m].key = w[n].key PROVE m = n
  <2>1. at[m] \in F /\ at[n] \in F /\ s[at[m]].key = s[at[n]].key
        /\ at[m] \in 1..Len(s) /\ at[n] \in 1..Len(s)
    BY <1>1, <1>5, <1>9, <1>11, <1>12
  <2>2. at[m] = at[n]
    <3>1. ~(at[m] < at[n])
      <4>. SUFFICES ASSUME at[m] < at[n] PROVE FALSE
        OBVIOUS
      <4>1. at[m] \in 1..(at[n] - 1)
        BY <1>1, <2>1
      <4>. QED
        BY <2>1, <4>1
    <3>2. ~(at[n] < at[m])
      <4>. SUFFICES ASSUME at[n] < at[m] PROVE FALSE
        OBVIOUS
      <4>1. at[n] \in 1..(at[m] - 1)
        BY <1>1, <2>1
      <4>. QED
        BY <2>1, <4>1
    <3>. QED
      BY <1>1, <2>1, <3>1, <3>2
  <2>. QED
    BY <1>6, <1>11, <2>2
<1>13. Distinct(w)
  BY <1>12 DEF Distinct
<1>. QED
  BY <1>7, <1>10, <1>13

----------------------------------------------------------------------------
(* Services and documents that are well formed, and what keeps them so.     *)

GoodService(s) == s \in Services /\ (s.labels.form = "map" => Distinct(s.labels.e))

Good(d) == IsDoc(d) /\ NamedOnce(d)

LEMMA TextsAre ==
  /\ "" \in Text /\ "app" \in Text /\ "null" \in Text /\ "no" \in Text /\ Bare \in Text
  /\ Absent \in Text
  /\ \A v \in Input : v \in Text
  /\ \A k \in ServiceKeys : k \in Text
BY DocConstantsOK DEF Input, Absent

LEMMA BoundsAre == MaxRows \in Nat /\ MaxEdits \in Nat
BY DocConstantsOK, Zenon

LEMMA ExtKeySet ==
  /\ ToSet(ExtKeys) = {"x-powerlab", "x-web", "x-casaos"}
  /\ ExtKeys \in Seq(ToSet(ExtKeys))
BY DEF ToSet, ExtKeys

LEMMA GoodIs ==
  ASSUME NEW d
  PROVE  Good(d) <=>
           /\ d = [name |-> d.name, icon |-> d.icon, ext |-> d.ext, services |-> d.services]
           /\ d.ext \in [ToSet(ExtKeys) -> Exts] /\ d.services \in Seq(Services)
           /\ Distinct(d.services) /\ \A i \in DOMAIN d.services : GoodService(d.services[i])
<1>1. NamedOnce(d) <=> /\ Distinct(d.services)
                       /\ \A s \in ToSet(d.services) : s.labels.form = "map" => Distinct(s.labels.e)
  BY DistinctIs, Zenon DEF NamedOnce
<1>2. d.services \in Seq(Services) => \A i \in DOMAIN d.services : d.services[i] \in Services
  BY LenProperties, ElementOfSeq
<1>3. ToSet(d.services) = {d.services[i] : i \in DOMAIN d.services}
  BY DEF ToSet
<1>. QED
  BY <1>1, <1>2, <1>3, Zenon DEF Good, IsDoc, GoodService

LEMMA ServiceIs ==
  ASSUME NEW s \in Services
  PROVE  /\ s.key \in Text /\ s.scalar \in [Scalars -> Text] /\ s.rows \in [EntryKinds -> Seq(Entries)]
         /\ s.env \in PairLists /\ s.labels \in PairLists /\ s.mem \in Nat /\ s.memLimit \in Nat
         /\ s.deployRest \in BOOLEAN
BY DEF Services

LEMMA BlankGood ==
  ASSUME NEW key \in Text
  PROVE  GoodService(Blank(key)) /\ Blank(key).key = key
<1>1. [k \in EntryKinds |-> <<>>] \in [EntryKinds -> Seq(Entries)]
  BY EmptySeq
<1>2. [f \in Scalars |-> Absent] \in [Scalars -> Text]
  BY TextsAre
<1>3. NoPairs \in PairLists /\ NoPairs.form = "none"
  BY NoPairsTyped
<1>. QED
  BY <1>1, <1>2, <1>3 DEF Blank, GoodService, Services

LEMMA EmptyGood ==
  Good(EmptyDoc) /\ \A k \in ToSet(ExtKeys) : ~EmptyDoc.ext[k].id
<1>1. NoExt \in Exts /\ NoExt.id = FALSE
  BY TextsAre DEF NoExt, Exts
<1>2. <<>> \in Seq(Services) /\ Distinct(<<>>) /\ DOMAIN <<>> = {}
  BY EmptySeq DEF Distinct
<1>. HIDE DEF NoExt
<1>3. [k \in ToSet(ExtKeys) |-> NoExt] \in [ToSet(ExtKeys) -> Exts]
  BY <1>1
<1>4. EmptyDoc.ext = [k \in ToSet(ExtKeys) |-> NoExt] /\ EmptyDoc.services = <<>>
      /\ EmptyDoc = [name |-> EmptyDoc.name, icon |-> EmptyDoc.icon, ext |-> EmptyDoc.ext,
                     services |-> EmptyDoc.services]
  BY DEF EmptyDoc
<1>. QED
  BY <1>1, <1>2, <1>3, <1>4, GoodIs

LEMMA EnsureGood ==
  ASSUME NEW d, Good(d)
  PROVE  GoodService(EnsureService(d))
<1>1. d.services \in Seq(Services) /\ \A i \in DOMAIN d.services : GoodService(d.services[i])
  BY GoodIs
<1>2. d.services # <<>> => 1 \in DOMAIN d.services
  BY <1>1, EmptySeq, LenProperties
<1>. QED
  BY <1>1, <1>2, BlankGood, TextsAre DEF EnsureService

LEMMA StoredGood ==
  ASSUME NEW d, Good(d), NEW s, GoodService(s), s.key = EnsureService(d).key
  PROVE  /\ Good(Stored(d, s)) /\ Stored(d, s).ext = d.ext
         /\ Stored(d, s).services # <<>> /\ Stored(d, s).services[1] = s
<1>. DEFINE new == IF d.services = <<>> THEN <<s>> ELSE [d.services EXCEPT ![1] = s]
<1>1. /\ d = [name |-> d.name, icon |-> d.icon, ext |-> d.ext, services |-> d.services]
      /\ d.ext \in [ToSet(ExtKeys) -> Exts] /\ d.services \in Seq(Services)
      /\ Distinct(d.services) /\ \A i \in DOMAIN d.services : GoodService(d.services[i])
  BY GoodIs
<1>2. s \in Services
  BY DEF GoodService
<1>3. Stored(d, s) = [name |-> d.name, icon |-> d.icon, ext |-> d.ext, services |-> new]
  BY <1>1 DEF Stored
<1>4. /\ new \in Seq(Services) /\ new # <<>> /\ new[1] = s
      /\ Distinct(new) /\ \A i \in DOMAIN new : GoodService(new[i])
  <2>1. CASE d.services = <<>>
    <3>1. new = <<s>>
      BY <2>1
    <3>2. <<s>> \in Seq(Services) /\ <<s>> # <<>> /\ <<s>>[1] = s /\ DOMAIN <<s>> = {1}
      BY <1>2
    <3>. HIDE DEF new
    <3>3. Distinct(new)
      BY <3>1, <3>2 DEF Distinct
    <3>. QED
      BY <3>1, <3>2, <3>3
  <2>2. CASE d.services # <<>>
    <3>1. new = [d.services EXCEPT ![1] = s] /\ EnsureService(d) = d.services[1]
      BY <2>2 DEF EnsureService
    <3>2. DOMAIN d.services = 1..Len(d.services) /\ Len(d.services) \in Nat /\ 1 \in DOMAIN d.services
      BY <1>1, <2>2, EmptySeq, LenProperties
    <3>3. DOMAIN new = DOMAIN d.services /\ new[1] = s
          /\ \A j \in DOMAIN d.services : j # 1 => new[j] = d.services[j]
      BY <3>1, <3>2
    <3>4. new \in Seq(Services)
      BY <1>1, <1>2, <3>1, <3>2, ExceptSeq
    <3>5. \A j \in DOMAIN new : new[j].key = d.services[j].key
      BY <3>1, <3>3
    <3>6. new # <<>>
      BY <3>2, <3>3, EmptySeq
    <3>. HIDE DEF new
    <3>7. Distinct(new)
      BY <1>1, <3>3, <3>5 DEF Distinct
    <3>8. \A j \in DOMAIN new : GoodService(new[j])
      BY <1>1, <3>3
    <3>. QED
      BY <3>3, <3>4, <3>6, <3>7, <3>8
  <2>. QED
    BY <2>1, <2>2
<1>. HIDE DEF new
<1>5. /\ Stored(d, s).ext = d.ext /\ Stored(d, s).services = new
      /\ Stored(d, s) = [name |-> Stored(d, s).name, icon |-> Stored(d, s).icon,
                         ext |-> Stored(d, s).ext, services |-> Stored(d, s).services]
  BY <1>3
<1>6. Good(Stored(d, s))
  BY <1>1, <1>4, <1>5, GoodIs
<1>. QED
  BY <1>4, <1>5, <1>6

\* One field of a service replaced by another of its kind.
LEMMA ServiceWith ==
  ASSUME NEW s, GoodService(s)
  PROVE  /\ \A k \in EntryKinds, r \in Seq(Entries) :
              GoodService([s EXCEPT !.rows[k] = r]) /\ [s EXCEPT !.rows[k] = r].key = s.key
         /\ \A p \in PairLists :
              GoodService([s EXCEPT !.env = p]) /\ [s EXCEPT !.env = p].key = s.key
         /\ \A p \in PairLists :
              (p.form = "map" => Distinct(p.e)) =>
                GoodService([s EXCEPT !.labels = p]) /\ [s EXCEPT !.labels = p].key = s.key
         /\ \A f \in Scalars, v \in Text :
              GoodService([s EXCEPT !.scalar[f] = v]) /\ [s EXCEPT !.scalar[f] = v].key = s.key
         /\ \A mb \in Nat :
              LET new == [s EXCEPT !.mem = mb, !.memLimit = 0, !.deployRest = FALSE]
              IN  GoodService(new) /\ new.key = s.key
         /\ \A k \in Text : GoodService([s EXCEPT !.key = k]) /\ [s EXCEPT !.key = k].key = k
<1>1. s \in Services /\ (s.labels.form = "map" => Distinct(s.labels.e))
  BY DEF GoodService
<1>2. /\ s.key \in Text /\ s.scalar \in [Scalars -> Text] /\ s.rows \in [EntryKinds -> Seq(Entries)]
      /\ s.env \in PairLists /\ s.labels \in PairLists /\ s.mem \in Nat /\ s.memLimit \in Nat
      /\ s.deployRest \in BOOLEAN
  BY <1>1, ServiceIs
<1>3. s = [key |-> s.key, scalar |-> s.scalar, rows |-> s.rows, env |-> s.env, labels |-> s.labels,
           mem |-> s.mem, memLimit |-> s.memLimit, deployRest |-> s.deployRest]
  BY <1>1 DEF Services
<1>4. ASSUME NEW k \in EntryKinds, NEW r \in Seq(Entries)
      PROVE  GoodService([s EXCEPT !.rows[k] = r]) /\ [s EXCEPT !.rows[k] = r].key = s.key
  <2>1. [s.rows EXCEPT ![k] = r] \in [EntryKinds -> Seq(Entries)]
    BY <1>2
  <2>2. [s EXCEPT !.rows[k] = r] = [s EXCEPT !.rows = [s.rows EXCEPT ![k] = r]]
    OBVIOUS
  <2>3. \A x \in [EntryKinds -> Seq(Entries)] :
          [s EXCEPT !.rows = x] \in Services /\ [s EXCEPT !.rows = x].key = s.key
          /\ [s EXCEPT !.rows = x].labels = s.labels
    BY <1>2, <1>3 DEF Services
  <2>. QED
    BY <1>1, <2>1, <2>2, <2>3 DEF GoodService
<1>5. ASSUME NEW p \in PairLists
      PROVE  GoodService([s EXCEPT !.env = p]) /\ [s EXCEPT !.env = p].key = s.key
  <2>1. [s EXCEPT !.env = p] \in Services /\ [s EXCEPT !.env = p].key = s.key
        /\ [s EXCEPT !.env = p].labels = s.labels
    BY <1>2, <1>3 DEF Services
  <2>. QED
    BY <1>1, <2>1 DEF GoodService
<1>6. ASSUME NEW p \in PairLists, p.form = "map" => Distinct(p.e)
      PROVE  GoodService([s EXCEPT !.labels = p]) /\ [s EXCEPT !.labels = p].key = s.key
  <2>1. [s EXCEPT !.labels = p] \in Services /\ [s EXCEPT !.labels = p].key = s.key
        /\ [s EXCEPT !.labels = p].labels = p
    BY <1>2, <1>3 DEF Services
  <2>. QED
    BY <1>6, <2>1 DEF GoodService
<1>7. ASSUME NEW f \in Scalars, NEW v \in Text
      PROVE  GoodService([s EXCEPT !.scalar[f] = v]) /\ [s EXCEPT !.scalar[f] = v].key = s.key
  <2>1. [s.scalar EXCEPT ![f] = v] \in [Scalars -> Text]
    BY <1>2
  <2>2. [s EXCEPT !.scalar[f] = v] = [s EXCEPT !.scalar = [s.scalar EXCEPT ![f] = v]]
    OBVIOUS
  <2>3. \A x \in [Scalars -> Text] :
          [s EXCEPT !.scalar = x] \in Services /\ [s EXCEPT !.scalar = x].key = s.key
          /\ [s EXCEPT !.scalar = x].labels = s.labels
    BY <1>2, <1>3 DEF Services
  <2>. QED
    BY <1>1, <2>1, <2>2, <2>3 DEF GoodService
<1>8. ASSUME NEW mb \in Nat
      PROVE  LET new == [s EXCEPT !.mem = mb, !.memLimit = 0, !.deployRest = FALSE]
             IN  GoodService(new) /\ new.key = s.key
  <2>. DEFINE new == [s EXCEPT !.mem = mb, !.memLimit = 0, !.deployRest = FALSE]
  <2>1. new \in Services /\ new.key = s.key /\ new.labels = s.labels
    BY <1>2, <1>3 DEF Services
  <2>. QED
    BY <1>1, <2>1 DEF GoodService
<1>9. ASSUME NEW k \in Text
      PROVE  GoodService([s EXCEPT !.key = k]) /\ [s EXCEPT !.key = k].key = k
  <2>1. [s EXCEPT !.key = k] \in Services /\ [s EXCEPT !.key = k].key = k
        /\ [s EXCEPT !.key = k].labels = s.labels
    BY <1>2, <1>3 DEF Services
  <2>. QED
    BY <1>1, <2>1 DEF GoodService
<1>. QED
  BY <1>4, <1>5, <1>6, <1>7, <1>8, <1>9

LEMMA EntryTyped ==
  ASSUME NEW kind, NEW entry \in Entries, NEW field \in Fields, NEW v \in Text
  PROVE  SetField(kind, entry, field, v) \in Entries
<1>1. \A a, b \in Text : Short(<<a, b>>) \in Entries
  BY DEF Short, Entries
<1>2. "" \in Text
  BY TextsAre
<1>3. CASE entry.form = "short"
  <2>1. entry.parts \in Seq(Text)
    BY <1>3 DEF Entries
  <2>2. \A i \in {1, 2} : (IF Len(entry.parts) >= i THEN entry.parts[i] ELSE "") \in Text
    <3>1. \A i \in {1, 2} : Len(entry.parts) \in Nat /\ (Len(entry.parts) >= i => i \in 1..Len(entry.parts))
      BY <2>1, LenProperties
    <3>. QED
      BY <1>2, <2>1, <3>1, ElementOfSeq
  <2>3. SetField(kind, entry, field, v) =
          IF field = "host" THEN Short(<<v, IF Len(entry.parts) >= 2 THEN entry.parts[2] ELSE "">>)
          ELSE Short(<<IF Len(entry.parts) >= 1 THEN entry.parts[1] ELSE "", v>>)
    BY <1>3 DEF SetField, Fields
  <2>. QED
    BY <1>1, <2>2, <2>3
<1>4. CASE entry.form # "short"
  <2>1. entry \in [form : {"long"}, host : Text, container : Text, rest : BOOLEAN]
    BY <1>4 DEF Entries
  <2>2. CASE kind = "devices"
    <3>1. SetField(kind, entry, field, v) = Short(IF field = "host" THEN <<v, "">> ELSE <<"", v>>)
      BY <1>4, <2>1, <2>2 DEF SetField, Fields
    <3>. QED
      BY <1>1, <1>2, <3>1
  <2>3. CASE kind # "devices"
    <3>1. SetField(kind, entry, field, v) = [entry EXCEPT ![field] = v]
      BY <1>4, <2>3 DEF SetField
    <3>2. [entry EXCEPT ![field] = v] \in Entries
      BY <2>1 DEF Entries, Fields
    <3>. QED
      BY <3>1, <3>2
  <2>. QED
    BY <2>2, <2>3
<1>. QED
  BY <1>3, <1>4

\* A setter keeps the document well formed and gives no mapping a store id.
Keeps(d, new) ==
    /\ Good(new)
    /\ (\A k \in ToSet(ExtKeys) : ~d.ext[k].id) => \A k \in ToSet(ExtKeys) : ~new.ext[k].id

LEMMA StoredKeeps ==
  ASSUME NEW d, Good(d), NEW s, GoodService(s), s.key = EnsureService(d).key
  PROVE  Keeps(d, Stored(d, s))
BY StoredGood DEF Keeps

LEMMA ScalarKeeps ==
  ASSUME NEW d, Good(d), NEW f \in Scalars, NEW v \in Text
  PROVE  Keeps(d, SetScalar(d, f, v))
<1>1. ScalarValue(f, v) \in Text
  BY TextsAre DEF ScalarValue
<1>2. GoodService(EnsureService(d))
  BY EnsureGood
<1>. DEFINE new == [EnsureService(d) EXCEPT !.scalar[f] = ScalarValue(f, v)]
<1>3. GoodService(new) /\ new.key = EnsureService(d).key
  <2>. DEFINE s == EnsureService(d)
             x == ScalarValue(f, v)
  <2>. HIDE DEF s, x
  <2>1. GoodService(s) /\ x \in Text
    BY <1>1, <1>2 DEF s, x
  <2>2. \A g \in Scalars, y \in Text :
           GoodService([s EXCEPT !.scalar[g] = y]) /\ [s EXCEPT !.scalar[g] = y].key = s.key
    BY <2>1, ServiceWith, Zenon
  <2>3. GoodService([s EXCEPT !.scalar[f] = x]) /\ [s EXCEPT !.scalar[f] = x].key = s.key
    BY <2>1, <2>2, Zenon
  <2>. QED
    BY <2>3 DEF s, x
<1>4. SetScalar(d, f, v) = Stored(d, new)
  BY DEF SetScalar
<1>. HIDE DEF new
<1>. QED
  BY <1>3, <1>4, StoredKeeps

LEMMA MemKeeps ==
  ASSUME NEW d, Good(d), NEW mb \in Nat
  PROVE  Keeps(d, SetMemLimitMb(d, mb))
BY EnsureGood, ServiceWith, StoredKeeps DEF SetMemLimitMb

LEMMA RowsKeep ==
  ASSUME NEW d, Good(d), NEW kind \in EntryKinds
  PROVE  /\ EnsureService(d).rows[kind] \in Seq(Entries)
         /\ \A r \in Seq(Entries) :
              Keeps(d, Stored(d, [EnsureService(d) EXCEPT !.rows[kind] = r]))
<1>1. GoodService(EnsureService(d))
  BY EnsureGood
<1>2. EnsureService(d).rows[kind] \in Seq(Entries)
  BY <1>1, ServiceIs DEF GoodService
<1>3. ASSUME NEW r \in Seq(Entries)
      PROVE  Keeps(d, Stored(d, [EnsureService(d) EXCEPT !.rows[kind] = r]))
  <2>. DEFINE new == [EnsureService(d) EXCEPT !.rows[kind] = r]
  <2>1. GoodService(new) /\ new.key = EnsureService(d).key
    BY <1>1, ServiceWith
  <2>. HIDE DEF new
  <2>2. Keeps(d, Stored(d, new))
    BY <2>1, StoredKeeps
  <2>. QED
    BY <2>2 DEF new
<1>. QED
  BY <1>2, <1>3

LEMMA SetEntryKeeps ==
  ASSUME NEW d, Good(d), NEW kind \in EntryKinds, NEW i \in DOMAIN EnsureService(d).rows[kind],
         NEW field \in Fields, NEW v \in Text
  PROVE  Keeps(d, SetEntryAt(d, kind, i, field, v))
<1>. DEFINE s == EnsureService(d)
           rows == s.rows[kind]
           new == [rows EXCEPT ![i] = SetField(kind, rows[i], field, v)]
<1>1. rows \in Seq(Entries)
  BY RowsKeep
<1>2. i \in 1..Len(rows) /\ rows[i] \in Entries
  BY <1>1, LenProperties, ElementOfSeq
<1>3. new \in Seq(Entries)
  BY <1>1, <1>2, EntryTyped, ExceptSeq
<1>4. SetEntryAt(d, kind, i, field, v) = Stored(d, [s EXCEPT !.rows[kind] = new])
  <2>1. s.rows \in [EntryKinds -> Seq(Entries)] /\ s \in Services
    BY EnsureGood, ServiceIs DEF GoodService
  <2>2. [s EXCEPT !.rows[kind][i] = SetField(kind, @, field, v)] = [s EXCEPT !.rows[kind] = new]
    BY <2>1
  <2>. QED
    BY <2>2 DEF SetEntryAt
<1>. QED
  BY <1>3, <1>4, RowsKeep

LEMMA AddEntryKeeps ==
  ASSUME NEW d, Good(d), NEW kind \in EntryKinds
  PROVE  Keeps(d, AddEntry(d, kind))
<1>. DEFINE rows == EnsureService(d).rows[kind]
<1>1. rows \in Seq(Entries)
  BY RowsKeep
<1>2. Short(<<"">>) \in Entries
  <2>1. \A a \in Text : Short(<<a>>) \in Entries
    BY DEF Short, Entries
  <2>. QED
    BY <2>1, TextsAre
<1>3. Append(rows, Short(<<"">>)) \in Seq(Entries)
  BY <1>1, <1>2, AppendProperties
<1>. QED
  BY <1>3, RowsKeep DEF AddEntry

LEMMA RemoveEntryKeeps ==
  ASSUME NEW d, Good(d), d.services # <<>>, NEW kind \in EntryKinds,
         NEW i \in DOMAIN d.services[1].rows[kind]
  PROVE  Keeps(d, RemoveArrayItem(d, kind, i))
<1>. DEFINE s == d.services[1]
           new == RemoveAt(s.rows[kind], i)
<1>1. s = EnsureService(d)
  BY DEF EnsureService
<1>2. new \in Seq(Entries)
  BY <1>1, RowsKeep, RemoveAtIs
<1>3. RemoveArrayItem(d, kind, i) = Stored(d, [s EXCEPT !.rows[kind] = new])
  <2>1. d.services \in Seq(Services) /\ 1 \in DOMAIN d.services
    BY GoodIs, EmptySeq, LenProperties
  <2>2. [d EXCEPT !.services[1].rows[kind] = new]
          = [d EXCEPT !.services = [d.services EXCEPT ![1] = [s EXCEPT !.rows[kind] = new]]]
    OBVIOUS
  <2>. QED
    BY <2>2 DEF RemoveArrayItem, Stored
<1>. QED
  BY <1>1, <1>2, <1>3, RowsKeep

LEMMA EnvKeeps ==
  ASSUME NEW d, Good(d)
  PROVE  /\ EnsureService(d).env \in PairLists
         /\ \A p \in PairLists : Keeps(d, Stored(d, [EnsureService(d) EXCEPT !.env = p]))
<1>1. GoodService(EnsureService(d))
  BY EnsureGood
<1>2. EnsureService(d).env \in PairLists
  BY <1>1, ServiceIs DEF GoodService
<1>3. ASSUME NEW p \in PairLists
      PROVE  Keeps(d, Stored(d, [EnsureService(d) EXCEPT !.env = p]))
  <2>. DEFINE new == [EnsureService(d) EXCEPT !.env = p]
  <2>1. GoodService(new) /\ new.key = EnsureService(d).key
    BY <1>1, ServiceWith
  <2>. HIDE DEF new
  <2>2. Keeps(d, Stored(d, new))
    BY <2>1, StoredKeeps
  <2>. QED
    BY <2>2 DEF new
<1>. QED
  BY <1>2, <1>3

LEMMA LabelsKeep ==
  ASSUME NEW d, Good(d)
  PROVE  /\ EnsureService(d).labels \in PairLists
         /\ \A p \in PairLists : (p.form = "map" => Distinct(p.e)) =>
              Keeps(d, Stored(d, [EnsureService(d) EXCEPT !.labels = p]))
<1>1. GoodService(EnsureService(d))
  BY EnsureGood
<1>2. EnsureService(d).labels \in PairLists
  BY <1>1, ServiceIs DEF GoodService
<1>3. ASSUME NEW p \in PairLists, p.form = "map" => Distinct(p.e)
      PROVE  Keeps(d, Stored(d, [EnsureService(d) EXCEPT !.labels = p]))
  <2>. DEFINE new == [EnsureService(d) EXCEPT !.labels = p]
  <2>1. GoodService(new) /\ new.key = EnsureService(d).key
    BY <1>1, <1>3, ServiceWith
  <2>. HIDE DEF new
  <2>2. Keeps(d, Stored(d, new))
    BY <2>1, StoredKeeps
  <2>. QED
    BY <2>2 DEF new
<1>. QED
  BY <1>2, <1>3

LEMMA SetEnvKeeps ==
  ASSUME NEW d, Good(d), NEW i \in DOMAIN EnsureService(d).env.e, NEW field \in PairFields, NEW v \in Text
  PROVE  Keeps(d, SetEnvAt(d, i, field, v))
<1>. DEFINE s == EnsureService(d)
           list == [ViewPairs(s.env) EXCEPT ![i][field] = v]
           filled == Where(list, {p \in ToSet(list) : p.key # "" \/ p.val # ""})
           new == IF filled = <<>> THEN NoPairs ELSE Pairs("list", Keyed(filled))
<1>1. s.env \in PairLists
  BY EnvKeeps
<1>2. ViewPairs(s.env) \in Seq(PairT) /\ i \in DOMAIN ViewPairs(s.env)
  BY <1>1, ViewPairsTyped
<1>3. list \in Seq(PairT)
  BY <1>2, SetPairTyped
<1>. HIDE DEF list
<1>4. filled \in Seq(PairT)
  BY <1>3, WhereTyped
<1>. HIDE DEF filled
<1>5. new \in PairLists
  BY <1>4, KeyedTyped, PairsTyped, NoPairsTyped
<1>6. SetEnvAt(d, i, field, v) = Stored(d, [s EXCEPT !.env = new])
  BY DEF SetEnvAt, list, filled
<1>. QED
  BY <1>5, <1>6, EnvKeeps

LEMMA AddEnvKeeps ==
  ASSUME NEW d, Good(d)
  PROVE  Keeps(d, AddEnv(d))
<1>. DEFINE s == EnsureService(d)
           list == IF s.env.form = "list" THEN s.env.e ELSE <<>>
           new == Pairs("list", Append(list, Pair("", "")))
<1>1. list \in Seq(PairT)
  BY EnvKeeps, PairListIs, EmptySeq
<1>2. Append(list, Pair("", "")) \in Seq(PairT)
  <2>1. Pair("", "") \in PairT
    BY TextsAre, PairTyped
  <2>. HIDE DEF list
  <2>. QED
    BY <1>1, <2>1, AppendProperties
<1>3. new \in PairLists
  BY <1>2, PairsTyped
<1>4. AddEnv(d) = Stored(d, [s EXCEPT !.env = new])
  BY DEF AddEnv
<1>. QED
  BY <1>3, <1>4, EnvKeeps

LEMMA RemoveEnvKeeps ==
  ASSUME NEW d, Good(d), NEW i \in DOMAIN EnsureService(d).env.e
  PROVE  Keeps(d, RemoveEnvAt(d, i))
<1>. DEFINE s == EnsureService(d)
           list == RemoveAt(ViewPairs(s.env), i)
           new == IF list = <<>> THEN NoPairs ELSE Pairs("list", Keyed(list))
<1>1. ViewPairs(s.env) \in Seq(PairT) /\ i \in DOMAIN ViewPairs(s.env)
  BY EnvKeeps, ViewPairsTyped
<1>2. list \in Seq(PairT)
  BY <1>1, RemoveAtIs
<1>. HIDE DEF list
<1>3. new \in PairLists
  BY <1>2, KeyedTyped, PairsTyped, NoPairsTyped
<1>4. RemoveEnvAt(d, i) = Stored(d, [s EXCEPT !.env = new])
  BY DEF RemoveEnvAt, list
<1>. QED
  BY <1>3, <1>4, EnvKeeps

LEMMA ObjectTyped ==
  ASSUME NEW list \in Seq(PairT)
  PROVE  /\ Pairs("map", AsObject(list)) \in PairLists /\ Distinct(Pairs("map", AsObject(list)).e)
         /\ LET new == IF list = <<>> THEN NoPairs ELSE Pairs("map", AsObject(list))
            IN  new \in PairLists /\ (new.form = "map" => Distinct(new.e))
<1>1. AsObject(list) \in Seq(PairT) /\ Distinct(AsObject(list))
  BY AsObjectTyped
<1>2. Pairs("map", AsObject(list)) \in PairLists /\ Pairs("map", AsObject(list)).e = AsObject(list)
  BY <1>1, PairsTyped
<1>. QED
  BY <1>1, <1>2, NoPairsTyped

LEMMA SetLabelKeeps ==
  ASSUME NEW d, Good(d), NEW i \in DOMAIN EnsureService(d).labels.e, NEW field \in PairFields, NEW v \in Text
  PROVE  Keeps(d, SetLabelAt(d, i, field, v))
<1>. DEFINE s == EnsureService(d)
           list == Keyed([ViewPairs(s.labels) EXCEPT ![i][field] = v])
           new == IF list = <<>> THEN NoPairs ELSE Pairs("map", AsObject(list))
<1>1. ViewPairs(s.labels) \in Seq(PairT) /\ i \in DOMAIN ViewPairs(s.labels)
  BY LabelsKeep, ViewPairsTyped
<1>2. list \in Seq(PairT)
  BY <1>1, SetPairTyped, KeyedTyped
<1>. HIDE DEF list
<1>3. new \in PairLists /\ (new.form = "map" => Distinct(new.e))
  BY <1>2, ObjectTyped
<1>4. SetLabelAt(d, i, field, v) = Stored(d, [s EXCEPT !.labels = new])
  BY DEF SetLabelAt, list
<1>. HIDE DEF new
<1>. QED
  BY <1>3, <1>4, LabelsKeep

LEMMA AddLabelKeeps ==
  ASSUME NEW d, Good(d), Len(EnsureService(d).labels.e) < MaxRows
  PROVE  Keeps(d, AddLabel(d))
<1>. DEFINE s == EnsureService(d)
           list == IF s.labels.form = "map" THEN s.labels.e ELSE <<>>
           pair == Pair(NewLabel(Len(list)), "")
           new == Pairs("map", AsObject(Append(list, pair)))
<1>1. s.labels.e \in Seq(PairT)
  BY LabelsKeep, PairListIs
<1>2. list \in Seq(PairT) /\ Len(list) \in 0..MaxRows
  <2>1. Len(s.labels.e) \in Nat /\ MaxRows \in Nat
    BY <1>1, LenProperties, DocConstantsOK
  <2>2. Len(s.labels.e) \in 0..MaxRows /\ 0 \in 0..MaxRows
    BY <2>1
  <2>. QED
    BY <1>1, <2>2, EmptySeq
<1>. HIDE DEF list
<1>3. pair \in PairT
  BY <1>2, TextsAre, PairTyped, DocConstantsOK
<1>. HIDE DEF pair
<1>4. Append(list, pair) \in Seq(PairT)
  BY <1>2, <1>3, AppendProperties
<1>5. new \in PairLists /\ (new.form = "map" => Distinct(new.e))
  BY <1>4, ObjectTyped
<1>6. AddLabel(d) = Stored(d, [s EXCEPT !.labels = new])
  BY DEF AddLabel, list, pair
<1>. HIDE DEF new
<1>. QED
  BY <1>5, <1>6, LabelsKeep

LEMMA RemoveLabelKeeps ==
  ASSUME NEW d, Good(d), NEW i \in DOMAIN EnsureService(d).labels.e
  PROVE  Keeps(d, RemoveLabelAt(d, i))
<1>. DEFINE s == EnsureService(d)
           list == RemoveAt(ViewPairs(s.labels), i)
           new == IF list = <<>> THEN NoPairs ELSE Pairs("map", AsObject(list))
<1>1. ViewPairs(s.labels) \in Seq(PairT) /\ i \in DOMAIN ViewPairs(s.labels)
  BY LabelsKeep, ViewPairsTyped
<1>2. list \in Seq(PairT)
  BY <1>1, RemoveAtIs
<1>. HIDE DEF list
<1>3. new \in PairLists /\ (new.form = "map" => Distinct(new.e))
  BY <1>2, ObjectTyped
<1>4. RemoveLabelAt(d, i) = Stored(d, [s EXCEPT !.labels = new])
  BY DEF RemoveLabelAt, list
<1>. HIDE DEF new
<1>. QED
  BY <1>3, <1>4, LabelsKeep

LEMMA ServicesKeep ==
  ASSUME NEW d, Good(d), NEW new \in Seq(Services), Distinct(new),
         \A i \in DOMAIN new : GoodService(new[i])
  PROVE  Keeps(d, [d EXCEPT !.services = new])
<1>1. /\ d = [name |-> d.name, icon |-> d.icon, ext |-> d.ext, services |-> d.services]
      /\ d.ext \in [ToSet(ExtKeys) -> Exts]
  BY GoodIs
<1>. DEFINE w == [d EXCEPT !.services = new]
<1>2. /\ w = [name |-> w.name, icon |-> w.icon, ext |-> w.ext, services |-> w.services]
      /\ w.ext = d.ext /\ w.services = new
  BY <1>1
<1>. HIDE DEF w
<1>3. Good(w)
  BY <1>1, <1>2, GoodIs
<1>4. Keeps(d, w)
  BY <1>2, <1>3 DEF Keeps
<1>. QED
  BY <1>4 DEF w

LEMMA NameKeeps ==
  ASSUME NEW d, Good(d), NEW v
  PROVE  Keeps(d, SetProjectName(d, v)) /\ Keeps(d, SetIcon(d, v))
<1>1. /\ d = [name |-> d.name, icon |-> d.icon, ext |-> d.ext, services |-> d.services]
      /\ d.ext \in [ToSet(ExtKeys) -> Exts] /\ d.services \in Seq(Services)
      /\ Distinct(d.services) /\ \A i \in DOMAIN d.services : GoodService(d.services[i])
  BY GoodIs
<1>2. ASSUME NEW w, w = [d EXCEPT !.name = v] \/ w = [d EXCEPT !.icon = v]
      PROVE  Keeps(d, w)
  <2>1. /\ w = [name |-> w.name, icon |-> w.icon, ext |-> w.ext, services |-> w.services]
        /\ w.ext = d.ext /\ w.services = d.services
    BY <1>1, <1>2
  <2>2. Good(w)
    BY <1>1, <2>1, GoodIs
  <2>. QED
    BY <2>1, <2>2 DEF Keeps
<1>. QED
  BY <1>2 DEF SetProjectName, SetIcon

LEMMA ConsIs ==
  ASSUME NEW T, NEW x \in T, NEW w \in Seq(T)
  PROVE  /\ <<x>> \o w \in Seq(T) /\ DOMAIN (<<x>> \o w) = 1..(Len(w) + 1)
         /\ (<<x>> \o w)[1] = x /\ \A j \in DOMAIN w : (<<x>> \o w)[j + 1] = w[j]
<1>1. <<x>> \in Seq(T) /\ Len(<<x>>) = 1 /\ <<x>>[1] = x
  OBVIOUS
<1>. DEFINE u == <<x>>
<1>2. u \in Seq(T) /\ Len(u) = 1 /\ u[1] = x
  BY <1>1
<1>. HIDE DEF u
<1>3. Len(w) \in Nat /\ DOMAIN w = 1..Len(w)
  BY LenProperties
<1>4. /\ u \o w \in Seq(T) /\ Len(u \o w) = Len(u) + Len(w)
      /\ \A i \in 1..(Len(u) + Len(w)) : (u \o w)[i] = IF i <= Len(u) THEN u[i] ELSE w[i - Len(u)]
  BY <1>2, ConcatProperties
<1>5. DOMAIN (u \o w) = 1..(Len(w) + 1)
  BY <1>2, <1>3, <1>4, LenProperties
<1>6. (u \o w)[1] = x
  BY <1>2, <1>3, <1>4
<1>7. \A j \in DOMAIN w : (u \o w)[j + 1] = w[j]
  <2>. SUFFICES ASSUME NEW j \in 1..Len(w) PROVE (u \o w)[j + 1] = w[j]
    BY <1>3
  <2>1. j + 1 \in 1..(Len(u) + Len(w)) /\ ~(j + 1 <= Len(u)) /\ j + 1 - Len(u) = j
    BY <1>2, <1>3
  <2>. QED
    BY <1>4, <2>1
<1>. QED
  BY <1>4, <1>5, <1>6, <1>7 DEF u

LEMMA ConsDistinct ==
  ASSUME NEW T, NEW x \in T, NEW w \in Seq(T), Distinct(w), \A j \in DOMAIN w : w[j].key # x.key
  PROVE  Distinct(<<x>> \o w)
<1>. DEFINE u == <<x>> \o w
<1>1. DOMAIN u = 1..(Len(w) + 1) /\ u[1] = x /\ \A j \in DOMAIN w : u[j + 1] = w[j]
  BY ConsIs
<1>2. Len(w) \in Nat /\ DOMAIN w = 1..Len(w)
  BY LenProperties
<1>. HIDE DEF u
<1>3. ASSUME NEW i \in DOMAIN u, i # 1
      PROVE  i - 1 \in DOMAIN w /\ u[i] = w[i - 1] /\ u[i].key # x.key
  <2>1. i - 1 \in DOMAIN w /\ i - 1 + 1 = i
    BY <1>1, <1>2, <1>3
  <2>. QED
    BY <1>1, <2>1
<1>4. ASSUME NEW i \in DOMAIN u, NEW j \in DOMAIN u, u[i].key = u[j].key PROVE i = j
  <2>1. CASE i = 1 \/ j = 1
    BY <1>1, <1>3, <1>4, <2>1
  <2>2. CASE i # 1 /\ j # 1
    <3>1. i - 1 = j - 1
      BY <1>3, <1>4, <2>2 DEF Distinct
    <3>. QED
      BY <1>1, <1>2, <3>1
  <2>. QED
    BY <2>1, <2>2
<1>. QED
  BY <1>4 DEF Distinct, u

LEMMA FirstIs ==
  ASSUME NEW T, NEW s \in Seq(T), s # <<>>
  PROVE  DOMAIN s = 1..Len(s) /\ Len(s) \in Nat /\ 1 \in DOMAIN s /\ s[1] \in T
BY EmptySeq, LenProperties, ElementOfSeq

LEMMA SetServiceKeeps ==
  ASSUME NEW d, Good(d), NEW k \in Text
  PROVE  Keeps(d, SetServiceName(d, k))
<1>. DEFINE all == d.services
           others == Tail(all)
           clash == {i \in DOMAIN others : others[i].key = k}
           first == IF clash = {} THEN [all[1] EXCEPT !.key = k] ELSE others[CHOOSE i \in clash : TRUE]
           rest == Where(others, {s \in ToSet(others) : s.key # k})
<1>1. all \in Seq(Services) /\ Distinct(all) /\ \A i \in DOMAIN all : GoodService(all[i])
  BY GoodIs
<1>2. CASE all = <<>> \/ all[1].key = ""
  <2>1. SetServiceName(d, k) = [d EXCEPT !.services = <<Blank(k)>>]
    BY <1>2 DEF SetServiceName
  <2>. DEFINE b == Blank(k)
  <2>2. GoodService(b) /\ b \in Services
    BY BlankGood DEF GoodService
  <2>. HIDE DEF b
  <2>3. <<b>> \in Seq(Services) /\ DOMAIN <<b>> = {1} /\ <<b>>[1] = b
    BY <2>2
  <2>4. Distinct(<<b>>) /\ \A i \in DOMAIN <<b>> : GoodService(<<b>>[i])
    BY <2>2, <2>3 DEF Distinct
  <2>5. Keeps(d, [d EXCEPT !.services = <<b>>])
    BY <2>3, <2>4, ServicesKeep
  <2>. QED
    BY <2>1, <2>5 DEF b
<1>3. CASE all # <<>> /\ all[1].key # "" /\ k = all[1].key
  BY <1>3 DEF SetServiceName, Keeps
<1>4. CASE all # <<>> /\ all[1].key # "" /\ k # all[1].key
  <2>1. SetServiceName(d, k) = [d EXCEPT !.services = <<first>> \o rest]
    BY <1>4 DEF SetServiceName
  <2>2. DOMAIN all = 1..Len(all) /\ Len(all) \in Nat /\ 1 \in DOMAIN all
    BY <1>1, <1>4, FirstIs
  <2>3. others \in Seq(Services) /\ Len(others) = Len(all) - 1
        /\ \A i \in 1..Len(others) : others[i] = all[i + 1]
    BY <1>1, <1>4, HeadTailProperties
  <2>. HIDE DEF all, others
  <2>4. DOMAIN others = 1..Len(others)
    BY <2>3, LenProperties
  <2>5. ASSUME NEW i \in DOMAIN others
        PROVE  i + 1 \in DOMAIN all /\ others[i] = all[i + 1] /\ GoodService(others[i])
    <3>1. i + 1 \in DOMAIN all
      BY <2>2, <2>3, <2>4
    <3>. QED
      BY <1>1, <2>3, <2>4, <3>1
  <2>6. Distinct(others)
    <3>. SUFFICES ASSUME NEW i \in DOMAIN others, NEW j \in DOMAIN others, others[i].key = others[j].key
                  PROVE  i = j
      BY DEF Distinct
    <3>1. i + 1 = j + 1
      BY <1>1, <2>5 DEF Distinct
    <3>. QED
      BY <2>2, <2>3, <2>4, <3>1
  <2>7. GoodService(first) /\ first.key = k
    <3>1. CASE clash = {}
      BY <1>1, <2>2, <3>1, ServiceWith
    <3>2. CASE clash # {}
      <4>1. (CHOOSE i \in clash : TRUE) \in clash
        BY <3>2
      <4>. QED
        BY <2>5, <3>2, <4>1
    <3>. QED
      BY <3>1, <3>2
  <2>. DEFINE S == {s \in ToSet(others) : s.key # k}
  <2>8. rest \in Seq(Services \cap S) /\ Distinct(rest)
    BY <2>3, <2>6, WhereIs, WhereDistinct
  <2>9. ASSUME NEW j \in DOMAIN rest PROVE GoodService(rest[j]) /\ rest[j].key # k
    <3>1. rest[j] \in S
      <4>. HIDE DEF rest, S
      <4>1. rest[j] \in Services \cap S
        BY <2>8, LenProperties, ElementOfSeq
      <4>. QED
        BY <4>1
    <3>2. PICK i \in DOMAIN others : rest[j] = others[i]
      BY <3>1 DEF ToSet
    <3>. QED
      BY <2>5, <3>1, <3>2
  <2>10. rest \in Seq(Services)
    BY <2>3, WhereTyped
  <2>. HIDE DEF rest, first
  <2>11. first \in Services
    BY <2>7 DEF GoodService
  <2>. DEFINE new == <<first>> \o rest
  <2>12. new \in Seq(Services) /\ Distinct(new)
    BY <2>7, <2>8, <2>9, <2>10, <2>11, ConsIs, ConsDistinct
  <2>13. \A i \in DOMAIN new : GoodService(new[i])
    <3>. SUFFICES ASSUME NEW i \in DOMAIN new PROVE GoodService(new[i])
      OBVIOUS
    <3>1. DOMAIN new = 1..(Len(rest) + 1) /\ new[1] = first /\ \A j \in DOMAIN rest : new[j + 1] = rest[j]
      BY <2>10, <2>11, ConsIs
    <3>2. Len(rest) \in Nat /\ DOMAIN rest = 1..Len(rest)
      BY <2>10, LenProperties
    <3>. HIDE DEF new
    <3>3. i # 1 => i - 1 \in DOMAIN rest /\ i - 1 + 1 = i
      BY <3>1, <3>2
    <3>. QED
      BY <2>7, <2>9, <3>1, <3>3
  <2>. HIDE DEF new
  <2>14. Keeps(d, [d EXCEPT !.services = new])
    BY <2>12, <2>13, ServicesKeep
  <2>. QED
    BY <2>1, <2>14 DEF new
<1>. QED
  BY <1>2, <1>3, <1>4

\* An extension mapping that is not there holds nothing.
LEMMA ExtIs ==
  ASSUME NEW x \in Exts
  PROVE  /\ x.on \in BOOLEAN /\ x.port \in Text /\ x.id \in BOOLEAN /\ x.rest \in BOOLEAN
         /\ x = [on |-> x.on, port |-> x.port, id |-> x.id, rest |-> x.rest]
         /\ ~x.on => x.port = Absent /\ x.id = FALSE /\ x.rest = FALSE
<1>1. CASE x = NoExt
  BY <1>1, TextsAre, Zenon DEF NoExt
<1>2. CASE x # NoExt
  BY <1>2 DEF Exts
<1>. QED
  BY <1>1, <1>2

LEMMA ExtTyped ==
  /\ NoExt \in Exts /\ NoExt.on = FALSE /\ NoExt.id = FALSE
  /\ \A p \in Text, i, r \in BOOLEAN : [on |-> TRUE, port |-> p, id |-> i, rest |-> r] \in Exts
BY DEF Exts, NoExt

LEMMA ExtWith ==
  ASSUME NEW x, x = [on |-> x.on, port |-> x.port, id |-> x.id, rest |-> x.rest], NEW v
  PROVE  /\ [x EXCEPT !.on = v] = [on |-> v, port |-> x.port, id |-> x.id, rest |-> x.rest]
         /\ [x EXCEPT !.port = v] = [on |-> x.on, port |-> v, id |-> x.id, rest |-> x.rest]
         /\ [x EXCEPT !.id = v] = [on |-> x.on, port |-> x.port, id |-> v, rest |-> x.rest]
OBVIOUS

LEMMA WebPortKeeps ==
  ASSUME NEW d, Good(d), NEW v \in Text
  PROVE  Keeps(d, SetWebPort(d, v))
<1>. DEFINE x == d.ext["x-powerlab"]
           moved == [x EXCEPT !.port = v]
           keep == v # "" \/ moved.id \/ moved.rest
           put == IF keep THEN [moved EXCEPT !.on = TRUE] ELSE NoExt
           w == [d EXCEPT !.ext["x-powerlab"] = put]
<1>1. /\ d = [name |-> d.name, icon |-> d.icon, ext |-> d.ext, services |-> d.services]
      /\ d.ext \in [ToSet(ExtKeys) -> Exts] /\ d.services \in Seq(Services)
      /\ Distinct(d.services) /\ \A i \in DOMAIN d.services : GoodService(d.services[i])
  BY GoodIs
<1>2. "x-powerlab" \in ToSet(ExtKeys)
  BY ExtKeySet
<1>3. x \in Exts
  BY <1>1, <1>2
<1>4. put \in Exts /\ (~x.id => ~put.id)
  <2>. DEFINE on == [moved EXCEPT !.on = TRUE]
  <2>1. x.id \in BOOLEAN /\ x.rest \in BOOLEAN
        /\ x = [on |-> x.on, port |-> x.port, id |-> x.id, rest |-> x.rest]
    BY <1>3, ExtIs
  <2>. HIDE DEF x
  <2>2. on = [on |-> TRUE, port |-> v, id |-> x.id, rest |-> x.rest]
    <3>1. moved = [on |-> x.on, port |-> v, id |-> x.id, rest |-> x.rest]
      BY <2>1, ExtWith
    <3>. HIDE DEF moved
    <3>2. moved.on = x.on /\ moved.port = v /\ moved.id = x.id /\ moved.rest = x.rest
      BY <3>1
    <3>3. moved = [on |-> moved.on, port |-> moved.port, id |-> moved.id, rest |-> moved.rest]
      BY <3>1, <3>2, Zenon
    <3>4. on = [on |-> TRUE, port |-> moved.port, id |-> moved.id, rest |-> moved.rest]
      BY <3>3, ExtWith, Zenon
    <3>. QED
      BY <3>2, <3>4, Zenon
  <2>3. on \in Exts /\ on.id = x.id
    <3>1. [on |-> TRUE, port |-> v, id |-> x.id, rest |-> x.rest] \in Exts
      BY <2>1, ExtTyped, Zenon
    <3>. QED
      BY <2>2, <3>1
  <2>4. put = on \/ put = NoExt
    OBVIOUS
  <2>. HIDE DEF on, put
  <2>. QED
    BY <2>3, <2>4, ExtTyped
<1>5. SetWebPort(d, v) = w
  BY DEF SetWebPort
<1>. HIDE DEF put
<1>6. /\ w = [name |-> w.name, icon |-> w.icon, ext |-> w.ext, services |-> w.services]
      /\ w.ext = [d.ext EXCEPT !["x-powerlab"] = put] /\ w.services = d.services
  BY <1>1
<1>7. w.ext \in [ToSet(ExtKeys) -> Exts]
  BY <1>1, <1>2, <1>4, <1>6
<1>8. \A k \in ToSet(ExtKeys) : w.ext[k] = IF k = "x-powerlab" THEN put ELSE d.ext[k]
  BY <1>1, <1>6
<1>. HIDE DEF w
<1>9. Good(w)
  BY <1>1, <1>6, <1>7, GoodIs
<1>. QED
  BY <1>2, <1>4, <1>5, <1>8, <1>9 DEF Keeps

----------------------------------------------------------------------------
(* The edits on offer, and every step.                                      *)

\* A text of the session: what it said when it last parsed is well formed.
GoodText(t) ==
    /\ t = [valid |-> t.valid, doc |-> t.doc] /\ t.valid \in BOOLEAN /\ Good(t.doc)

NoId(d) == \A k \in ToSet(ExtKeys) : ~d.ext[k].id

LEMMA LoadGood ==
  ASSUME NEW t, GoodText(t)
  PROVE  Good(LoadDoc(t)) /\ (NoId(t.doc) => NoId(LoadDoc(t)))
BY EmptyGood DEF GoodText, LoadDoc, NoId

\* The rows the form shows are those of the first service.
LEMMA ShownRows ==
  ASSUME NEW t, GoodText(t)
  PROVE  LET d == LoadDoc(t)
             v == ViewFromYaml(t)
         IN  /\ \A kind \in EntryKinds : DOMAIN v.rows[kind] # {} =>
                  /\ d.services # <<>> /\ d.services[1].key # ""
                  /\ DOMAIN v.rows[kind] = DOMAIN EnsureService(d).rows[kind]
             /\ DOMAIN v.env # {} =>
                  /\ d.services # <<>> /\ d.services[1].key # ""
                  /\ v.env = ViewPairs(EnsureService(d).env) /\ DOMAIN v.env = DOMAIN EnsureService(d).env.e
             /\ DOMAIN v.labels # {} => DOMAIN v.labels = DOMAIN EnsureService(d).labels.e
<1>. DEFINE d == LoadDoc(t)
           v == ViewFromYaml(t)
           shown == d.services # <<>> /\ d.services[1].key # ""
           s == IF shown THEN d.services[1] ELSE Blank("")
<1>1. /\ v.rows = [kind \in EntryKinds |-> [i \in DOMAIN s.rows[kind] |-> EntryView(kind, s.rows[kind][i])]]
      /\ v.env = ViewPairs(s.env) /\ v.labels = ViewPairs(s.labels)
  BY DEF ViewFromYaml
<1>2. Good(d)
  BY LoadGood
<1>3. CASE shown
  <2>1. s = EnsureService(d) /\ d.services # <<>> /\ d.services[1].key # ""
    BY <1>3 DEF EnsureService
  <2>2. s.env \in PairLists /\ s.labels \in PairLists
    BY <1>2, <2>1, EnvKeeps, LabelsKeep
  <2>. HIDE DEF s, v, d, shown
  <2>3. \A kind \in EntryKinds : DOMAIN v.rows[kind] = DOMAIN s.rows[kind]
    BY <1>1
  <2>4. DOMAIN v.env = DOMAIN s.env.e /\ DOMAIN v.labels = DOMAIN s.labels.e
    BY <1>1, <2>2, ViewPairsTyped
  <2>. QED
    BY <1>1, <2>1, <2>3, <2>4 DEF v, d
<1>4. CASE ~shown
  <2>1. s = Blank("")
    BY <1>4
  <2>2. /\ \A kind \in EntryKinds : s.rows[kind] = <<>>
        /\ s.env = NoPairs /\ s.labels = NoPairs
    <3>1. \A kind \in EntryKinds : Blank("").rows[kind] = <<>>
      BY DEF Blank
    <3>2. Blank("").env = NoPairs /\ Blank("").labels = NoPairs
      BY DEF Blank
    <3>. HIDE DEF s
    <3>. QED
      BY <2>1, <3>1, <3>2
  <2>3. DOMAIN ViewPairs(NoPairs) = {}
    BY NoPairsTyped, EmptySeq, LenProperties DEF ViewPairs
  <2>. HIDE DEF s, v, d, shown
  <2>4. \A kind \in EntryKinds : DOMAIN v.rows[kind] = {}
    BY <1>1, <2>2
  <2>. QED
    BY <1>1, <2>2, <2>3, <2>4 DEF v
<1>. QED
  BY <1>3, <1>4

\* What an edit of each operation may carry.
LEMMA EditIs ==
  ASSUME NEW t, GoodText(t), NEW e \in EditsOf(t)
  PROVE  LET d == LoadDoc(t)
             s == EnsureService(d)
         IN  \/ e.op \in {"project", "icon"}
             \/ e.op = "web" /\ e.v \in Text
             \/ e.op = "service" /\ e.v \in Text
             \/ e.op = "scalar" /\ e.f \in Scalars /\ e.v \in Text
             \/ e.op = "mem" /\ e.mb \in Nat /\ e.mb # 0
             \/ e.op = "add" /\ e.kind \in EntryKinds
             \/ e.op = "set" /\ e.kind \in EntryKinds /\ e.i \in DOMAIN s.rows[e.kind]
                  /\ e.field \in Fields /\ e.v \in Text /\ e.i \in DOMAIN ViewFromYaml(t).rows[e.kind]
             \/ e.op = "remove" /\ e.kind \in EntryKinds /\ d.services # <<>> /\ e.i \in DOMAIN s.rows[e.kind]
             \/ e.op = "addEnv"
             \/ e.op = "setEnv" /\ e.i \in DOMAIN s.env.e /\ e.field \in PairFields /\ e.v \in Text
                  /\ e.i \in DOMAIN ViewFromYaml(t).env /\ e.v \in Input
             \/ e.op = "removeEnv" /\ e.i \in DOMAIN s.env.e
             \/ e.op = "addLabel" /\ Len(s.labels.e) < MaxRows
             \/ e.op = "setLabel" /\ e.i \in DOMAIN s.labels.e /\ e.field \in PairFields /\ e.v \in Text
                  /\ e.v \in Input
             \/ e.op = "removeLabel" /\ e.i \in DOMAIN s.labels.e
<1>. DEFINE d == LoadDoc(t)
           s == EnsureService(d)
           v == ViewFromYaml(t)
<1>1. (\A x \in Input : x \in Text) /\ (\A k \in ServiceKeys \cup {""} : k \in Text)
      /\ \A x \in Vals : x \in Text
  BY TextsAre DEF Input
<1>2. /\ \A kind \in EntryKinds : DOMAIN v.rows[kind] # {} =>
           d.services # <<>> /\ DOMAIN v.rows[kind] = DOMAIN s.rows[kind]
      /\ DOMAIN v.env # {} => DOMAIN v.env = DOMAIN s.env.e
      /\ DOMAIN v.labels # {} => DOMAIN v.labels = DOMAIN s.labels.e
  BY ShownRows
<1>. HIDE DEF d, s, v
<1>3. e \in IdentityEdits \cup NetworkEdits \cup PortEdits(v) \cup VolumeEdits(v) \cup DeviceEdits(v)
           \cup ExecutionEdits \cup EnvEdits(v) \cup LabelEdits(v, s)
  BY Zenon DEF EditsOf, v, s, d
<1>. DEFINE Row ==
             \/ e.op = "add" /\ e.kind \in EntryKinds
             \/ e.op = "set" /\ e.kind \in EntryKinds /\ e.i \in DOMAIN s.rows[e.kind]
                  /\ e.field \in Fields /\ e.v \in Text /\ e.i \in DOMAIN v.rows[e.kind]
             \/ e.op = "remove" /\ e.kind \in EntryKinds /\ d.services # <<>> /\ e.i \in DOMAIN s.rows[e.kind]
<1>4. ASSUME NEW kind \in EntryKinds, e \in RowEdits(kind, v.rows[kind]) PROVE Row
  <2>1. DOMAIN v.rows[kind] # {} => d.services # <<>> /\ DOMAIN v.rows[kind] = DOMAIN s.rows[kind]
    BY <1>2
  <2>2. CASE e \in [op : {"add"}, kind : {kind}]
    BY <2>2
  <2>3. CASE e \in [op : {"set"}, kind : {kind}, i : DOMAIN v.rows[kind], field : Fields, v : Input]
    BY <1>1, <2>1, <2>3
  <2>4. CASE e \in [op : {"remove"}, kind : {kind}, i : DOMAIN v.rows[kind]]
    BY <2>1, <2>4
  <2>. QED
    BY <1>4, <2>2, <2>3, <2>4 DEF RowEdits
<1>5. CASE e \in IdentityEdits \cup NetworkEdits
  BY <1>1, <1>5 DEF IdentityEdits, NetworkEdits, Only
<1>6. CASE e \in PortEdits(v) \cup VolumeEdits(v) \cup DeviceEdits(v)
  <2>1. \E kind \in EntryKinds : e \in RowEdits(kind, v.rows[kind])
    BY <1>6 DEF PortEdits, VolumeEdits, DeviceEdits
  <2>2. Row
    BY <1>4, <2>1
  <2>. QED
    BY <2>2 DEF d, s, v
<1>7. CASE e \in ExecutionEdits
  <2>1. CASE e \in [op : {"mem"}, mb : {256}]
    BY <2>1
  <2>2. CASE e \notin [op : {"mem"}, mb : {256}]
    <3>1. e.op = "scalar" /\ e.f \in Scalars /\ e.v \in Input \cup Vals
      BY <1>7, <2>2 DEF ExecutionEdits, Only
    <3>. QED
      BY <1>1, <3>1
  <2>. QED
    BY <2>1, <2>2
<1>8. CASE e \in EnvEdits(v)
  <2>1. CASE e \in [op : {"addEnv"}]
    BY <2>1
  <2>2. CASE e \in [op : {"setEnv"}, i : DOMAIN v.env, field : PairFields, v : Input]
    BY <1>1, <1>2, <2>2 DEF d, s, v
  <2>3. CASE e \in [op : {"removeEnv"}, i : DOMAIN v.env]
    BY <1>2, <2>3 DEF d, s, v
  <2>. QED
    BY <1>8, <2>1, <2>2, <2>3 DEF EnvEdits
<1>9. CASE e \in LabelEdits(v, s)
  <2>1. CASE Len(s.labels.e) < MaxRows /\ e \in [op : {"addLabel"}]
    BY <2>1 DEF d, s
  <2>2. CASE e \in [op : {"setLabel"}, i : DOMAIN v.labels, field : PairFields, v : Input]
    BY <1>1, <1>2, <2>2 DEF d, s, v
  <2>3. CASE e \in [op : {"removeLabel"}, i : DOMAIN v.labels]
    BY <1>2, <2>3 DEF d, s, v
  <2>. QED
    BY <1>9, <2>1, <2>2, <2>3 DEF LabelEdits
<1>. QED
  BY <1>3, <1>5, <1>6, <1>7, <1>8, <1>9

LEMMA ApplyKeeps ==
  ASSUME NEW t, GoodText(t), NEW e \in EditsOf(t)
  PROVE  Keeps(LoadDoc(t), Apply(e, LoadDoc(t)))
<1>. DEFINE d == LoadDoc(t)
           s == EnsureService(d)
<1>1. Good(d)
  BY LoadGood
<1>2. \/ e.op \in {"project", "icon"}
      \/ e.op = "web" /\ e.v \in Text
      \/ e.op = "service" /\ e.v \in Text
      \/ e.op = "scalar" /\ e.f \in Scalars /\ e.v \in Text
      \/ e.op = "mem" /\ e.mb \in Nat
      \/ e.op = "add" /\ e.kind \in EntryKinds
      \/ e.op = "set" /\ e.kind \in EntryKinds /\ e.i \in DOMAIN s.rows[e.kind]
           /\ e.field \in Fields /\ e.v \in Text
      \/ e.op = "remove" /\ e.kind \in EntryKinds /\ d.services # <<>> /\ e.i \in DOMAIN s.rows[e.kind]
      \/ e.op = "addEnv"
      \/ e.op = "setEnv" /\ e.i \in DOMAIN s.env.e /\ e.field \in PairFields /\ e.v \in Text
      \/ e.op = "removeEnv" /\ e.i \in DOMAIN s.env.e
      \/ e.op = "addLabel" /\ Len(s.labels.e) < MaxRows
      \/ e.op = "setLabel" /\ e.i \in DOMAIN s.labels.e /\ e.field \in PairFields /\ e.v \in Text
      \/ e.op = "removeLabel" /\ e.i \in DOMAIN s.labels.e
  BY EditIs
<1>. SUFFICES Keeps(d, Apply(e, d))
  OBVIOUS
<1>. HIDE DEF d
<1>3. CASE e.op \in {"project", "icon"}
  BY <1>1, <1>3, NameKeeps DEF Apply
<1>4. CASE e.op = "web" /\ e.v \in Text
  BY <1>1, <1>4, WebPortKeeps DEF Apply
<1>5. CASE e.op = "service" /\ e.v \in Text
  BY <1>1, <1>5, SetServiceKeeps DEF Apply
<1>6. CASE e.op = "scalar" /\ e.f \in Scalars /\ e.v \in Text
  BY <1>1, <1>6, ScalarKeeps DEF Apply
<1>7. CASE e.op = "mem" /\ e.mb \in Nat
  BY <1>1, <1>7, MemKeeps DEF Apply
<1>8. CASE e.op = "add" /\ e.kind \in EntryKinds
  BY <1>1, <1>8, AddEntryKeeps DEF Apply
<1>9. CASE e.op = "set" /\ e.kind \in EntryKinds /\ e.i \in DOMAIN s.rows[e.kind]
           /\ e.field \in Fields /\ e.v \in Text
  BY <1>1, <1>9, SetEntryKeeps DEF Apply
<1>10. CASE e.op = "remove" /\ e.kind \in EntryKinds /\ d.services # <<>> /\ e.i \in DOMAIN s.rows[e.kind]
  <2>1. e.i \in DOMAIN d.services[1].rows[e.kind]
    BY <1>10 DEF EnsureService
  <2>. QED
    BY <1>1, <1>10, <2>1, RemoveEntryKeeps DEF Apply
<1>11. CASE e.op = "addEnv"
  BY <1>1, <1>11, AddEnvKeeps DEF Apply
<1>12. CASE e.op = "setEnv" /\ e.i \in DOMAIN s.env.e /\ e.field \in PairFields /\ e.v \in Text
  BY <1>1, <1>12, SetEnvKeeps DEF Apply
<1>13. CASE e.op = "removeEnv" /\ e.i \in DOMAIN s.env.e
  BY <1>1, <1>13, RemoveEnvKeeps DEF Apply
<1>14. CASE e.op = "addLabel" /\ Len(s.labels.e) < MaxRows
  BY <1>1, <1>14, AddLabelKeeps DEF Apply
<1>15. CASE e.op = "setLabel" /\ e.i \in DOMAIN s.labels.e /\ e.field \in PairFields /\ e.v \in Text
  BY <1>1, <1>15, SetLabelKeeps DEF Apply
<1>16. CASE e.op = "removeLabel" /\ e.i \in DOMAIN s.labels.e
  BY <1>1, <1>16, RemoveLabelKeeps DEF Apply
<1>. QED
  BY <1>2, <1>3, <1>4, <1>5, <1>6, <1>7, <1>8, <1>9, <1>10, <1>11, <1>12, <1>13, <1>14, <1>15, <1>16

----------------------------------------------------------------------------
(* A fork stays the user's own.                                             *)

LEMMA ReadIs ==
  ASSUME NEW d
  PROVE  \/ ReadExt(d).key = "" /\ ReadExt(d).ext = NoExt
         \/ ReadExt(d).key \in ToSet(ExtKeys) /\ ReadExt(d).ext = d.ext[ReadExt(d).key]
<1>. DEFINE S == {k \in ToSet(ExtKeys) : d.ext[k].on}
           on == Where(ExtKeys, S)
<1>1. CASE on = <<>>
  BY <1>1 DEF ReadExt
<1>2. CASE on # <<>>
  <2>1. on[1] \in ToSet(ExtKeys)
    <3>. HIDE DEF S
    <3>1. on[1] \in ToSet(ExtKeys) \cap S
      BY <1>2, ExtKeySet, WhereEmpty
    <3>. QED
      BY <3>1
  <2>2. ReadExt(d) = [key |-> on[1], ext |-> d.ext[on[1]]]
    BY <1>2 DEF ReadExt
  <2>. DEFINE k == on[1]
  <2>3. k \in ToSet(ExtKeys) /\ ReadExt(d) = [key |-> k, ext |-> d.ext[k]]
    BY <2>1, <2>2
  <2>. HIDE DEF k
  <2>4. ReadExt(d).key = k /\ ReadExt(d).ext = d.ext[k]
    BY <2>3
  <2>. QED
    BY <2>3, <2>4
<1>. QED
  BY <1>1, <1>2

LEMMA ForkGood ==
  ASSUME NEW d, Good(d), \A k \in ToSet(ExtKeys) : d.ext[k].id => k = ReadExt(d).key
  PROVE  Good(ForkDoc(d)) /\ NoId(ForkDoc(d))
<1>. DEFINE k == ReadExt(d).key
           bare == DeleteExtId(d)
<1>1. /\ d = [name |-> d.name, icon |-> d.icon, ext |-> d.ext, services |-> d.services]
      /\ d.ext \in [ToSet(ExtKeys) -> Exts] /\ d.services \in Seq(Services)
      /\ Distinct(d.services) /\ \A i \in DOMAIN d.services : GoodService(d.services[i])
  BY GoodIs
<1>2. Good(bare) /\ NoId(bare)
  <2>1. CASE k = ""
    <3>1. bare = d
      BY <2>1 DEF DeleteExtId
    <3>2. "" \notin ToSet(ExtKeys)
      BY ExtKeySet
    <3>. QED
      BY <2>1, <3>1, <3>2 DEF NoId
  <2>2. CASE k # ""
    <3>1. k \in ToSet(ExtKeys)
      BY <2>2, ReadIs
    <3>. HIDE DEF k
    <3>. DEFINE x == [d.ext[k] EXCEPT !.id = FALSE]
    <3>2. x \in Exts /\ x.id = FALSE
      <4>1. d.ext[k] \in Exts
        BY <1>1, <3>1
      <4>2. CASE d.ext[k] = NoExt
        <5>. DEFINE y == d.ext[k]
        <5>1. y = [on |-> y.on, port |-> y.port, id |-> y.id, rest |-> y.rest] /\ y.id = FALSE
          BY <4>1, <4>2, ExtIs, ExtTyped
        <5>. HIDE DEF y
        <5>2. [y EXCEPT !.id = FALSE] = y
          BY <5>1, ExtWith
        <5>3. x = NoExt
          BY <4>2, <5>2 DEF y
        <5>. QED
          BY <5>3, ExtTyped
      <4>3. CASE d.ext[k] # NoExt
        BY <4>1, <4>3 DEF Exts
      <4>. QED
        BY <4>2, <4>3
    <3>3. [d EXCEPT !.ext[k].id = FALSE] = [d EXCEPT !.ext = [d.ext EXCEPT ![k] = x]]
      OBVIOUS
    <3>4. bare = [d EXCEPT !.ext = [d.ext EXCEPT ![k] = x]]
      BY <2>2, <3>3 DEF DeleteExtId, k
    <3>. HIDE DEF x
    <3>5. /\ bare = [name |-> bare.name, icon |-> bare.icon, ext |-> bare.ext, services |-> bare.services]
          /\ bare.ext = [d.ext EXCEPT ![k] = x] /\ bare.services = d.services
      BY <1>1, <3>4
    <3>6. bare.ext \in [ToSet(ExtKeys) -> Exts]
          /\ \A j \in ToSet(ExtKeys) : bare.ext[j] = IF j = k THEN x ELSE d.ext[j]
      BY <1>1, <3>1, <3>2, <3>5
    <3>. HIDE DEF bare
    <3>7. Good(bare)
      BY <1>1, <3>5, <3>6, GoodIs
    <3>8. NoId(bare)
      BY <3>2, <3>6 DEF NoId, k
    <3>. QED
      BY <3>7, <3>8 DEF bare
  <2>. QED
    BY <2>1, <2>2
<1>. HIDE DEF bare
<1>. DEFINE v == IF bare.name = Absent THEN bare.name ELSE bare.name \o "-custom"
<1>3. ForkDoc(d) = SetProjectName(bare, v)
  BY DEF ForkDoc, SetProjectName, bare
<1>. HIDE DEF v
<1>4. Keeps(bare, SetProjectName(bare, v))
  BY <1>2, NameKeeps
<1>. QED
  BY <1>2, <1>3, <1>4 DEF Keeps, NoId

\* What the session keeps: a fork's store id is in no mapping at all.
DocInv ==
    /\ GoodText(text) /\ fork \in BOOLEAN /\ edits \in 0..MaxEdits
    /\ fork => NoId(text.doc)

LEMMA DocInitInv == DocInit => DocInv
<1>. SUFFICES ASSUME DocInit PROVE DocInv
  OBVIOUS
<1>1. PICK d \in InitialTexts, f \in BOOLEAN :
        /\ text = [valid |-> TRUE, doc |-> IF f THEN ForkDoc(d) ELSE d]
        /\ fork = f /\ edits = 0
  BY DEF DocInit
<1>2. Good(d) /\ \A k \in ToSet(ExtKeys) : d.ext[k].id => k = ReadExt(d).key
  BY TextsOK DEF Good
<1>3. Good(ForkDoc(d)) /\ NoId(ForkDoc(d))
  BY <1>2, ForkGood
<1>4. text.valid = TRUE /\ text.doc = (IF f THEN ForkDoc(d) ELSE d)
      /\ text = [valid |-> text.valid, doc |-> text.doc]
  BY <1>1
<1>5. GoodText(text) /\ (f => NoId(text.doc))
  BY <1>2, <1>3, <1>4 DEF GoodText
<1>6. edits \in 0..MaxEdits
  BY <1>1, BoundsAre
<1>. QED
  BY <1>1, <1>5, <1>6 DEF DocInv

LEMMA FormEditInv == DocInv /\ FormEdit => DocInv'
<1>. SUFFICES ASSUME DocInv, FormEdit PROVE DocInv'
  OBVIOUS
<1>1. GoodText(text) /\ fork \in BOOLEAN /\ edits \in 0..MaxEdits /\ (fork => NoId(text.doc))
  BY DEF DocInv
<1>2. PICK e \in EditsOf(text) : text' = Edited(e, text)
  BY DEF FormEdit
<1>3. edits < MaxEdits /\ edits' = edits + 1 /\ fork' = fork
  BY DEF FormEdit
<1>. DEFINE d == LoadDoc(text)
           new == Apply(e, d)
<1>4. Keeps(d, new)
  BY <1>1, ApplyKeeps
<1>5. NoId(text.doc) => NoId(d)
  BY <1>1, LoadGood
<1>6. text' = [valid |-> TRUE, doc |-> new]
  BY <1>2 DEF Edited
<1>. HIDE DEF d, new
<1>7. text'.valid = TRUE /\ text'.doc = new /\ text' = [valid |-> text'.valid, doc |-> text'.doc]
  BY <1>6
<1>8. GoodText(text') /\ (NoId(text.doc) => NoId(text'.doc))
  BY <1>4, <1>5, <1>7 DEF GoodText, Keeps, NoId
<1>9. edits' \in 0..MaxEdits
  BY <1>1, <1>3, BoundsAre
<1>. QED
  BY <1>1, <1>3, <1>8, <1>9 DEF DocInv

LEMMA TypeTextInv == DocInv /\ TypeText => DocInv'
<1>. SUFFICES ASSUME DocInv, TypeText PROVE DocInv'
  OBVIOUS
<1>1. GoodText(text) /\ fork \in BOOLEAN /\ edits \in 0..MaxEdits /\ (fork => NoId(text.doc))
  BY DEF DocInv
<1>2. edits < MaxEdits /\ edits' = edits + 1 /\ fork' = fork
      /\ text' = [text EXCEPT !.valid = ~@]
  BY DEF TypeText
<1>3. text = [valid |-> text.valid, doc |-> text.doc] /\ text.valid \in BOOLEAN /\ Good(text.doc)
  BY <1>1 DEF GoodText
<1>4. text' = [valid |-> ~text.valid, doc |-> text.doc]
  BY <1>2, <1>3
<1>5. text'.doc = text.doc /\ text'.valid \in BOOLEAN /\ text' = [valid |-> text'.valid, doc |-> text'.doc]
  BY <1>3, <1>4
<1>6. GoodText(text')
  BY <1>3, <1>5 DEF GoodText
<1>7. edits' \in 0..MaxEdits
  BY <1>1, <1>2, BoundsAre
<1>. QED
  BY <1>1, <1>2, <1>5, <1>6, <1>7 DEF DocInv

LEMMA DocInvariant == DocSpec => []DocInv
<1>1. DocInv /\ [DocNext]_docVars => DocInv'
  <2>. SUFFICES ASSUME DocInv, [DocNext]_docVars PROVE DocInv'
    OBVIOUS
  <2>1. CASE UNCHANGED docVars
    BY <2>1 DEF docVars, DocInv
  <2>. QED
    BY <2>1, FormEditInv, TypeTextInv DEF DocNext
<1>. QED
  BY <1>1, DocInitInv, PTL DEF DocSpec

\* Whatever the user edits, in the form or in the text, the document stays one
\* that YAML can hold, and a fork of a store app never reads as that app again
\* (compose-mutate.ts, compose-extension.ts).
THEOREM ForkStaysTheUsers == DocSpec => []ForkIsTheUsers
<1>1. DocInv => ForkIsTheUsers
  <2>. SUFFICES ASSUME DocInv PROVE ForkIsTheUsers
    OBVIOUS
  <2>1. GoodText(text) /\ fork \in BOOLEAN /\ edits \in 0..MaxEdits /\ (fork => NoId(text.doc))
    BY DEF DocInv
  <2>2. DocTypeOK
    BY <2>1 DEF DocTypeOK, GoodText, Good
  <2>3. NoExt.id = FALSE
    BY DEF NoExt
  <2>4. ForkStaysFork
    BY <2>1, <2>3, ReadIs DEF ForkStaysFork, NoId
  <2>. QED
    BY <2>2, <2>4 DEF ForkIsTheUsers
<1>. QED
  BY <1>1, DocInvariant, PTL

----------------------------------------------------------------------------
(* The ports that are asked about.                                          *)

\* The three readings of an entry of the ports list.
LEMMA PortReadings ==
  ASSUME NEW entry \in Entries
  PROVE  /\ EntryMeaning("ports", entry).host = PublishedHostPort(entry)
         /\ entry.form = "long" \/ Len(entry.parts) < 3 =>
              PublishedHostPort(entry) = Absent \/ EntryView("ports", entry).host = PublishedHostPort(entry)
<1>1. CASE entry.form = "long"
  <2>1. EntryMeaning("ports", entry).host = entry.host
    BY <1>1 DEF EntryMeaning
  <2>2. PublishedHostPort(entry) = entry.host
    BY <1>1 DEF PublishedHostPort
  <2>3. EntryView("ports", entry).host = entry.host
    BY <1>1 DEF EntryView
  <2>. QED
    BY <2>1, <2>2, <2>3
<1>2. CASE entry.form # "long"
  <2>. DEFINE n == Len(entry.parts)
  <2>1. entry.form = "short" /\ n \in 1..3
    BY <1>2 DEF Entries
  <2>2. EntryView("ports", entry).host = entry.parts[1]
    BY <1>2, <2>1 DEF EntryView
  <2>3. CASE n = 1
    <3>1. PublishedHostPort(entry) = Absent
      BY <1>2, <2>3 DEF PublishedHostPort
    <3>2. EntryMeaning("ports", entry).host = Absent
      BY <1>2, <2>3 DEF EntryMeaning
    <3>. QED
      BY <3>1, <3>2
  <2>4. CASE n = 2
    <3>1. PublishedHostPort(entry) = entry.parts[1]
      BY <1>2, <2>4 DEF PublishedHostPort
    <3>2. EntryMeaning("ports", entry).host = entry.parts[1]
      BY <1>2, <2>4 DEF EntryMeaning
    <3>. QED
      BY <2>2, <3>1, <3>2
  <2>5. CASE n # 1 /\ n # 2
    <3>1. PublishedHostPort(entry) = entry.parts[2]
      BY <1>2, <2>5 DEF PublishedHostPort
    <3>2. EntryMeaning("ports", entry).host = entry.parts[2]
      BY <1>2, <2>5 DEF EntryMeaning
    <3>3. ~(n < 3)
      <4>1. \A m \in 1..3 : m # 1 /\ m # 2 => ~(m < 3)
        OBVIOUS
      <4>. QED
        BY <2>1, <2>5, <4>1
    <3>. QED
      BY <1>2, <3>1, <3>2, <3>3
  <2>. QED
    BY <2>3, <2>4, <2>5
<1>. QED
  BY <1>1, <1>2

\* The form and an install ask the server about the host ports compose would
\* publish and about no others, whatever was edited (ComposeForm.svelte,
\* composeAnalysis.ts).
THEOREM ProbesStayTrue == DocSpec => []ProbesWhatIsPublished
<1>1. DocInv => ProbesWhatIsPublished
  <2>. SUFFICES ASSUME DocInv PROVE ProbesWhatIsPublished
    OBVIOUS
  <2>1. "ports" \in EntryKinds
    BY DocConstantsOK
  <2>2. text.doc.services \in Seq(Services)
        /\ \A i \in DOMAIN text.doc.services : text.doc.services[i] \in Services
    BY GoodIs DEF DocInv, GoodText, GoodService
  <2>3. ASSUME NEW s \in Services
        PROVE  \A i \in DOMAIN s.rows["ports"] : s.rows["ports"][i] \in Entries
    <3>1. s.rows["ports"] \in Seq(Entries)
      BY <2>1, ServiceIs
    <3>. QED
      BY <3>1, LenProperties, ElementOfSeq
  <2>4. ProbesEveryPublishedPort
    <3>1. ASSUME NEW s \in ToSet(text.doc.services)
          PROVE  {PublishedHostPort(e) : e \in ToSet(s.rows["ports"])}
                   = {EntryMeaning("ports", e).host : e \in ToSet(s.rows["ports"])}
      <4>1. s \in Services
        BY <2>2 DEF ToSet
      <4>2. \A e \in ToSet(s.rows["ports"]) : e \in Entries
        BY <2>3, <4>1 DEF ToSet
      <4>3. \A e \in ToSet(s.rows["ports"]) : EntryMeaning("ports", e).host = PublishedHostPort(e)
        BY <4>2, PortReadings
      <4>. QED
        BY <4>3
    <3>. QED
      BY <3>1 DEF ProbesEveryPublishedPort, RequestedPorts
  <2>5. FormProbesPublished
    <3>. DEFINE v == ViewFromYaml(text)
               s == text.doc.services[1]
               unbound == {e \in ToSet(s.rows["ports"]) : e.form = "long" \/ Len(e.parts) < 3}
    <3>. SUFFICES ASSUME text.valid, v.serviceName # "",
                         NEW e \in unbound, PublishedHostPort(e) # Absent
                  PROVE  PublishedHostPort(e) \in FormProbes(text)
      BY DEF FormProbesPublished
    <3>1. text.doc.services # <<>> /\ text.doc.services[1].key # ""
      <4>1. LoadDoc(text) = text.doc
        BY DEF LoadDoc
      <4>2. Blank("").key = ""
        BY DEF Blank
      <4>. QED
        BY <4>1, <4>2 DEF ViewFromYaml
    <3>2. v.rows["ports"] = [i \in DOMAIN s.rows["ports"] |-> EntryView("ports", s.rows["ports"][i])]
      BY <2>1, <3>1 DEF ViewFromYaml, LoadDoc
    <3>3. s \in Services
      BY <2>2, <3>1, FirstIs
    <3>4. PICK i \in DOMAIN s.rows["ports"] : e = s.rows["ports"][i]
      BY DEF ToSet
    <3>5. e \in Entries
      BY <2>3, <3>3, <3>4
    <3>6. EntryView("ports", e).host = PublishedHostPort(e)
      BY <3>5, PortReadings
    <3>. HIDE DEF v, s
    <3>7. i \in DOMAIN v.rows["ports"] /\ v.rows["ports"][i].host = PublishedHostPort(e)
      BY <3>2, <3>4, <3>6
    <3>. QED
      BY <2>1, <3>7 DEF FormProbes, v
  <2>. QED
    BY <2>4, <2>5 DEF ProbesWhatIsPublished
<1>. QED
  BY <1>1, DocInvariant, PTL

----------------------------------------------------------------------------
(* What the row the user types in shows next.                               *)

LEMMA ShortShows ==
  ASSUME NEW kind, NEW a, NEW b
  PROVE  EntryView(kind, Short(<<a, b>>)).host = a /\ EntryView(kind, Short(<<a, b>>)).container = b
<1>. DEFINE p == <<a, b>>
           entry == Short(p)
<1>1. entry.form = "short" /\ entry.parts = p /\ Len(p) # 1 /\ p[1] = a /\ p[2] = b
  BY DEF Short
<1>. HIDE DEF p, entry
<1>2. EntryView(kind, entry) = [host |-> p[1], container |-> p[2]]
  BY <1>1 DEF EntryView
<1>. QED
  BY <1>1, <1>2 DEF entry, p

\* A field of an entry reads as it was set; a cell of a row shows what was typed.
FieldReads(kind, entry, field, v) == EntryView(kind, SetField(kind, entry, field, v))[field] = v

LEMMA SetFieldShows ==
  ASSUME NEW kind, NEW entry \in Entries, NEW field \in Fields, NEW v
  PROVE  FieldReads(kind, entry, field, v)
<1>. SUFFICES EntryView(kind, SetField(kind, entry, field, v))[field] = v
  BY DEF FieldReads
<1>. DEFINE new == SetField(kind, entry, field, v)
<1>1. CASE \E a, b : new = Short(<<a, b>>) /\ (field = "host" => a = v) /\ (field = "container" => b = v)
  BY <1>1, ShortShows DEF Fields
<1>2. CASE entry.form = "short"
  <2>1. field = "host" => new = Short(<<v, IF Len(entry.parts) >= 2 THEN entry.parts[2] ELSE "">>)
    BY <1>2 DEF SetField
  <2>2. field = "container" => new = Short(<<IF Len(entry.parts) >= 1 THEN entry.parts[1] ELSE "", v>>)
    BY <1>2 DEF SetField
  <2>. QED
    BY <1>1, <2>1, <2>2 DEF Fields
<1>3. CASE entry.form # "short"
  <2>1. entry \in [form : {"long"}, host : Text, container : Text, rest : BOOLEAN]
    BY <1>3 DEF Entries
  <2>2. CASE kind = "devices"
    <3>1. (field = "host" => new = Short(<<v, "">>)) /\ (field = "container" => new = Short(<<"", v>>))
      BY <2>1, <2>2 DEF SetField
    <3>. QED
      BY <1>1, <3>1 DEF Fields
  <2>3. CASE kind # "devices"
    <3>1. new = [entry EXCEPT ![field] = v]
      BY <2>1, <2>3 DEF SetField
    <3>. HIDE DEF new
    <3>2. new.form = "long" /\ (field = "host" => new.host = v) /\ (field = "container" => new.container = v)
      BY <2>1, <3>1 DEF Fields
    <3>3. EntryView(kind, new) = [host |-> new.host, container |-> new.container]
      BY <2>3, <3>2 DEF EntryView
    <3>4. EntryView(kind, new)[field] = v
      BY <3>2, <3>3 DEF Fields
    <3>. QED
      BY <3>4 DEF new
  <2>. QED
    BY <2>2, <2>3
<1>. QED
  BY <1>2, <1>3

\* The form a document shows.
FormOf(d) == ViewFromYaml([valid |-> TRUE, doc |-> d])

\* The view of a text that parses and whose first service has a name.
LEMMA ShownView ==
  ASSUME NEW d, d.services # <<>>, d.services[1].key # ""
  PROVE  LET v == FormOf(d)
             s == d.services[1]
         IN  /\ v.serviceName = s.key /\ v.webPort = ViewPort(d) /\ v.env = ViewPairs(s.env)
             /\ \A kind \in EntryKinds :
                  v.rows[kind] = [i \in DOMAIN s.rows[kind] |-> EntryView(kind, s.rows[kind][i])]
<1>. DEFINE t == [valid |-> TRUE, doc |-> d]
<1>1. LoadDoc(t) = d
  BY DEF LoadDoc
<1>. HIDE DEF t
<1>. QED
  BY <1>1 DEF FormOf, ViewFromYaml, t

LEMMA HiddenView ==
  ASSUME NEW d, d.services = <<>> \/ d.services[1].key = ""
  PROVE  FormOf(d).serviceName = ""
<1>. DEFINE t == [valid |-> TRUE, doc |-> d]
<1>1. LoadDoc(t) = d
  BY DEF LoadDoc
<1>2. Blank("").key = ""
  BY DEF Blank
<1>. HIDE DEF t
<1>. QED
  BY <1>1, <1>2 DEF FormOf, ViewFromYaml, t

CellReads(d, kind, i, field, x) ==
  FormOf(SetEntryAt(d, kind, i, field, x)).rows[kind][i][field] = x

LEMMA EntryShows ==
  ASSUME NEW d, Good(d), d.services # <<>>, d.services[1].key # "",
         NEW kind \in EntryKinds, NEW i \in DOMAIN EnsureService(d).rows[kind],
         NEW field \in Fields, NEW x \in Text
  PROVE  CellReads(d, kind, i, field, x)
<1>. DEFINE s == EnsureService(d)
           rows == s.rows[kind]
           new == [rows EXCEPT ![i] = SetField(kind, rows[i], field, x)]
           s2 == [s EXCEPT !.rows[kind] = new]
           d2 == Stored(d, s2)
<1>1. rows \in Seq(Entries)
  BY RowsKeep
<1>2. i \in 1..Len(rows) /\ rows[i] \in Entries
  BY <1>1, LenProperties, ElementOfSeq
<1>3. new \in Seq(Entries)
  BY <1>1, <1>2, EntryTyped, ExceptSeq
<1>4. GoodService(s) /\ s = d.services[1]
  BY EnsureGood DEF EnsureService
<1>5. s.rows \in [EntryKinds -> Seq(Entries)] /\ s \in Services
  BY <1>4, ServiceIs DEF GoodService
<1>6. SetEntryAt(d, kind, i, field, x) = d2
  <2>1. [s EXCEPT !.rows[kind][i] = SetField(kind, @, field, x)] = [s EXCEPT !.rows[kind] = new]
    BY <1>5
  <2>. QED
    BY <2>1 DEF SetEntryAt
<1>7. s2.rows[kind] = new /\ s2.key = s.key
  BY <1>5 DEF Services
<1>8. GoodService(s2)
  <2>. HIDE DEF s, new
  <2>. QED
    BY <1>3, <1>4, ServiceWith
<1>. HIDE DEF s2
<1>9. d2.services # <<>> /\ d2.services[1] = s2
  BY <1>7, <1>8, StoredGood
<1>. HIDE DEF d2, new
<1>10. FormOf(d2).rows[kind] = [j \in DOMAIN new |-> EntryView(kind, new[j])]
  <2>. HIDE DEF s
  <2>1. d2.services[1].key # "" /\ d2.services[1].rows[kind] = new
    BY <1>4, <1>7, <1>9
  <2>2. FormOf(d2).rows[kind] = [j \in DOMAIN d2.services[1].rows[kind] |->
                                   EntryView(kind, d2.services[1].rows[kind][j])]
    BY <1>9, <2>1, ShownView, Zenon
  <2>. QED
    BY <2>1, <2>2, Zenon
<1>11. i \in DOMAIN new /\ new[i] = SetField(kind, rows[i], field, x)
  BY DEF new
<1>12. EntryView(kind, new[i])[field] = x
  <2>. HIDE DEF rows
  <2>. DEFINE entry == rows[i]
  <2>1. entry \in Entries /\ new[i] = SetField(kind, entry, field, x)
    BY <1>2, <1>11
  <2>. HIDE DEF entry, new
  <2>2. FieldReads(kind, entry, field, x)
    BY <2>1, SetFieldShows
  <2>. QED
    BY <2>1, <2>2 DEF FieldReads
<1>13. FormOf(d2).rows[kind][i][field] = x
  BY <1>10, <1>11, <1>12
<1>. QED
  BY <1>6, <1>13 DEF CellReads

LEMMA ServiceShows ==
  ASSUME NEW d, Good(d), NEW k \in Text
  PROVE  FormOf(SetServiceName(d, k)).serviceName = k
<1>. DEFINE all == d.services
           others == Tail(all)
           clash == {i \in DOMAIN others : others[i].key = k}
           first == IF clash = {} THEN [all[1] EXCEPT !.key = k] ELSE others[CHOOSE i \in clash : TRUE]
           rest == Where(others, {s \in ToSet(others) : s.key # k})
           d2 == SetServiceName(d, k)
<1>1. all \in Seq(Services)
  BY GoodIs
<1>2. d2.services # <<>> /\ d2.services[1].key = k
  <2>1. CASE all = <<>> \/ all[1].key = ""
    <3>1. d2 = [d EXCEPT !.services = <<Blank(k)>>]
      BY <2>1 DEF SetServiceName
    <3>2. d = [name |-> d.name, icon |-> d.icon, ext |-> d.ext, services |-> d.services]
      BY GoodIs
    <3>. DEFINE b == Blank(k)
    <3>3. b.key = k
      BY DEF Blank
    <3>. HIDE DEF b, d2
    <3>4. d2.services = <<b>>
      BY <3>1, <3>2 DEF b
    <3>. QED
      BY <3>3, <3>4
  <2>2. CASE all # <<>> /\ all[1].key # "" /\ k = all[1].key
    BY <2>2 DEF SetServiceName
  <2>3. CASE all # <<>> /\ all[1].key # "" /\ k # all[1].key
    <3>1. d2 = [d EXCEPT !.services = <<first>> \o rest]
      BY <2>3 DEF SetServiceName
    <3>2. others \in Seq(Services)
      BY <1>1, <2>3, HeadTailProperties
    <3>3. rest \in Seq(Services)
      BY <3>2, WhereTyped
    <3>4. first \in Services /\ first.key = k
      <4>1. CASE clash = {}
        <5>1. all[1] \in Services
          BY <1>1, <2>3, FirstIs
        <5>2. [all[1] EXCEPT !.key = k] \in Services /\ [all[1] EXCEPT !.key = k].key = k
          BY <5>1 DEF Services
        <5>. QED
          BY <4>1, <5>2
      <4>2. CASE clash # {}
        <5>1. (CHOOSE i \in clash : TRUE) \in clash
          BY <4>2
        <5>2. \A i \in DOMAIN others : others[i] \in Services
          BY <3>2, LenProperties, ElementOfSeq
        <5>. QED
          BY <4>2, <5>1, <5>2
      <4>. QED
        BY <4>1, <4>2
    <3>5. d = [name |-> d.name, icon |-> d.icon, ext |-> d.ext, services |-> d.services]
      BY GoodIs
    <3>. HIDE DEF first, rest, d2
    <3>6. (<<first>> \o rest)[1] = first /\ DOMAIN (<<first>> \o rest) = 1..(Len(rest) + 1)
          /\ <<first>> \o rest \in Seq(Services)
      BY <3>3, <3>4, ConsIs
    <3>. DEFINE w == <<first>> \o rest
    <3>7. w[1] = first /\ 1 \in DOMAIN w
      BY <3>3, <3>6, LenProperties
    <3>. HIDE DEF w
    <3>8. w # <<>>
      BY <3>7
    <3>9. d2.services = w
      BY <3>1, <3>5 DEF w
    <3>. QED
      BY <3>4, <3>7, <3>8, <3>9
  <2>. QED
    BY <2>1, <2>2, <2>3
<1>. HIDE DEF d2
<1>3. FormOf(d2).serviceName = k
  BY <1>2, ShownView, HiddenView
<1>. QED
  BY <1>3 DEF d2

LEMMA ViewOrder ==
  LET order == <<"x-powerlab", "x-casaos", "x-web">>
  IN  order \in Seq(ToSet(order)) /\ order # <<>> /\ order[1] = "x-powerlab"
      /\ "x-powerlab" \in ToSet(order)
<1>. DEFINE order == <<"x-powerlab", "x-casaos", "x-web">>
<1>1. DOMAIN order = 1..3 /\ order[1] = "x-powerlab" /\ order[2] = "x-casaos" /\ order[3] = "x-web"
  OBVIOUS
<1>2. \A i \in 1..3 : i = 1 \/ i = 2 \/ i = 3
  OBVIOUS
<1>3. order \in Seq({"x-powerlab", "x-casaos", "x-web"}) /\ order # <<>>
  OBVIOUS
<1>. HIDE DEF order
<1>4. ToSet(order) = {"x-powerlab", "x-casaos", "x-web"}
  <2>1. 1 \in 1..3 /\ 2 \in 1..3 /\ 3 \in 1..3
    OBVIOUS
  <2>. QED
    BY <1>1, <1>2, <2>1 DEF ToSet
<1>. QED
  BY <1>1, <1>3, <1>4 DEF order

LEMMA SameLength ==
  ASSUME NEW T, NEW s \in Seq(T)
  PROVE  /\ \A i \in DOMAIN s : Len(s) # 0
         /\ \A t \in Seq(T) : DOMAIN s = DOMAIN t => Len(s) = Len(t)
<1>1. \A t \in Seq(T) : Len(t) \in Nat /\ DOMAIN t = 1..Len(t)
  BY LenProperties
<1>2. \A m, n \in Nat : (1..m = 1..n => m = n) /\ (\A i \in 1..m : m # 0)
  OBVIOUS
<1>. QED
  BY <1>1, <1>2

LEMMA Squeezed == \A l, m, n \in Nat : l <= m /\ m <= n /\ l = n => l = m /\ m = n
  OBVIOUS

LEMMA WebShows ==
  ASSUME NEW d, Good(d), NEW x \in Text, x # "",
         FormOf(SetWebPort(d, x)).serviceName # ""
  PROVE  FormOf(SetWebPort(d, x)).webPort = x
<1>. DEFINE d2 == SetWebPort(d, x)
           order == <<"x-powerlab", "x-casaos", "x-web">>
           S == {k \in ToSet(order) : d2.ext[k].on}
<1>1. d.ext \in [ToSet(ExtKeys) -> Exts] /\ "x-powerlab" \in ToSet(ExtKeys)
      /\ d = [name |-> d.name, icon |-> d.icon, ext |-> d.ext, services |-> d.services]
  BY GoodIs, ExtKeySet
<1>2. d2.ext["x-powerlab"].on = TRUE /\ d2.ext["x-powerlab"].port = x
  <2>. DEFINE put == [[d.ext["x-powerlab"] EXCEPT !.port = x] EXCEPT !.on = TRUE]
  <2>1. d2 = [d EXCEPT !.ext["x-powerlab"] = put]
    BY DEF SetWebPort
  <2>2. put.on = TRUE /\ put.port = x
    <3>. DEFINE y == d.ext["x-powerlab"]
    <3>1. y \in Exts
      BY <1>1
    <3>2. y = [on |-> y.on, port |-> y.port, id |-> y.id, rest |-> y.rest]
      BY <3>1, ExtIs
    <3>. HIDE DEF y
    <3>3. put = [[y EXCEPT !.port = x] EXCEPT !.on = TRUE]
      BY DEF y
    <3>. HIDE DEF put
    <3>. QED
      BY <3>2, <3>3
  <2>. HIDE DEF put, d2
  <2>3. d2.ext["x-powerlab"] = put
    BY <1>1, <2>1
  <2>. QED
    BY <2>2, <2>3
<1>3. order \in Seq(ToSet(order)) /\ order # <<>> /\ order[1] = "x-powerlab"
      /\ "x-powerlab" \in ToSet(order)
  BY ViewOrder
<1>. HIDE DEF d2, order
<1>4. order[1] \in S
  BY <1>2, <1>3
<1>5. Where(order, S) # <<>> /\ Where(order, S)[1] = "x-powerlab"
  <2>. HIDE DEF S
  <2>. QED
    BY <1>3, <1>4, WhereFirst
<1>6. ViewPort(d2) = x
  BY <1>2, <1>5 DEF ViewPort, order
<1>7. FormOf(d2).serviceName # ""
  BY DEF d2
<1>8. d2.services # <<>> /\ d2.services[1].key # ""
  BY <1>7, HiddenView
<1>9. FormOf(d2).webPort = x
  BY <1>6, <1>8, ShownView
<1>. QED
  BY <1>9 DEF d2

LEMMA WhereShorter ==
  ASSUME NEW T, NEW s \in Seq(T), NEW S
  PROVE  Len(Where(s, S)) \in Nat /\ Len(s) \in Nat /\ Len(Where(s, S)) <= Len(s)
<1>1. Len(s) \in Nat /\ DOMAIN s = 1..Len(s)
  BY LenProperties
<1>2. \A n \in Nat : IsFiniteSet(1..n) /\ Cardinality(1..n) = n
  BY FS_Interval
<1>3. Kept(s, S) \in SUBSET (1..Len(s)) /\ Cardinality(Kept(s, S)) \in Nat
  BY KeptIsFinite
<1>4. Cardinality(Kept(s, S)) <= Cardinality(1..Len(s))
  BY <1>1, <1>2, <1>3, FS_Subset
<1>. QED
  BY <1>1, <1>2, <1>3, <1>4, WhereIs

LEMMA EnvShows ==
  ASSUME NEW d, Good(d), d.services # <<>>, d.services[1].key # "",
         NEW i \in DOMAIN EnsureService(d).env.e, NEW field \in PairFields, NEW x \in Input,
         Len(FormOf(SetEnvAt(d, i, field, x)).env)
           = Len(ViewPairs(EnsureService(d).env))
  PROVE  FormOf(SetEnvAt(d, i, field, x)).env[i][field] = x
<1>. DEFINE s == EnsureService(d)
           old == ViewPairs(s.env)
           list == [old EXCEPT ![i][field] = x]
           F == {p \in ToSet(list) : p.key # "" \/ p.val # ""}
           filled == Where(list, F)
           new == IF filled = <<>> THEN NoPairs ELSE Pairs("list", Keyed(filled))
           s2 == [s EXCEPT !.env = new]
           d2 == SetEnvAt(d, i, field, x)
<1>1. s.env \in PairLists /\ x \in Text
  BY EnvKeeps, TextsAre
<1>2. old \in Seq(PairT) /\ i \in DOMAIN old
  BY <1>1, ViewPairsTyped
<1>3. list \in Seq(PairT)
  BY <1>1, <1>2, SetPairTyped
<1>4. DOMAIN list = DOMAIN old /\ Len(list) = Len(old) /\ i \in DOMAIN list
  <2>1. DOMAIN list = DOMAIN old
    OBVIOUS
  <2>. HIDE DEF list, old
  <2>. QED
    BY <1>2, <1>3, <2>1, SameLength
<1>5. list[i][field] = x
  <2>1. old[i] \in PairT
    BY <1>2, LenProperties, ElementOfSeq
  <2>. HIDE DEF old
  <2>. QED
    BY <1>2, <2>1 DEF PairT, PairFields
<1>6. filled \in Seq(PairT) /\ Len(filled) <= Len(list) /\ Len(filled) \in Nat /\ Len(list) \in Nat
  <2>. HIDE DEF list, F
  <2>. QED
    BY <1>3, WhereTyped, WhereShorter
<1>7. d2 = Stored(d, s2)
  BY DEF SetEnvAt
<1>8. GoodService(s) /\ s = d.services[1]
  BY EnsureGood DEF EnsureService
<1>. HIDE DEF filled, list, old, F
<1>9. new \in PairLists
  BY <1>6, KeyedTyped, PairsTyped, NoPairsTyped
<1>. HIDE DEF new
<1>10. GoodService(s2) /\ s2.key = s.key /\ s2.env = new
  <2>1. s2.env = new
    BY <1>8 DEF GoodService, Services
  <2>. QED
    BY <1>8, <1>9, <2>1, ServiceWith
<1>. HIDE DEF s2, d2
<1>11. d2.services # <<>> /\ d2.services[1] = s2
  BY <1>7, <1>10, StoredGood
<1>. DEFINE shown == FormOf(d2).env
<1>12. shown = ViewPairs(new)
  BY <1>8, <1>10, <1>11, ShownView
<1>13. Len(new.e) = Len(list)
  <2>1. Len(shown) = Len(new.e)
    BY <1>9, <1>12, ViewPairsTyped
  <2>2. Len(shown) = Len(old)
    BY DEF d2, old
  <2>. QED
    BY <1>4, <2>1, <2>2
<1>14. Len(list) # 0
  BY <1>3, <1>4, SameLength
<1>15. filled # <<>>
  BY <1>13, <1>14, NoPairsTyped, EmptySeq DEF new
<1>16. Keyed(filled) \in Seq(PairT)
  BY <1>6, KeyedTyped
<1>17. new.e = Keyed(filled) /\ new.form = "list"
  BY <1>15, <1>16, PairsTyped DEF new
<1>18. Len(Keyed(filled)) <= Len(filled) /\ Len(Keyed(filled)) \in Nat
  BY <1>6, WhereShorter DEF Keyed
<1>19. Len(filled) = Len(list) /\ Len(Keyed(filled)) = Len(filled)
  <2>1. Len(Keyed(filled)) = Len(list)
    BY <1>13, <1>17
  <2>. HIDE DEF shown
  <2>. QED
    BY <1>6, <1>18, <2>1, Squeezed
<1>20. filled = list
  BY <1>3, <1>19, WhereSameLength DEF filled
<1>21. Keyed(filled) = filled
  BY <1>6, <1>19, WhereSameLength DEF Keyed
<1>22. new.e = list
  BY <1>17, <1>20, <1>21
<1>23. shown[i] = [list[i] EXCEPT !.val = IF list[i].val # Bare THEN list[i].val ELSE ""]
  BY <1>4, <1>12, <1>17, <1>22 DEF ViewPairs
<1>24. list[i] \in PairT
  BY <1>3, <1>4, LenProperties, ElementOfSeq
<1>25. x # Bare
  BY DocConstantsOK DEF Input, Bare
<1>26. shown[i][field] = x
  <2>1. CASE field = "key"
    BY <1>5, <1>23, <1>24, <2>1 DEF PairT
  <2>2. CASE field = "val"
    <3>1. list[i].val = x
      BY <1>5, <2>2
    <3>2. shown[i] = [list[i] EXCEPT !.val = x]
      BY <1>23, <1>25, <3>1
    <3>. QED
      BY <1>24, <2>2, <3>2 DEF PairT
  <2>. QED
    BY <2>1, <2>2 DEF PairFields
<1>. QED
  BY <1>26 DEF d2

\* What is typed in a row, a service name, a web port or a pair is what the
\* form shows next, in every document (compose-mutate.ts, ComposeForm.svelte).
THEOREM TypedIsShown == DocSpec => []EditShows
<1>1. DocInv => EditShows
  <2>. SUFFICES ASSUME DocInv, NEW e \in EditsOf(text)
                PROVE  LET v == ViewFromYaml(Edited(e, text))
                       IN  /\ e.op = "set" => v.rows[e.kind][e.i][e.field] = e.v
                           /\ e.op = "service" => v.serviceName = e.v
                           /\ e.op = "web" /\ e.v # "" /\ v.serviceName # "" => v.webPort = e.v
                           /\ e.op = "setEnv" /\ (\A p \in ToSet(v.env) : p.key # "")
                                /\ Len(v.env) = Len(ViewFromYaml(text).env) => v.env[e.i][e.field] = e.v
    BY DEF EditShows
  <2>. DEFINE d == LoadDoc(text)
  <2>1. GoodText(text) /\ Good(d)
    BY LoadGood DEF DocInv
  <2>2. Edited(e, text) = [valid |-> TRUE, doc |-> Apply(e, d)]
    BY DEF Edited
  <2>3. CASE e.op = "set"
    <3>1. e.kind \in EntryKinds /\ e.i \in DOMAIN EnsureService(d).rows[e.kind]
          /\ e.field \in Fields /\ e.v \in Text /\ e.i \in DOMAIN ViewFromYaml(text).rows[e.kind]
      BY <2>1, <2>3, EditIs
    <3>2. d.services # <<>> /\ d.services[1].key # ""
      BY <2>1, <3>1, ShownRows
    <3>3. Apply(e, d) = SetEntryAt(d, e.kind, e.i, e.field, e.v)
      BY <2>3 DEF Apply
    <3>. HIDE DEF d
    <3>4. CellReads(d, e.kind, e.i, e.field, e.v)
      BY <2>1, <3>1, <3>2, EntryShows
    <3>. QED
      BY <2>2, <2>3, <3>3, <3>4 DEF FormOf, CellReads
  <2>4. CASE e.op = "service"
    <3>1. e.v \in Text
      BY <2>1, <2>4, EditIs
    <3>2. Apply(e, d) = SetServiceName(d, e.v)
      BY <2>4 DEF Apply
    <3>. HIDE DEF d
    <3>3. FormOf(SetServiceName(d, e.v)).serviceName = e.v
      BY <2>1, <3>1, ServiceShows
    <3>. QED
      BY <2>2, <2>4, <3>2, <3>3 DEF FormOf
  <2>5. CASE e.op = "web"
    <3>1. e.v \in Text
      BY <2>1, <2>5, EditIs
    <3>2. Apply(e, d) = SetWebPort(d, e.v)
      BY <2>5 DEF Apply
    <3>. HIDE DEF d
    <3>3. e.v # "" /\ FormOf(SetWebPort(d, e.v)).serviceName # "" => FormOf(SetWebPort(d, e.v)).webPort = e.v
      BY <2>1, <3>1, WebShows
    <3>. QED
      BY <2>2, <2>5, <3>2, <3>3 DEF FormOf
  <2>6. CASE e.op = "setEnv"
    <3>1. e.i \in DOMAIN EnsureService(d).env.e /\ e.field \in PairFields
          /\ e.i \in DOMAIN ViewFromYaml(text).env /\ e.v \in Input
      BY <2>1, <2>6, EditIs
    <3>2. d.services # <<>> /\ d.services[1].key # "" /\ ViewFromYaml(text).env = ViewPairs(EnsureService(d).env)
      BY <2>1, <3>1, ShownRows
    <3>3. Apply(e, d) = SetEnvAt(d, e.i, e.field, e.v)
      BY <2>6 DEF Apply
    <3>. HIDE DEF d
    <3>. DEFINE after == FormOf(SetEnvAt(d, e.i, e.field, e.v)).env
    <3>4. Len(after) = Len(ViewPairs(EnsureService(d).env)) => after[e.i][e.field] = e.v
      BY <2>1, <3>1, <3>2, EnvShows
    <3>5. ViewFromYaml(Edited(e, text)).env = after
      BY <2>2, <3>3 DEF FormOf
    <3>. HIDE DEF after
    <3>. QED
      BY <2>6, <3>2, <3>4, <3>5
  <2>7. CASE e.op \notin {"set", "service", "web", "setEnv"}
    BY <2>7
  <2>. QED
    BY <2>3, <2>4, <2>5, <2>6, <2>7
<1>. QED
  BY <1>1, DocInvariant, PTL

----------------------------------------------------------------------------
(* What an edit means.  First the filter again: whatever picks the kept     *)
(* places in their order is the filter's result, so filters compose.        *)

\* f lists the numbers in K in their order.
Lists(f, n, K) ==
    /\ f \in [1..n -> K]
    /\ \A k \in K : \E m \in 1..n : f[m] = k
    /\ \A l, m \in 1..n : l < m => f[l] < f[m]

LEMMA FirstOf ==
  ASSUME NEW K \in SUBSET Nat, NEW n \in Nat, NEW f, Lists(f, n, K), NEW m \in Nat, m <= n
  PROVE  Cardinality({f[l] : l \in 1..m}) = m
<1>. DEFINE g == [l \in 1..m |-> f[l]]
            B == {f[l] : l \in 1..m}
<1>1. \A l \in 1..m : l \in 1..n
  OBVIOUS
<1>2. \A l \in 1..m : f[l] \in Nat
  BY <1>1 DEF Lists
<1>3. g \in [1..m -> B] /\ \A b \in B : \E l \in 1..m : g[l] = b
  OBVIOUS
<1>4. \A l, h \in 1..m : l < h \/ h < l \/ l = h
  OBVIOUS
<1>5. \A l, h \in 1..m : g[l] = g[h] => l = h
  BY <1>1, <1>2, <1>4 DEF Lists
<1>. HIDE DEF g
<1>6. IsInjective(g)
  <2>1. DOMAIN g = 1..m
    BY <1>3
  <2>. QED
    BY <1>5, <2>1 DEF IsInjective
<1>7. g \in Bijection(1..m, B)
  <2>. HIDE DEF B
  <2>1. g \in Injection(1..m, B)
    BY <1>3, <1>6 DEF Injection
  <2>2. g \in Surjection(1..m, B)
    BY <1>3 DEF Surjection
  <2>. QED
    BY <2>1, <2>2 DEF Bijection
<1>8. IsFiniteSet(1..m) /\ Cardinality(1..m) = m
  <2>1. \A i \in Nat : IsFiniteSet(1..i) /\ Cardinality(1..i) = i
    BY FS_Interval
  <2>. QED
    BY <2>1
<1>. HIDE DEF B
<1>9. Cardinality(B) = m
  BY <1>7, <1>8, FS_Bijection DEF ExistsBijection
<1>. QED
  BY <1>9 DEF B

LEMMA RankOfPick ==
  ASSUME NEW K \in SUBSET Nat, NEW n \in Nat, NEW f, Lists(f, n, K)
  PROVE  Cardinality(K) = n /\ \A m \in 1..n : CountTo(K, f[m]) = m
<1>1. \A m \in Nat : m <= n => Cardinality({f[l] : l \in 1..m}) = m
  BY FirstOf
<1>2. K = {f[l] : l \in 1..n}
  BY DEF Lists
<1>3. \A m \in 1..n : {j \in K : j <= f[m]} = {f[l] : l \in 1..m}
  <2>. SUFFICES ASSUME NEW m \in 1..n PROVE {j \in K : j <= f[m]} = {f[l] : l \in 1..m}
    OBVIOUS
  <2>1. \A l \in 1..n : f[l] \in K /\ f[l] \in Nat /\ (l <= m <=> l \in 1..m)
    <3>1. \A l \in 1..n : f[l] \in K
      BY DEF Lists
    <3>2. \A l \in 1..n : l <= m <=> l \in 1..m
      OBVIOUS
    <3>. QED
      BY <3>1, <3>2
  <2>2. \A l \in 1..n : l < m \/ l = m \/ m < l
    OBVIOUS
  <2>3. \A l \in 1..n : f[l] <= f[m] <=> l \in 1..m
    BY <2>1, <2>2 DEF Lists
  <2>4. \A l \in 1..m : l \in 1..n
    OBVIOUS
  <2>. QED
    BY <1>2, <2>1, <2>3, <2>4
<1>4. n <= n /\ \A m \in 1..n : m \in Nat /\ m <= n
  OBVIOUS
<1>5. Cardinality(K) = n
  BY <1>1, <1>2, <1>4
<1>6. \A m \in 1..n : CountTo(K, f[m]) = m
  BY <1>1, <1>3, <1>4 DEF CountTo
<1>. QED
  BY <1>5, <1>6

LEMMA PickedIsWhere ==
  ASSUME NEW T, NEW s \in Seq(T), NEW S, NEW w \in Seq(T), NEW f, Picks(w, f, s, Kept(s, S))
  PROVE  w = Where(s, S)
<1>. DEFINE K == Kept(s, S)
           n == Len(w)
           v == Where(s, S)
<1>1. n \in Nat /\ DOMAIN w = 1..n
  BY LenProperties
<1>2. K \in SUBSET Nat /\ IsFiniteSet(K)
  BY KeptIsFinite, LenProperties
<1>. HIDE DEF K, n
<1>3. Lists(f, n, K)
  BY <1>1 DEF Picks, Lists, K
<1>4. Cardinality(K) = n /\ \A m \in 1..n : CountTo(K, f[m]) = m
  BY <1>1, <1>2, <1>3, RankOfPick
<1>5. PICK g : Picks(v, g, s, K)
  BY WhereIs DEF K
<1>6. v \in Seq(T) /\ DOMAIN v = 1..n
  BY <1>4, WhereIs, WhereTyped DEF K
<1>. HIDE DEF v
<1>7. Lists(g, n, K)
  BY <1>5, <1>6 DEF Picks, Lists
<1>8. \A m \in 1..n : CountTo(K, g[m]) = m
  BY <1>1, <1>2, <1>7, RankOfPick
<1>9. \A i, j \in K : CountTo(K, i) = CountTo(K, j) => i = j
  <2>1. \A i, j \in K : i < j => CountTo(K, i) < CountTo(K, j)
    BY <1>2, RankIs
  <2>2. \A i \in K : CountTo(K, i) \in 1..n
    BY <1>2, <1>4, RankIs
  <2>3. \A i \in K : CountTo(K, i) \in Nat /\ i \in Nat
    BY <1>1, <1>2, <2>2
  <2>4. \A i, j \in Nat : i < j \/ j < i \/ i = j
    OBVIOUS
  <2>5. \A i \in Nat : ~(i < i)
    OBVIOUS
  <2>. QED
    BY <2>1, <2>3, <2>4, <2>5
<1>10. \A m \in 1..n : f[m] \in K /\ g[m] \in K
  BY <1>3, <1>7 DEF Lists
<1>11. \A m \in 1..n : f[m] = g[m]
  BY <1>4, <1>8, <1>9, <1>10
<1>12. \A m \in 1..n : w[m] = s[f[m]] /\ v[m] = s[g[m]]
  BY <1>1, <1>5, <1>6 DEF Picks
<1>13. \A m \in 1..n : w[m] = v[m]
  BY <1>11, <1>12
<1>14. Len(v) = n
  BY <1>1, <1>6, SameLength DEF n
<1>15. w = v
  BY <1>6, <1>13, <1>14, SeqEqual DEF n
<1>. QED
  BY <1>15 DEF v

LEMMA SameKept ==
  ASSUME NEW T, NEW s \in Seq(T), NEW S, NEW R, Kept(s, S) = Kept(s, R)
  PROVE  Where(s, S) = Where(s, R)
<1>1. Where(s, S) \in Seq(T)
  BY WhereTyped
<1>2. PICK f : Picks(Where(s, S), f, s, Kept(s, S))
  BY WhereIs
<1>3. Picks(Where(s, S), f, s, Kept(s, R))
  BY <1>2
<1>. QED
  BY <1>1, <1>3, PickedIsWhere

LEMMA AppendIs ==
  ASSUME NEW T, NEW s \in Seq(T), NEW x \in T
  PROVE  /\ Append(s, x) \in Seq(T) /\ DOMAIN Append(s, x) = 1..(Len(s) + 1)
         /\ Len(s) + 1 \in DOMAIN Append(s, x) /\ Len(s) + 1 \notin DOMAIN s
         /\ Append(s, x)[Len(s) + 1] = x
         /\ \A i \in DOMAIN s : i \in DOMAIN Append(s, x) /\ Append(s, x)[i] = s[i]
         /\ \A i \in DOMAIN Append(s, x) : i \in DOMAIN s \/ i = Len(s) + 1
BY AppendProperties, LenProperties

\* Filtering twice is filtering once by both.
LEMMA WhereWhere ==
  ASSUME NEW T, NEW s \in Seq(T), NEW S, NEW R, NEW Q,
         \A i \in DOMAIN s : s[i] \in Q <=> s[i] \in S /\ s[i] \in R
  PROVE  Where(Where(s, S), R) = Where(s, Q)
<1>. DEFINE u == Where(s, S)
           w == Where(u, R)
<1>1. u \in Seq(T) /\ w \in Seq(T)
  BY WhereTyped
<1>2. PICK f : Picks(u, f, s, Kept(s, S))
  BY WhereIs
<1>3. PICK g : Picks(w, g, u, Kept(u, R))
  BY <1>1, WhereIs
<1>. DEFINE h == [n \in DOMAIN w |-> f[g[n]]]
<1>. HIDE DEF u, w
<1>4. \A n \in DOMAIN u : f[n] \in DOMAIN s /\ s[f[n]] \in S /\ u[n] = s[f[n]]
  BY <1>2 DEF Picks, Kept
<1>5. \A n \in DOMAIN w : g[n] \in DOMAIN u /\ u[g[n]] \in R /\ w[n] = u[g[n]]
  BY <1>3 DEF Picks, Kept
<1>6. \A n \in DOMAIN w : h[n] \in Kept(s, Q) /\ w[n] = s[h[n]]
  BY <1>4, <1>5 DEF Kept
<1>7. \A k \in Kept(s, Q) : \E n \in DOMAIN w : h[n] = k
  <2>. SUFFICES ASSUME NEW k \in Kept(s, Q) PROVE \E n \in DOMAIN w : h[n] = k
    OBVIOUS
  <2>1. k \in Kept(s, S) /\ s[k] \in R
    BY DEF Kept
  <2>2. PICK m \in DOMAIN u : f[m] = k
    BY <1>2, <2>1 DEF Picks
  <2>3. m \in Kept(u, R)
    BY <1>4, <2>1, <2>2 DEF Kept
  <2>4. PICK n \in DOMAIN w : g[n] = m
    BY <1>3, <2>3 DEF Picks
  <2>. QED
    BY <2>2, <2>4
<1>8. \A m, n \in DOMAIN w : m < n => h[m] < h[n]
  BY <1>2, <1>3, <1>5 DEF Picks
<1>9. Picks(w, h, s, Kept(s, Q))
  BY <1>6, <1>7, <1>8 DEF Picks
<1>10. w = Where(s, Q)
  BY <1>1, <1>9, PickedIsWhere
<1>. QED
  BY <1>10 DEF w, u

Agree(s, S, Q) == \A i \in DOMAIN s : s[i] \in Q <=> s[i] \in S

\* An element that is not kept may be appended.
LEMMA WhereAppend ==
  ASSUME NEW T, NEW s \in Seq(T), NEW x \in T, NEW S, NEW Q, x \notin Q,
         Agree(s, S, Q)
  PROVE  Where(Append(s, x), Q) = Where(s, S)
<1>. DEFINE w == Where(s, S)
           t == Append(s, x)
<1>1. w \in Seq(T)
  BY WhereTyped
<1>2. t \in Seq(T) /\ \A i \in DOMAIN s : i \in DOMAIN t /\ t[i] = s[i]
  BY AppendProperties, LenProperties
<1>3. \A i \in DOMAIN t : i \in DOMAIN s \/ t[i] = x
  BY AppendProperties, LenProperties
<1>4. PICK f : Picks(w, f, s, Kept(s, S))
  BY WhereIs
<1>. HIDE DEF w, t
<1>5. Kept(t, Q) = Kept(s, S)
  BY <1>2, <1>3 DEF Kept, Agree
<1>6. Picks(w, f, t, Kept(t, Q))
  BY <1>2, <1>4, <1>5 DEF Picks, Kept
<1>7. w = Where(t, Q)
  BY <1>1, <1>2, <1>6, PickedIsWhere
<1>. QED
  BY <1>7 DEF w, t

LEMMA KeyedTwice ==
  ASSUME NEW T, NEW s \in Seq(T)
  PROVE  /\ Keyed(Keyed(s)) = Keyed(s)
         /\ \A F : (\A i \in DOMAIN s : s[i].key # "" => s[i] \in F) => Keyed(Where(s, F)) = Keyed(s)
         /\ \A i \in DOMAIN Keyed(s) : Keyed(s)[i].key # ""
<1>. DEFINE S == {p \in T : p.key # ""}
<1>1. \A u \in Seq(T) : \A i \in DOMAIN u : u[i] \in T /\ u[i] \in ToSet(u)
  BY LenProperties, ElementOfSeq DEF ToSet
<1>2. \A u \in Seq(T) : Keyed(u) = Where(u, S)
  <2>. SUFFICES ASSUME NEW u \in Seq(T) PROVE Keyed(u) = Where(u, S)
    OBVIOUS
  <2>. DEFINE R == {p \in ToSet(u) : p.key # ""}
  <2>1. \A i \in DOMAIN u : u[i] \in R <=> u[i] \in S
    BY <1>1
  <2>2. Kept(u, R) = Kept(u, S)
    BY <2>1 DEF Kept
  <2>3. Where(u, R) = Where(u, S)
    BY <2>2, SameKept
  <2>. QED
    BY <2>3 DEF Keyed
<1>. DEFINE k == Where(s, S)
<1>3. k \in Seq(T) /\ k \in Seq(T \cap S)
  BY WhereIs, WhereTyped
<1>. HIDE DEF S
<1>4. \A i \in DOMAIN k : k[i] \in S
  BY <1>3, LenProperties, ElementOfSeq
<1>5. Where(k, S) = k
  <2>. HIDE DEF k
  <2>. QED
    BY <1>3, <1>4, WhereAll
<1>6. Keyed(Keyed(s)) = Keyed(s)
  BY <1>2, <1>3, <1>5
<1>7. ASSUME NEW F, \A i \in DOMAIN s : s[i].key # "" => s[i] \in F
      PROVE  Keyed(Where(s, F)) = Keyed(s)
  <2>1. \A i \in DOMAIN s : s[i] \in S <=> s[i] \in F /\ s[i] \in S
    BY <1>1, <1>7 DEF S
  <2>2. Where(Where(s, F), S) = Where(s, S)
    BY <2>1, WhereWhere
  <2>3. Where(s, F) \in Seq(T)
    BY WhereTyped
  <2>. QED
    BY <1>2, <2>2, <2>3
<1>8. \A i \in DOMAIN Keyed(s) : Keyed(s)[i].key # ""
  BY <1>2, <1>4 DEF S
<1>. QED
  BY <1>6, <1>7, <1>8

LEMMA KeyedAppend ==
  ASSUME NEW T, NEW s \in Seq(T), NEW p \in T
  PROVE  p.key = "" => Keyed(Append(s, p)) = Keyed(s)
<1>0. \A S, Q : p \notin Q /\ Agree(s, S, Q) => Where(Append(s, p), Q) = Where(s, S)
  BY WhereAppend
<1>. DEFINE t == Append(s, p)
           S == {q \in ToSet(s) : q.key # ""}
           Q == {q \in ToSet(t) : q.key # ""}
<1>1. \A i \in DOMAIN s : i \in DOMAIN t /\ t[i] = s[i]
  BY AppendIs, Zenon
<1>2. \A i \in DOMAIN s : s[i] \in ToSet(s) /\ s[i] \in ToSet(t)
  BY <1>1 DEF ToSet
<1>3. \A i \in DOMAIN s : s[i] \in Q <=> s[i] \in S
  BY <1>2
<1>6. p.key = "" => p \notin Q
  OBVIOUS
<1>. HIDE DEF S, Q
<1>4. Agree(s, S, Q)
  BY <1>3 DEF Agree
<1>5. p.key = "" => Where(t, Q) = Where(s, S)
  BY <1>0, <1>4, <1>6
<1>. QED
  BY <1>5 DEF Keyed, S, Q

\* Pairs that name each key once are the object made of them.
LEMMA ObjectSame ==
  ASSUME NEW s \in Seq(PairT), Distinct(s)
  PROVE  AsObject(s) = s
<1>. DEFINE lastOf(k) == Max({i \in DOMAIN s : s[i].key = k})
           firsts == {i \in DOMAIN s : \A j \in 1..(i - 1) : s[j].key # s[i].key}
           id == [i \in DOMAIN s |-> i]
           places == Where(id, firsts)
<1>1. DOMAIN s = 1..Len(s) /\ Len(s) \in Nat /\ \A i \in DOMAIN s : s[i] \in PairT
  BY LenProperties, ElementOfSeq
<1>2. \A i \in DOMAIN s : \A j \in 1..(i - 1) : j \in DOMAIN s /\ j # i
  BY <1>1
<1>3. \A i \in DOMAIN s : i \in firsts
  BY <1>2 DEF Distinct
<1>4. id \in Seq(DOMAIN s) /\ DOMAIN id = DOMAIN s /\ \A i \in DOMAIN s : id[i] = i
  BY <1>1, IsASeq
<1>. HIDE DEF id, firsts
<1>5. places = id
  BY <1>3, <1>4, WhereAll
<1>6. \A n \in DOMAIN s : lastOf(s[n].key) = n
  <2>. SUFFICES ASSUME NEW n \in DOMAIN s PROVE lastOf(s[n].key) = n
    OBVIOUS
  <2>1. {i \in DOMAIN s : s[i].key = s[n].key} = {n}
    BY DEF Distinct
  <2>2. {n} \in SUBSET Nat /\ IsFiniteSet({n}) /\ {n} # {}
    <3>1. n \in Nat
      BY <1>1
    <3>. QED
      BY <3>1, FS_Singleton
  <2>3. Max({n}) = n
    BY <2>2, MaxIs
  <2>. QED
    BY <2>1, <2>3
<1>7. AsObject(s) = [n \in DOMAIN places |-> Pair(s[places[n]].key, s[lastOf(s[places[n]].key)].val)]
  BY DEF AsObject, id, firsts
<1>. HIDE DEF lastOf, places
<1>8. AsObject(s) = [n \in DOMAIN s |-> Pair(s[n].key, s[n].val)]
  BY <1>4, <1>5, <1>6, <1>7
<1>9. \A n \in DOMAIN s : Pair(s[n].key, s[n].val) = s[n]
  BY <1>1 DEF Pair, PairT
<1>10. AsObject(s) = [n \in DOMAIN s |-> s[n]]
  BY <1>8, <1>9
<1>. QED
  BY <1>1, <1>10

----------------------------------------------------------------------------
(* The parts of a meaning.                                                  *)

EntriesMean(kind, rows) == [i \in DOMAIN rows |-> EntryMeaning(kind, rows[i])]
RowsMean(rows) == [kind \in EntryKinds |-> EntriesMean(kind, rows[kind])]
LabelsMean(e) == {LabelMeaning(p) : p \in ToSet(e)}
MemMean(s) == IF s.mem # 0 THEN s.mem ELSE s.memLimit
ServicesMean(ss) == [i \in DOMAIN ss |-> ServiceMeaning(ss[i])]
ExtMean(d) == [id |-> ReadExt(d).ext.id, rest |-> ReadExt(d).ext.rest]
WithFirst(m, x) == [m EXCEPT !.services = IF @ = <<>> THEN <<x>> ELSE [@ EXCEPT ![1] = x]]

ServiceMean(k, sc, r, e, l, mm, dp) ==
    [key |-> k, scalar |-> sc, rows |-> r, env |-> e, labels |-> l, mem |-> mm, deploy |-> dp]
DocMean(n, i, w, x, ss) == [name |-> n, icon |-> i, web |-> w, ext |-> x, services |-> ss]

LEMMA ServiceMeans ==
  ASSUME NEW s
  PROVE  ServiceMeaning(s) = ServiceMean(s.key, s.scalar, RowsMean(s.rows), Keyed(s.env.e),
                                         LabelsMean(s.labels.e), MemMean(s), s.deployRest)
BY Zenon DEF ServiceMeaning, ServiceMean, RowsMean, EntriesMean, LabelsMean, MemMean

LEMMA MeaningIs ==
  ASSUME NEW d
  PROVE  Meaning(d) = DocMean(d.name, d.icon, ViewPort(d), ExtMean(d), ServicesMean(d.services))
BY Zenon DEF Meaning, DocMean, ExtMean, ServicesMean

LEMMA KeyMeans ==
  ASSUME NEW s \in Services, NEW v
  PROVE  ServiceMeaning([s EXCEPT !.key = v]) = [ServiceMeaning(s) EXCEPT !.key = v]
<1>. DEFINE x == [s EXCEPT !.key = v]
           m == ServiceMean(s.key, s.scalar, RowsMean(s.rows), Keyed(s.env.e),
                            LabelsMean(s.labels.e), MemMean(s), s.deployRest)
           y == ServiceMean(v, s.scalar, RowsMean(s.rows), Keyed(s.env.e),
                            LabelsMean(s.labels.e), MemMean(s), s.deployRest)
<1>1. /\ x.key = v /\ x.scalar = s.scalar /\ x.rows = s.rows /\ x.env = s.env
      /\ x.labels = s.labels /\ x.mem = s.mem /\ x.memLimit = s.memLimit /\ x.deployRest = s.deployRest
  BY DEF Services
<1>. HIDE DEF x
<1>2. MemMean(x) = MemMean(s)
  BY <1>1 DEF MemMean
<1>3. ServiceMeaning(x) = y
  BY <1>1, <1>2, ServiceMeans
<1>4. [ServiceMeaning(s) EXCEPT !.key = v] = y
  <2>1. ServiceMeaning(s) = m
    BY ServiceMeans
  <2>2. [m EXCEPT !.key = v] = y
    BY DEF ServiceMean
  <2>. QED
    BY <2>1, <2>2
<1>. QED
  BY <1>3, <1>4 DEF x

LEMMA ScalarMeans ==
  ASSUME NEW s \in Services, NEW v
  PROVE  ServiceMeaning([s EXCEPT !.scalar = v]) = [ServiceMeaning(s) EXCEPT !.scalar = v]
<1>. DEFINE x == [s EXCEPT !.scalar = v]
           m == ServiceMean(s.key, s.scalar, RowsMean(s.rows), Keyed(s.env.e),
                            LabelsMean(s.labels.e), MemMean(s), s.deployRest)
           y == ServiceMean(s.key, v, RowsMean(s.rows), Keyed(s.env.e),
                            LabelsMean(s.labels.e), MemMean(s), s.deployRest)
<1>1. /\ x.key = s.key /\ x.scalar = v /\ x.rows = s.rows /\ x.env = s.env
      /\ x.labels = s.labels /\ x.mem = s.mem /\ x.memLimit = s.memLimit /\ x.deployRest = s.deployRest
  BY DEF Services
<1>. HIDE DEF x
<1>2. MemMean(x) = MemMean(s)
  BY <1>1 DEF MemMean
<1>3. ServiceMeaning(x) = y
  BY <1>1, <1>2, ServiceMeans
<1>4. [ServiceMeaning(s) EXCEPT !.scalar = v] = y
  <2>1. ServiceMeaning(s) = m
    BY ServiceMeans
  <2>2. [m EXCEPT !.scalar = v] = y
    BY DEF ServiceMean
  <2>. QED
    BY <2>1, <2>2
<1>. QED
  BY <1>3, <1>4 DEF x

LEMMA RowsMeans ==
  ASSUME NEW s \in Services, NEW v
  PROVE  ServiceMeaning([s EXCEPT !.rows = v]) = [ServiceMeaning(s) EXCEPT !.rows = RowsMean(v)]
<1>. DEFINE x == [s EXCEPT !.rows = v]
           m == ServiceMean(s.key, s.scalar, RowsMean(s.rows), Keyed(s.env.e),
                            LabelsMean(s.labels.e), MemMean(s), s.deployRest)
           y == ServiceMean(s.key, s.scalar, RowsMean(v), Keyed(s.env.e),
                            LabelsMean(s.labels.e), MemMean(s), s.deployRest)
<1>1. /\ x.key = s.key /\ x.scalar = s.scalar /\ x.rows = v /\ x.env = s.env
      /\ x.labels = s.labels /\ x.mem = s.mem /\ x.memLimit = s.memLimit /\ x.deployRest = s.deployRest
  BY DEF Services
<1>. HIDE DEF x
<1>2. MemMean(x) = MemMean(s)
  BY <1>1 DEF MemMean
<1>3. ServiceMeaning(x) = y
  BY <1>1, <1>2, ServiceMeans
<1>4. [ServiceMeaning(s) EXCEPT !.rows = RowsMean(v)] = y
  <2>1. ServiceMeaning(s) = m
    BY ServiceMeans
  <2>2. [m EXCEPT !.rows = RowsMean(v)] = y
    BY DEF ServiceMean
  <2>. QED
    BY <2>1, <2>2
<1>. QED
  BY <1>3, <1>4 DEF x

LEMMA EnvMeans ==
  ASSUME NEW s \in Services, NEW v
  PROVE  ServiceMeaning([s EXCEPT !.env = v]) = [ServiceMeaning(s) EXCEPT !.env = Keyed(v.e)]
<1>. DEFINE x == [s EXCEPT !.env = v]
           m == ServiceMean(s.key, s.scalar, RowsMean(s.rows), Keyed(s.env.e),
                            LabelsMean(s.labels.e), MemMean(s), s.deployRest)
           y == ServiceMean(s.key, s.scalar, RowsMean(s.rows), Keyed(v.e),
                            LabelsMean(s.labels.e), MemMean(s), s.deployRest)
<1>1. /\ x.key = s.key /\ x.scalar = s.scalar /\ x.rows = s.rows /\ x.env = v
      /\ x.labels = s.labels /\ x.mem = s.mem /\ x.memLimit = s.memLimit /\ x.deployRest = s.deployRest
  BY DEF Services
<1>. HIDE DEF x
<1>2. MemMean(x) = MemMean(s)
  BY <1>1 DEF MemMean
<1>3. ServiceMeaning(x) = y
  BY <1>1, <1>2, ServiceMeans
<1>4. [ServiceMeaning(s) EXCEPT !.env = Keyed(v.e)] = y
  <2>1. ServiceMeaning(s) = m
    BY ServiceMeans
  <2>2. [m EXCEPT !.env = Keyed(v.e)] = y
    BY DEF ServiceMean
  <2>. QED
    BY <2>1, <2>2
<1>. QED
  BY <1>3, <1>4 DEF x

LEMMA LabelsMeans ==
  ASSUME NEW s \in Services, NEW v
  PROVE  ServiceMeaning([s EXCEPT !.labels = v]) = [ServiceMeaning(s) EXCEPT !.labels = LabelsMean(v.e)]
<1>. DEFINE x == [s EXCEPT !.labels = v]
           m == ServiceMean(s.key, s.scalar, RowsMean(s.rows), Keyed(s.env.e),
                            LabelsMean(s.labels.e), MemMean(s), s.deployRest)
           y == ServiceMean(s.key, s.scalar, RowsMean(s.rows), Keyed(s.env.e),
                            LabelsMean(v.e), MemMean(s), s.deployRest)
<1>1. /\ x.key = s.key /\ x.scalar = s.scalar /\ x.rows = s.rows /\ x.env = s.env
      /\ x.labels = v /\ x.mem = s.mem /\ x.memLimit = s.memLimit /\ x.deployRest = s.deployRest
  BY DEF Services
<1>. HIDE DEF x
<1>2. MemMean(x) = MemMean(s)
  BY <1>1 DEF MemMean
<1>3. ServiceMeaning(x) = y
  BY <1>1, <1>2, ServiceMeans
<1>4. [ServiceMeaning(s) EXCEPT !.labels = LabelsMean(v.e)] = y
  <2>1. ServiceMeaning(s) = m
    BY ServiceMeans
  <2>2. [m EXCEPT !.labels = LabelsMean(v.e)] = y
    BY DEF ServiceMean
  <2>. QED
    BY <2>1, <2>2
<1>. QED
  BY <1>3, <1>4 DEF x

\* The extension mappings are all that a document's port and app read.
LEMMA SameExt ==
  ASSUME NEW d, NEW d2, d2.ext = d.ext
  PROVE  ViewPort(d2) = ViewPort(d) /\ ExtMean(d2) = ExtMean(d)
<1>1. ViewPort(d2) = ViewPort(d)
  BY Zenon DEF ViewPort
<1>2. ReadExt(d2) = ReadExt(d)
  BY Zenon DEF ReadExt
<1>. QED
  BY <1>1, <1>2 DEF ExtMean

LEMMA FirstMeans ==
  ASSUME NEW ss \in Seq(Services), NEW x
  PROVE  /\ ss = <<>> <=> ServicesMean(ss) = <<>>
         /\ ss # <<>> => ServicesMean([ss EXCEPT ![1] = x]) = [ServicesMean(ss) EXCEPT ![1] = ServiceMeaning(x)]
         /\ ServicesMean(<<x>>) = <<ServiceMeaning(x)>>
<1>1. DOMAIN ServicesMean(ss) = DOMAIN ss /\ \A i \in DOMAIN ss : ServicesMean(ss)[i] = ServiceMeaning(ss[i])
  BY DEF ServicesMean
<1>2. DOMAIN ss = 1..Len(ss) /\ Len(ss) \in Nat
  BY LenProperties
<1>3. ss = <<>> <=> ServicesMean(ss) = <<>>
  <2>1. ServicesMean(ss) = [i \in 1..Len(ss) |-> ServiceMeaning(ss[i])]
    BY <1>2 DEF ServicesMean
  <2>. DEFINE m == ServicesMean(ss)
              R == {ServiceMeaning(ss[i]) : i \in DOMAIN ss}
  <2>2. m \in Seq(R)
    <3>1. \A i \in 1..Len(ss) : ServiceMeaning(ss[i]) \in R
      BY <1>2
    <3>. HIDE DEF R
    <3>. QED
      BY <1>2, <2>1, <3>1, IsASeq
  <2>. HIDE DEF m, R
  <2>3. m = <<>> <=> DOMAIN m = {}
    BY <2>2, EmptySeq, LenProperties
  <2>4. ss = <<>> <=> DOMAIN ss = {}
    BY EmptySeq, LenProperties
  <2>. QED
    BY <1>1, <2>3, <2>4 DEF m
<1>4. ss # <<>> => ServicesMean([ss EXCEPT ![1] = x]) = [ServicesMean(ss) EXCEPT ![1] = ServiceMeaning(x)]
  <2>. SUFFICES ASSUME ss # <<>>
                PROVE  ServicesMean([ss EXCEPT ![1] = x]) = [ServicesMean(ss) EXCEPT ![1] = ServiceMeaning(x)]
    OBVIOUS
  <2>1. 1 \in DOMAIN ss
    BY FirstIs
  <2>. DEFINE u == [ss EXCEPT ![1] = x]
  <2>2. DOMAIN u = DOMAIN ss /\ u[1] = x /\ \A i \in DOMAIN ss : i # 1 => u[i] = ss[i]
    BY <2>1
  <2>. HIDE DEF u
  <2>3. ServicesMean(u) = [i \in DOMAIN ss |-> IF i = 1 THEN ServiceMeaning(x) ELSE ServiceMeaning(ss[i])]
    BY <2>2 DEF ServicesMean
  <2>4. [ServicesMean(ss) EXCEPT ![1] = ServiceMeaning(x)]
          = [i \in DOMAIN ss |-> IF i = 1 THEN ServiceMeaning(x) ELSE ServiceMeaning(ss[i])]
    BY DEF ServicesMean
  <2>. QED
    BY <2>3, <2>4 DEF u
<1>5. ServicesMean(<<x>>) = <<ServiceMeaning(x)>>
  <2>1. DOMAIN <<x>> = {1} /\ <<x>>[1] = x
    OBVIOUS
  <2>. DEFINE u == <<x>>
             y == ServiceMeaning(x)
  <2>2. ServicesMean(u) = [i \in {1} |-> ServiceMeaning(u[i])]
    BY <2>1 DEF ServicesMean
  <2>3. ServicesMean(u) = [i \in {1} |-> y]
    BY <2>1, <2>2
  <2>. HIDE DEF y
  <2>4. <<y>> = [i \in {1} |-> y]
    OBVIOUS
  <2>. QED
    BY <2>3, <2>4 DEF y
<1>. QED
  BY <1>3, <1>4, <1>5

\* Storing a service changes what the first service means, and nothing else.
LEMMA StoredMeans ==
  ASSUME NEW d, Good(d), NEW s
  PROVE  Meaning(Stored(d, s)) = WithFirst(Meaning(d), ServiceMeaning(s))
<1>. DEFINE ss == d.services
           new == IF ss = <<>> THEN <<s>> ELSE [ss EXCEPT ![1] = s]
           w == Stored(d, s)
           ms == ServicesMean(ss)
           x == ServiceMeaning(s)
           put == IF ms = <<>> THEN <<x>> ELSE [ms EXCEPT ![1] = x]
<1>1. d = [name |-> d.name, icon |-> d.icon, ext |-> d.ext, services |-> d.services] /\ ss \in Seq(Services)
  BY GoodIs
<1>2. w.name = d.name /\ w.icon = d.icon /\ w.ext = d.ext /\ w.services = new
  <2>1. w = [d EXCEPT !.services = new]
    BY DEF Stored
  <2>. HIDE DEF new, w
  <2>. QED
    BY <1>1, <2>1
<1>3. ServicesMean(new) = put
  <2>1. CASE ss = <<>>
    BY <1>1, <2>1, FirstMeans
  <2>2. CASE ss # <<>>
    BY <1>1, <2>2, FirstMeans
  <2>. QED
    BY <2>1, <2>2
<1>. HIDE DEF new, w
<1>4. Meaning(w) = DocMean(d.name, d.icon, ViewPort(d), ExtMean(d), put)
  BY <1>2, <1>3, MeaningIs, SameExt, Zenon
<1>5. WithFirst(Meaning(d), x) = DocMean(d.name, d.icon, ViewPort(d), ExtMean(d), put)
  <2>. DEFINE m == DocMean(d.name, d.icon, ViewPort(d), ExtMean(d), ms)
  <2>1. Meaning(d) = m
    BY MeaningIs
  <2>. HIDE DEF x, ms
  <2>2. m.services = ms
    BY DEF DocMean
  <2>3. WithFirst(m, x) = [m EXCEPT !.services = put]
    <3>. HIDE DEF m
    <3>. QED
      BY <2>2 DEF WithFirst
  <2>. HIDE DEF put
  <2>4. [m EXCEPT !.services = put] = DocMean(d.name, d.icon, ViewPort(d), ExtMean(d), put)
    BY DEF DocMean
  <2>. QED
    BY <2>1, <2>3, <2>4
<1>. QED
  BY <1>4, <1>5 DEF w

LEMMA NameMeans ==
  ASSUME NEW d, Good(d), NEW v
  PROVE  /\ Meaning(SetProjectName(d, v)) = [Meaning(d) EXCEPT !.name = v]
         /\ Meaning(SetIcon(d, v)) = [Meaning(d) EXCEPT !.icon = v]
<1>. DEFINE n == SetProjectName(d, v)
           i == SetIcon(d, v)
           m == DocMean(d.name, d.icon, ViewPort(d), ExtMean(d), ServicesMean(d.services))
<1>1. d = [name |-> d.name, icon |-> d.icon, ext |-> d.ext, services |-> d.services]
  BY GoodIs
<1>2. n.name = v /\ n.icon = d.icon /\ n.ext = d.ext /\ n.services = d.services
  BY <1>1 DEF SetProjectName
<1>3. i.name = d.name /\ i.icon = v /\ i.ext = d.ext /\ i.services = d.services
  BY <1>1 DEF SetIcon
<1>. HIDE DEF n, i
<1>4. Meaning(n) = DocMean(v, d.icon, ViewPort(d), ExtMean(d), ServicesMean(d.services))
  BY <1>2, MeaningIs, SameExt, Zenon
<1>5. Meaning(i) = DocMean(d.name, v, ViewPort(d), ExtMean(d), ServicesMean(d.services))
  BY <1>3, MeaningIs, SameExt, Zenon
<1>6. Meaning(d) = m
  BY MeaningIs
<1>7. [m EXCEPT !.name = v] = DocMean(v, d.icon, ViewPort(d), ExtMean(d), ServicesMean(d.services))
      /\ [m EXCEPT !.icon = v] = DocMean(d.name, v, ViewPort(d), ExtMean(d), ServicesMean(d.services))
  BY DEF DocMean
<1>. QED
  BY <1>4, <1>5, <1>6, <1>7 DEF n, i

LEMMA ScalarMeansSet ==
  ASSUME NEW d, Good(d), NEW f \in Scalars, NEW v
  PROVE  Meaning(SetScalar(d, f, v))
           = WithFirst(Meaning(d), [ServiceMeaning(EnsureService(d)) EXCEPT !.scalar[f] = ScalarValue(f, v)])
<1>. DEFINE s == EnsureService(d)
           ms == ServiceMeaning(s)
           a == ScalarValue(f, v)
           new == [s.scalar EXCEPT ![f] = a]
<1>1. s \in Services
  BY EnsureGood DEF GoodService
<1>2. SetScalar(d, f, v) = Stored(d, [s EXCEPT !.scalar[f] = a])
  BY DEF SetScalar
<1>3. [s EXCEPT !.scalar[f] = a] = [s EXCEPT !.scalar = new]
  <2>. HIDE DEF s, a
  <2>. QED
    OBVIOUS
<1>4. ms.scalar = s.scalar
  BY ServiceMeans DEF ServiceMean
<1>5. [ms EXCEPT !.scalar[f] = a] = [ms EXCEPT !.scalar = new]
  <2>1. [ms EXCEPT !.scalar[f] = a] = [ms EXCEPT !.scalar = [ms.scalar EXCEPT ![f] = a]]
    <3>. HIDE DEF ms, a
    <3>. QED
      OBVIOUS
  <2>. QED
    BY <1>4, <2>1
<1>. HIDE DEF new, s
<1>6. ServiceMeaning([s EXCEPT !.scalar = new]) = [ms EXCEPT !.scalar = new]
  BY <1>1, ScalarMeans
<1>7. Meaning(Stored(d, [s EXCEPT !.scalar = new]))
        = WithFirst(Meaning(d), ServiceMeaning([s EXCEPT !.scalar = new]))
  BY StoredMeans
<1>. QED
  BY <1>2, <1>3, <1>5, <1>6, <1>7 DEF s

\* Nothing but the limit is lost when deploy said nothing else.
LEMMA MemMeans ==
  ASSUME NEW d, Good(d), NEW mb \in Nat, mb # 0, ~EnsureService(d).deployRest
  PROVE  Meaning(SetMemLimitMb(d, mb)) = WithFirst(Meaning(d), [ServiceMeaning(EnsureService(d)) EXCEPT !.mem = mb])
<1>. DEFINE s == EnsureService(d)
           x == [s EXCEPT !.mem = mb, !.memLimit = 0, !.deployRest = FALSE]
           m == ServiceMean(s.key, s.scalar, RowsMean(s.rows), Keyed(s.env.e), LabelsMean(s.labels.e),
                            MemMean(s), s.deployRest)
<1>1. s \in Services /\ s.deployRest = FALSE
  BY EnsureGood, ServiceIs DEF GoodService
<1>. HIDE DEF s
<1>2. /\ x.key = s.key /\ x.scalar = s.scalar /\ x.rows = s.rows /\ x.env = s.env
      /\ x.labels = s.labels /\ x.mem = mb /\ x.deployRest = FALSE
  BY <1>1 DEF Services
<1>. HIDE DEF x
<1>3. MemMean(x) = mb
  BY <1>2 DEF MemMean
<1>4. ServiceMeaning(x) = ServiceMean(s.key, s.scalar, RowsMean(s.rows), Keyed(s.env.e), LabelsMean(s.labels.e),
                                      mb, s.deployRest)
  BY <1>1, <1>2, <1>3, ServiceMeans, Zenon
<1>5. ServiceMeaning(s) = m
  BY ServiceMeans
<1>6. [m EXCEPT !.mem = mb] = ServiceMean(s.key, s.scalar, RowsMean(s.rows), Keyed(s.env.e),
                                          LabelsMean(s.labels.e), mb, s.deployRest)
  BY DEF ServiceMean
<1>7. Meaning(Stored(d, x)) = WithFirst(Meaning(d), ServiceMeaning(x))
  BY StoredMeans
<1>8. SetMemLimitMb(d, mb) = Stored(d, x)
  BY DEF SetMemLimitMb, s, x
<1>. HIDE DEF m
<1>9. ServiceMeaning(x) = [ServiceMeaning(s) EXCEPT !.mem = mb]
  BY <1>4, <1>5, <1>6
<1>. QED
  BY <1>7, <1>8, <1>9 DEF s

\* Storing a list of entries stores what they mean.
LEMMA RowsMeanSet ==
  ASSUME NEW d, Good(d), NEW kind \in EntryKinds, NEW r
  PROVE  /\ Meaning(Stored(d, [EnsureService(d) EXCEPT !.rows[kind] = r]))
              = WithFirst(Meaning(d), [ServiceMeaning(EnsureService(d)) EXCEPT !.rows[kind] = EntriesMean(kind, r)])
         /\ ServiceMeaning(EnsureService(d)).rows[kind] = EntriesMean(kind, EnsureService(d).rows[kind])
<1>. DEFINE s == EnsureService(d)
           ms == ServiceMeaning(s)
           a == EntriesMean(kind, r)
           new == [s.rows EXCEPT ![kind] = r]
<1>1. s \in Services /\ s.rows \in [EntryKinds -> Seq(Entries)]
  BY EnsureGood, ServiceIs DEF GoodService
<1>2. ms.rows = RowsMean(s.rows)
  BY ServiceMeans DEF ServiceMean
<1>. HIDE DEF s, a, ms
<1>3. [s EXCEPT !.rows[kind] = r] = [s EXCEPT !.rows = new]
  OBVIOUS
<1>4. RowsMean(new) = [RowsMean(s.rows) EXCEPT ![kind] = a]
  <2>1. DOMAIN new = EntryKinds /\ \A k \in EntryKinds : new[k] = IF k = kind THEN r ELSE s.rows[k]
    BY <1>1
  <2>. HIDE DEF new
  <2>2. RowsMean(new) = [k \in EntryKinds |-> IF k = kind THEN a ELSE EntriesMean(k, s.rows[k])]
    BY <2>1 DEF RowsMean, a
  <2>3. [RowsMean(s.rows) EXCEPT ![kind] = a]
          = [k \in EntryKinds |-> IF k = kind THEN a ELSE EntriesMean(k, s.rows[k])]
    BY DEF RowsMean
  <2>. QED
    BY <2>2, <2>3
<1>5. [ms EXCEPT !.rows[kind] = a] = [ms EXCEPT !.rows = RowsMean(new)]
  <2>1. [ms EXCEPT !.rows[kind] = a] = [ms EXCEPT !.rows = [ms.rows EXCEPT ![kind] = a]]
    OBVIOUS
  <2>. QED
    BY <1>2, <1>4, <2>1
<1>6. ms.rows[kind] = EntriesMean(kind, s.rows[kind])
  BY <1>2 DEF RowsMean
<1>. HIDE DEF new
<1>7. ServiceMeaning([s EXCEPT !.rows = new]) = [ms EXCEPT !.rows = RowsMean(new)]
  BY <1>1, RowsMeans DEF ms
<1>8. Meaning(Stored(d, [s EXCEPT !.rows = new]))
        = WithFirst(Meaning(d), ServiceMeaning([s EXCEPT !.rows = new]))
  BY StoredMeans
<1>9. Meaning(Stored(d, [s EXCEPT !.rows[kind] = r])) = WithFirst(Meaning(d), [ms EXCEPT !.rows[kind] = a])
  BY <1>3, <1>5, <1>7, <1>8
<1>. QED
  BY <1>6, <1>9 DEF s, a, ms

LEMMA EntriesMeanIs ==
  ASSUME NEW kind, NEW rows \in Seq(Entries)
  PROVE  LET m == EntriesMean(kind, rows)
             T == {EntryMeaning(kind, x) : x \in Entries}
         IN  /\ m \in Seq(T) /\ DOMAIN m = DOMAIN rows /\ Len(m) = Len(rows)
             /\ \A i \in DOMAIN rows : m[i] = EntryMeaning(kind, rows[i])
<1>. DEFINE m == EntriesMean(kind, rows)
           T == {EntryMeaning(kind, x) : x \in Entries}
<1>1. DOMAIN rows = 1..Len(rows) /\ Len(rows) \in Nat /\ \A i \in DOMAIN rows : rows[i] \in Entries
  BY LenProperties, ElementOfSeq
<1>2. m = [i \in 1..Len(rows) |-> EntryMeaning(kind, rows[i])]
  BY <1>1 DEF EntriesMean
<1>3. \A i \in 1..Len(rows) : EntryMeaning(kind, rows[i]) \in T
  BY <1>1
<1>. HIDE DEF T
<1>4. m \in Seq(T)
  BY <1>1, <1>2, <1>3, IsASeq
<1>. HIDE DEF m
<1>5. DOMAIN m = DOMAIN rows /\ \A i \in DOMAIN rows : m[i] = EntryMeaning(kind, rows[i])
  BY <1>1, <1>2
<1>6. Len(m) = Len(rows)
  BY <1>1, <1>4, <1>5, LenProperties
<1>. QED
  BY <1>4, <1>5, <1>6 DEF m, T

LEMMA AddedMeans ==
  ASSUME NEW kind, NEW rows \in Seq(Entries), NEW x \in Entries
  PROVE  EntriesMean(kind, Append(rows, x)) = Append(EntriesMean(kind, rows), EntryMeaning(kind, x))
<1>. DEFINE T == {EntryMeaning(kind, y) : y \in Entries}
           m == EntriesMean(kind, rows)
           y == EntryMeaning(kind, x)
           u == Append(rows, x)
           w == Append(m, y)
           n == EntriesMean(kind, u)
<1>1. m \in Seq(T) /\ DOMAIN m = DOMAIN rows /\ Len(m) = Len(rows)
      /\ \A i \in DOMAIN rows : m[i] = EntryMeaning(kind, rows[i])
  BY EntriesMeanIs
<1>2. y \in T
  OBVIOUS
<1>3. /\ u \in Seq(Entries) /\ DOMAIN u = 1..(Len(rows) + 1) /\ u[Len(rows) + 1] = x
      /\ \A i \in DOMAIN rows : i \in DOMAIN u /\ u[i] = rows[i]
      /\ \A i \in DOMAIN u : i \in DOMAIN rows \/ i = Len(rows) + 1
  BY AppendIs, Zenon
<1>. HIDE DEF T, m
<1>4. /\ w \in Seq(T) /\ DOMAIN w = 1..(Len(rows) + 1) /\ w[Len(rows) + 1] = y
      /\ \A i \in DOMAIN rows : w[i] = m[i]
  <2>. HIDE DEF y, w
  <2>1. /\ w \in Seq(T) /\ DOMAIN w = 1..(Len(m) + 1) /\ w[Len(m) + 1] = y
        /\ \A i \in DOMAIN m : w[i] = m[i]
    BY <1>1, <1>2, AppendProperties, LenProperties DEF w
  <2>. QED
    BY <1>1, <2>1
<1>. HIDE DEF u, w
<1>5. n \in Seq(T) /\ DOMAIN n = DOMAIN u /\ \A i \in DOMAIN u : n[i] = EntryMeaning(kind, u[i])
  BY <1>3, EntriesMeanIs DEF T
<1>. HIDE DEF n
<1>6. \A i \in DOMAIN u : n[i] = w[i]
  BY <1>1, <1>3, <1>4, <1>5
<1>7. n = w
  <2>1. Len(n) = Len(w) /\ DOMAIN n = 1..Len(n)
    BY <1>3, <1>4, <1>5, SameLength, LenProperties
  <2>. QED
    BY <1>4, <1>5, <1>6, <2>1, SeqEqual
<1>. QED
  BY <1>7 DEF n, w, u, m

LEMMA RemovedMeans ==
  ASSUME NEW kind, NEW rows \in Seq(Entries), NEW i \in DOMAIN rows
  PROVE  EntriesMean(kind, RemoveAt(rows, i)) = RemoveAt(EntriesMean(kind, rows), i)
<1>. DEFINE T == {EntryMeaning(kind, y) : y \in Entries}
           m == EntriesMean(kind, rows)
           u == RemoveAt(rows, i)
           w == RemoveAt(m, i)
           n == EntriesMean(kind, u)
           h == 1..(Len(rows) - 1)
<1>1. m \in Seq(T) /\ DOMAIN m = DOMAIN rows /\ Len(m) = Len(rows)
      /\ \A j \in DOMAIN rows : m[j] = EntryMeaning(kind, rows[j])
  BY EntriesMeanIs
<1>2. u \in Seq(Entries) /\ DOMAIN u = h /\ \A j \in h : u[j] = IF j < i THEN rows[j] ELSE rows[j + 1]
  BY RemoveAtIs
<1>. HIDE DEF T, m
<1>3. w \in Seq(T) /\ DOMAIN w = h /\ \A j \in h : w[j] = IF j < i THEN m[j] ELSE m[j + 1]
  BY <1>1, RemoveAtIs
<1>. HIDE DEF u, w
<1>4. n \in Seq(T) /\ DOMAIN n = DOMAIN u /\ \A j \in DOMAIN u : n[j] = EntryMeaning(kind, u[j])
  BY <1>2, EntriesMeanIs DEF T
<1>. HIDE DEF n
<1>5. \A j \in h : j \in DOMAIN rows /\ j + 1 \in DOMAIN rows
  BY LenProperties
<1>6. \A j \in h : n[j] = w[j]
  BY <1>1, <1>2, <1>3, <1>4, <1>5
<1>7. n = w
  <2>1. Len(n) = Len(w) /\ DOMAIN n = 1..Len(n)
    BY <1>2, <1>3, <1>4, SameLength, LenProperties
  <2>. QED
    BY <1>2, <1>3, <1>4, <1>6, <2>1, SeqEqual
<1>. QED
  BY <1>7 DEF n, w, u, m

LEMMA AddMeans ==
  ASSUME NEW d, Good(d), NEW kind \in EntryKinds
  PROVE  Meaning(AddEntry(d, kind))
           = WithFirst(Meaning(d), [ServiceMeaning(EnsureService(d)) EXCEPT !.rows[kind] =
                                       Append(@, [host |-> "", container |-> "", extra |-> ""])])
<1>. DEFINE s == EnsureService(d)
           ms == ServiceMeaning(s)
           new == Append(s.rows[kind], Short(<<"">>))
           none == [host |-> "", container |-> "", extra |-> ""]
<1>1. s.rows[kind] \in Seq(Entries)
  BY RowsKeep
<1>2. Short(<<"">>) \in Entries
  <2>1. \A a \in Text : Short(<<a>>) \in Entries
    BY DEF Short, Entries
  <2>. QED
    BY <2>1, TextsAre
<1>3. EntryMeaning(kind, Short(<<"">>)) = none
  <2>. DEFINE p == <<"">>
  <2>1. Len(p) = 1 /\ p[1] = ""
    OBVIOUS
  <2>. HIDE DEF p
  <2>2. EntryMeaning(kind, Short(p)) = none
    BY <2>1 DEF EntryMeaning, Short, Absent
  <2>. QED
    BY <2>2 DEF p
<1>. HIDE DEF none, s, ms
<1>4. EntriesMean(kind, new) = Append(EntriesMean(kind, s.rows[kind]), none)
  BY <1>1, <1>2, <1>3, AddedMeans
<1>5. ms.rows[kind] = EntriesMean(kind, s.rows[kind])
  BY RowsMeanSet DEF s, ms
<1>6. AddEntry(d, kind) = Stored(d, [s EXCEPT !.rows[kind] = new])
  BY DEF AddEntry, s
<1>. HIDE DEF new
<1>7. Meaning(Stored(d, [s EXCEPT !.rows[kind] = new]))
        = WithFirst(Meaning(d), [ms EXCEPT !.rows[kind] = EntriesMean(kind, new)])
  BY RowsMeanSet DEF s, ms
<1>8. EntriesMean(kind, new) = Append(ms.rows[kind], none)
  BY <1>4, <1>5
<1>9. Meaning(AddEntry(d, kind)) = WithFirst(Meaning(d), [ms EXCEPT !.rows[kind] = Append(ms.rows[kind], none)])
  BY <1>6, <1>7, <1>8
<1>10. [ms EXCEPT !.rows[kind] = Append(@, none)] = [ms EXCEPT !.rows[kind] = Append(ms.rows[kind], none)]
  OBVIOUS
<1>. QED
  BY <1>9, <1>10 DEF s, ms, none

LEMMA RemoveMeans ==
  ASSUME NEW d, Good(d), d.services # <<>>, NEW kind \in EntryKinds,
         NEW i \in DOMAIN EnsureService(d).rows[kind]
  PROVE  Meaning(RemoveArrayItem(d, kind, i))
           = WithFirst(Meaning(d), [ServiceMeaning(EnsureService(d)) EXCEPT !.rows[kind] = RemoveAt(@, i)])
<1>. DEFINE s == EnsureService(d)
           ms == ServiceMeaning(s)
           new == RemoveAt(s.rows[kind], i)
<1>1. s.rows[kind] \in Seq(Entries) /\ s = d.services[1]
  BY RowsKeep DEF EnsureService
<1>2. RemoveArrayItem(d, kind, i) = Stored(d, [s EXCEPT !.rows[kind] = new])
  <2>. HIDE DEF s
  <2>1. [d EXCEPT !.services[1].rows[kind] = RemoveAt(@, i)]
          = [d EXCEPT !.services = [d.services EXCEPT ![1] = [s EXCEPT !.rows[kind] = new]]]
    BY <1>1
  <2>. QED
    BY <2>1 DEF RemoveArrayItem, Stored
<1>. HIDE DEF s, ms
<1>3. EntriesMean(kind, new) = RemoveAt(EntriesMean(kind, s.rows[kind]), i)
  BY <1>1, RemovedMeans DEF s
<1>4. ms.rows[kind] = EntriesMean(kind, s.rows[kind])
  BY RowsMeanSet DEF s, ms
<1>. HIDE DEF new
<1>5. Meaning(Stored(d, [s EXCEPT !.rows[kind] = new]))
        = WithFirst(Meaning(d), [ms EXCEPT !.rows[kind] = EntriesMean(kind, new)])
  BY RowsMeanSet DEF s, ms
<1>6. EntriesMean(kind, new) = RemoveAt(ms.rows[kind], i)
  BY <1>3, <1>4
<1>7. [ms EXCEPT !.rows[kind] = RemoveAt(@, i)] = [ms EXCEPT !.rows[kind] = RemoveAt(ms.rows[kind], i)]
  OBVIOUS
<1>. QED
  BY <1>2, <1>5, <1>6, <1>7 DEF s, ms

\* An entry the setters keep: two parts, one empty part, or a mapping they know.
Settable(kind, entry) ==
    \/ entry.form = "short" /\ Len(entry.parts) = 2
    \/ entry.form = "short" /\ Len(entry.parts) = 1 /\ entry.parts[1] = ""
    \/ entry.form = "long" /\ kind # "devices"

Says(h, c, x) == [host |-> h, container |-> c, extra |-> x]

\* m with v in the field named is new.
Becomes(m, field, v, new) == [m EXCEPT ![field] = v] = new

LEMMA HostSaid ==
  ASSUME NEW h, NEW c, NEW x, NEW v
  PROVE  Becomes(Says(h, c, x), "host", v, Says(v, c, x))
<1>. DEFINE m == Says(h, c, x)
<1>1. DOMAIN m = {"host", "container", "extra"} /\ m["host"] = h /\ m["container"] = c /\ m["extra"] = x
  BY DEF Says
<1>2. \A a, b, z : Says(a, b, z) = [k \in {"host", "container", "extra"} |->
                                     IF k = "host" THEN a ELSE IF k = "container" THEN b ELSE z]
  BY DEF Says
<1>3. [m EXCEPT !["host"] = v] = Says(v, c, x)
  BY <1>1, <1>2
<1>. QED
  BY <1>3, Zenon DEF Becomes

LEMMA ContainerSaid ==
  ASSUME NEW h, NEW c, NEW x, NEW v
  PROVE  Becomes(Says(h, c, x), "container", v, Says(h, v, x))
<1>. DEFINE m == Says(h, c, x)
<1>1. DOMAIN m = {"host", "container", "extra"} /\ m["host"] = h /\ m["container"] = c /\ m["extra"] = x
  BY DEF Says
<1>2. \A a, b, z : Says(a, b, z) = [k \in {"host", "container", "extra"} |->
                                     IF k = "host" THEN a ELSE IF k = "container" THEN b ELSE z]
  BY DEF Says
<1>3. [m EXCEPT !["container"] = v] = Says(h, v, x)
  BY <1>1, <1>2
<1>. QED
  BY <1>3, Zenon DEF Becomes

LEMMA TwoPartsSay ==
  ASSUME NEW kind, NEW a, NEW b
  PROVE  EntryMeaning(kind, Short(<<a, b>>)) = Says(a, b, Absent)
<1>. DEFINE p == <<a, b>>
<1>1. Len(p) = 2 /\ p[1] = a /\ p[2] = b
  OBVIOUS
<1>. HIDE DEF p
<1>2. Short(p).form = "short" /\ Short(p).parts = p
  BY DEF Short
<1>. DEFINE x == Short(p)
<1>. HIDE DEF x
<1>3. x.form = "short" /\ x.parts = p
  BY <1>2 DEF x
<1>4. EntryMeaning(kind, x) = Says(a, b, Absent)
  BY <1>1, <1>3 DEF EntryMeaning, Says
<1>. QED
  BY <1>4 DEF x, p

PartOf(entry, i) == IF Len(entry.parts) >= i THEN entry.parts[i] ELSE ""

LEMMA ShortFields ==
  ASSUME NEW kind, NEW entry, NEW v
  PROVE  entry.form = "short" =>
           /\ SetField(kind, entry, "host", v) = Short(<<v, PartOf(entry, 2)>>)
           /\ SetField(kind, entry, "container", v) = Short(<<PartOf(entry, 1), v>>)
BY DEF SetField, PartOf

LEMMA SetFieldMeans ==
  ASSUME NEW kind, NEW entry \in Entries, Settable(kind, entry), NEW field \in Fields, NEW v
  PROVE  EntryMeaning(kind, SetField(kind, entry, field, v)) = [EntryMeaning(kind, entry) EXCEPT ![field] = v]
<1>. DEFINE p == entry.parts
           new == SetField(kind, entry, field, v)
<1>0. field = "host" \/ field = "container"
  BY DEF Fields
<1>1. CASE entry.form = "short" /\ Len(p) = 2
  <2>. DEFINE a == p[1]
              b == p[2]
  <2>1. EntryMeaning(kind, entry) = Says(a, b, Absent)
    BY <1>1 DEF EntryMeaning, Says
  <2>2. a = PartOf(entry, 1) /\ b = PartOf(entry, 2)
    BY <1>1 DEF PartOf
  <2>. HIDE DEF a, b
  <2>3. /\ SetField(kind, entry, "host", v) = Short(<<v, b>>)
        /\ SetField(kind, entry, "container", v) = Short(<<a, v>>)
    BY <1>1, <2>2, ShortFields, Zenon
  <2>4. CASE field = "host"
    <3>1. EntryMeaning(kind, new) = Says(v, b, Absent)
      BY <2>3, <2>4, TwoPartsSay
    <3>8. Becomes(Says(a, b, Absent), "host", v, Says(v, b, Absent))
      BY HostSaid, Zenon
    <3>9. Becomes(EntryMeaning(kind, entry), field, v, EntryMeaning(kind, new))
      BY <2>1, <2>4, <3>1, <3>8, Zenon
    <3>. QED
      BY <3>9, Zenon DEF Becomes
  <2>5. CASE field = "container"
    <3>1. EntryMeaning(kind, new) = Says(a, v, Absent)
      BY <2>3, <2>5, TwoPartsSay
    <3>8. Becomes(Says(a, b, Absent), "container", v, Says(a, v, Absent))
      BY ContainerSaid, Zenon
    <3>9. Becomes(EntryMeaning(kind, entry), field, v, EntryMeaning(kind, new))
      BY <2>1, <2>5, <3>1, <3>8, Zenon
    <3>. QED
      BY <3>9, Zenon DEF Becomes
  <2>. QED
    BY <1>0, <2>4, <2>5
<1>2. CASE entry.form = "short" /\ Len(p) = 1 /\ p[1] = ""
  <2>1. EntryMeaning(kind, entry) = Says(Absent, Absent, Absent)
    BY <1>2 DEF EntryMeaning, Says, Absent
  <2>2. Absent = PartOf(entry, 1) /\ Absent = PartOf(entry, 2)
    <3>1. PartOf(entry, 1) = p[1]
      BY <1>2 DEF PartOf
    <3>2. ~(Len(p) >= 2)
      <4>1. \A n : n = 1 => ~(n >= 2)
        OBVIOUS
      <4>. QED
        BY <1>2, <4>1, Zenon
    <3>3. PartOf(entry, 2) = ""
      BY <3>2, Zenon DEF PartOf
    <3>. QED
      BY <1>2, <3>1, <3>3, Zenon DEF Absent
  <2>3. /\ SetField(kind, entry, "host", v) = Short(<<v, Absent>>)
        /\ SetField(kind, entry, "container", v) = Short(<<Absent, v>>)
    <3>1. entry.form = "short"
      BY <1>2
    <3>2. /\ SetField(kind, entry, "host", v) = Short(<<v, PartOf(entry, 2)>>)
          /\ SetField(kind, entry, "container", v) = Short(<<PartOf(entry, 1), v>>)
      BY <3>1, ShortFields, Zenon
    <3>3. PartOf(entry, 1) = Absent /\ PartOf(entry, 2) = Absent
      BY <2>2, Zenon
    <3>. QED
      BY <3>2, <3>3
  <2>4. CASE field = "host"
    <3>1. EntryMeaning(kind, new) = Says(v, Absent, Absent)
      BY <2>3, <2>4, TwoPartsSay
    <3>8. Becomes(Says(Absent, Absent, Absent), "host", v, Says(v, Absent, Absent))
      BY HostSaid, Zenon
    <3>9. Becomes(EntryMeaning(kind, entry), field, v, EntryMeaning(kind, new))
      BY <2>1, <2>4, <3>1, <3>8, Zenon
    <3>. QED
      BY <3>9, Zenon DEF Becomes
  <2>5. CASE field = "container"
    <3>1. EntryMeaning(kind, new) = Says(Absent, v, Absent)
      BY <2>3, <2>5, TwoPartsSay
    <3>8. Becomes(Says(Absent, Absent, Absent), "container", v, Says(Absent, v, Absent))
      BY ContainerSaid, Zenon
    <3>9. Becomes(EntryMeaning(kind, entry), field, v, EntryMeaning(kind, new))
      BY <2>1, <2>5, <3>1, <3>8, Zenon
    <3>. QED
      BY <3>9, Zenon DEF Becomes
  <2>. QED
    BY <1>0, <2>4, <2>5
<1>3. CASE entry.form = "long" /\ kind # "devices"
  <2>. DEFINE x == IF entry.rest THEN "rest" ELSE Absent
  <2>1. EntryMeaning(kind, entry) = Says(entry.host, entry.container, x)
    BY <1>3 DEF EntryMeaning, Says
  <2>2. new = [entry EXCEPT ![field] = v]
    BY <1>3 DEF SetField
  <2>3. entry = [form |-> "long", host |-> entry.host, container |-> entry.container, rest |-> entry.rest]
    BY <1>3 DEF Entries
  <2>. HIDE DEF new
  <2>4. CASE field = "host"
    <3>1. new.form = "long" /\ new.host = v /\ new.container = entry.container /\ new.rest = entry.rest
      BY <2>2, <2>3, <2>4
    <3>2. EntryMeaning(kind, new) = Says(v, entry.container, x)
      BY <3>1 DEF EntryMeaning, Says
    <3>. HIDE DEF x
    <3>8. Becomes(Says(entry.host, entry.container, x), "host", v, Says(v, entry.container, x))
      BY HostSaid, Zenon
    <3>9. Becomes(EntryMeaning(kind, entry), field, v, EntryMeaning(kind, new))
      BY <2>1, <2>4, <3>2, <3>8, Zenon
    <3>. QED
      BY <3>9, Zenon DEF Becomes, new
  <2>5. CASE field = "container"
    <3>1. new.form = "long" /\ new.host = entry.host /\ new.container = v /\ new.rest = entry.rest
      BY <2>2, <2>3, <2>5
    <3>2. EntryMeaning(kind, new) = Says(entry.host, v, x)
      BY <3>1 DEF EntryMeaning, Says
    <3>. HIDE DEF x
    <3>8. Becomes(Says(entry.host, entry.container, x), "container", v, Says(entry.host, v, x))
      BY ContainerSaid, Zenon
    <3>9. Becomes(EntryMeaning(kind, entry), field, v, EntryMeaning(kind, new))
      BY <2>1, <2>5, <3>2, <3>8, Zenon
    <3>. QED
      BY <3>9, Zenon DEF Becomes, new
  <2>. QED
    BY <1>0, <2>4, <2>5
<1>. QED
  BY <1>1, <1>2, <1>3 DEF Settable

\* v in one field of one row, or of one pair; and the labels with v in one field of old.
WithCell(ms, kind, i, field, v) == [ms EXCEPT !.rows[kind][i][field] = v]
WithField(pairs, i, field, v) == [pairs EXCEPT ![i][field] = v]
Relabelled(labels, old, field, v) ==
    LET new == [old EXCEPT ![field] = v]
    IN  (labels \ {old}) \cup (IF new.key = "" THEN {} ELSE {new})

LEMMA SetMeans ==
  ASSUME NEW d, Good(d), NEW kind \in EntryKinds, NEW i \in DOMAIN EnsureService(d).rows[kind],
         Settable(kind, EnsureService(d).rows[kind][i]), NEW field \in Fields, NEW v
  PROVE  Meaning(SetEntryAt(d, kind, i, field, v))
           = WithFirst(Meaning(d), WithCell(ServiceMeaning(EnsureService(d)), kind, i, field, v))
<1>. DEFINE s == EnsureService(d)
           ms == ServiceMeaning(s)
           rows == s.rows[kind]
           x == SetField(kind, rows[i], field, v)
           y == [EntryMeaning(kind, rows[i]) EXCEPT ![field] = v]
           new == [rows EXCEPT ![i] = x]
           m == EntriesMean(kind, rows)
<1>1. rows \in Seq(Entries) /\ s \in Services /\ s.rows \in [EntryKinds -> Seq(Entries)]
  BY RowsKeep, EnsureGood, ServiceIs DEF GoodService
<1>2. rows[i] \in Entries
  BY <1>1, LenProperties, ElementOfSeq
<1>3. EntryMeaning(kind, x) = y
  BY <1>2, SetFieldMeans
<1>4. SetEntryAt(d, kind, i, field, v) = Stored(d, [s EXCEPT !.rows[kind] = new])
  <2>1. [s EXCEPT !.rows[kind][i] = SetField(kind, @, field, v)] = [s EXCEPT !.rows[kind] = new]
    BY <1>1
  <2>. QED
    BY <2>1 DEF SetEntryAt
<1>5. ms.rows[kind] = m
  BY RowsMeanSet
<1>6. i \in DOMAIN rows
  OBVIOUS
<1>. HIDE DEF x, rows
<1>7. EntriesMean(kind, new) = [m EXCEPT ![i] = EntryMeaning(kind, x)]
  <2>1. DOMAIN new = DOMAIN rows /\ \A j \in DOMAIN rows : new[j] = IF j = i THEN x ELSE rows[j]
    BY <1>6
  <2>. HIDE DEF new
  <2>. DEFINE z == EntryMeaning(kind, x)
  <2>2. EntriesMean(kind, new) = [j \in DOMAIN rows |-> IF j = i THEN z ELSE EntryMeaning(kind, rows[j])]
    BY <2>1 DEF EntriesMean
  <2>. HIDE DEF z
  <2>3. [m EXCEPT ![i] = z] = [j \in DOMAIN rows |-> IF j = i THEN z ELSE EntryMeaning(kind, rows[j])]
    BY DEF EntriesMean
  <2>. QED
    BY <2>2, <2>3 DEF z
<1>8. m[i] = EntryMeaning(kind, rows[i])
  BY <1>6 DEF EntriesMean
<1>9. Meaning(Stored(d, [s EXCEPT !.rows[kind] = new]))
        = WithFirst(Meaning(d), [ms EXCEPT !.rows[kind] = EntriesMean(kind, new)])
  BY RowsMeanSet
<1>. HIDE DEF m, new, ms, s
<1>10. [ms EXCEPT !.rows[kind][i][field] = v] = [ms EXCEPT !.rows[kind] = [m EXCEPT ![i] = y]]
  <2>1. [ms EXCEPT !.rows[kind][i][field] = v]
          = [ms EXCEPT !.rows[kind] = [ms.rows[kind] EXCEPT ![i] = [ms.rows[kind][i] EXCEPT ![field] = v]]]
    OBVIOUS
  <2>. QED
    BY <1>5, <1>8, <2>1
<1>11. EntriesMean(kind, new) = [m EXCEPT ![i] = y]
  BY <1>3, <1>7
<1>12. Meaning(SetEntryAt(d, kind, i, field, v)) = WithFirst(Meaning(d), [ms EXCEPT !.rows[kind] = [m EXCEPT ![i] = y]])
  BY <1>4, <1>9, <1>11
<1>. QED
  BY <1>10, <1>12 DEF WithCell, ms, s

\* No extension mapping but the canonical one.
Canonical(d) == \A k \in ToSet(ExtKeys) \ {"x-powerlab"} : ~d.ext[k].on

LEMMA ViewOrderSet ==
  LET order == <<"x-powerlab", "x-casaos", "x-web">>
  IN  ToSet(order) = {"x-powerlab", "x-casaos", "x-web"}
<1>. DEFINE order == <<"x-powerlab", "x-casaos", "x-web">>
<1>1. DOMAIN order = 1..3 /\ order[1] = "x-powerlab" /\ order[2] = "x-casaos" /\ order[3] = "x-web"
  OBVIOUS
<1>2. \A i \in 1..3 : i = 1 \/ i = 2 \/ i = 3
  OBVIOUS
<1>3. 1 \in 1..3 /\ 2 \in 1..3 /\ 3 \in 1..3
  OBVIOUS
<1>. HIDE DEF order
<1>4. ToSet(order) = {"x-powerlab", "x-casaos", "x-web"}
  BY <1>1, <1>2, <1>3 DEF ToSet
<1>. QED
  BY <1>4 DEF order

\* With one extension mapping, both readings are of that one.
LEMMA CanonicalMeans ==
  ASSUME NEW d, d.ext \in [ToSet(ExtKeys) -> Exts], Canonical(d)
  PROVE  LET x == d.ext["x-powerlab"]
         IN  ViewPort(d) = x.port /\ ExtMean(d) = [id |-> x.id, rest |-> x.rest]
<1>. DEFINE x == d.ext["x-powerlab"]
           order == <<"x-powerlab", "x-casaos", "x-web">>
           S == {k \in ToSet(order) : d.ext[k].on}
           R == {k \in ToSet(ExtKeys) : d.ext[k].on}
<1>1. "x-powerlab" \in ToSet(ExtKeys) /\ ExtKeys \in Seq(ToSet(ExtKeys)) /\ x \in Exts
  BY ExtKeySet
<1>2. order \in Seq(ToSet(order)) /\ order # <<>> /\ order[1] = "x-powerlab" /\ "x-powerlab" \in ToSet(order)
  BY ViewOrder
<1>3. ToSet(order) = ToSet(ExtKeys)
  BY ExtKeySet, ViewOrderSet
<1>4. ExtKeys # <<>> /\ ExtKeys[1] = "x-powerlab"
  BY DEF ExtKeys
<1>5. ViewPort(d) = IF Where(order, S) = <<>> THEN Absent ELSE d.ext[Where(order, S)[1]].port
  BY DEF ViewPort
<1>6. ReadExt(d).ext = IF Where(ExtKeys, R) = <<>> THEN NoExt ELSE d.ext[Where(ExtKeys, R)[1]]
  BY DEF ReadExt
<1>7. \A k \in ToSet(ExtKeys) : k # "x-powerlab" => ~d.ext[k].on
  BY DEF Canonical
<1>. HIDE DEF order, x
<1>8. CASE x.on
  <2>1. "x-powerlab" \in S /\ "x-powerlab" \in R
    BY <1>1, <1>2, <1>8 DEF x
  <2>. HIDE DEF S, R
  <2>2. Where(order, S) # <<>> /\ Where(order, S)[1] = "x-powerlab"
    BY <1>2, <2>1, WhereFirst
  <2>3. Where(ExtKeys, R) # <<>> /\ Where(ExtKeys, R)[1] = "x-powerlab"
    BY <1>1, <1>4, <2>1, WhereFirst
  <2>4. ViewPort(d) = x.port
    BY <1>5, <2>2 DEF x
  <2>5. ReadExt(d).ext = x
    BY <1>6, <2>3 DEF x
  <2>. QED
    BY <2>4, <2>5 DEF ExtMean, x
<1>9. CASE ~x.on
  <2>1. S = {} /\ R = {}
    BY <1>3, <1>7, <1>9 DEF x
  <2>. HIDE DEF S, R
  <2>2. Where(order, S) = <<>>
    BY <1>2, <2>1, WhereEmpty
  <2>3. Where(ExtKeys, R) = <<>>
    BY <1>1, <2>1, WhereEmpty
  <2>4. x.port = Absent /\ x.id = FALSE /\ x.rest = FALSE
    BY <1>1, <1>9, ExtIs
  <2>5. ViewPort(d) = x.port
    BY <1>5, <2>2, <2>4, Zenon
  <2>6. ReadExt(d).ext = NoExt
    BY <1>6, <2>3, Zenon
  <2>7. NoExt.id = FALSE /\ NoExt.rest = FALSE
    BY DEF NoExt
  <2>8. ExtMean(d) = [id |-> x.id, rest |-> x.rest]
    BY <2>4, <2>6, <2>7, Zenon DEF ExtMean
  <2>. QED
    BY <2>5, <2>8 DEF x
<1>. QED
  BY <1>8, <1>9

\* The port is written, and the mapping keeps its store id and the rest.
LEMMA WebPortIs ==
  ASSUME NEW d, Good(d), NEW v \in Text
  PROVE  LET w == SetWebPort(d, v)
             x == d.ext["x-powerlab"]
         IN  /\ w.name = d.name /\ w.icon = d.icon /\ w.services = d.services
             /\ \A k \in ToSet(ExtKeys) : k # "x-powerlab" => w.ext[k] = d.ext[k]
             /\ w.ext["x-powerlab"].port = v /\ w.ext["x-powerlab"].id = x.id /\ w.ext["x-powerlab"].rest = x.rest
<1>. DEFINE x == d.ext["x-powerlab"]
           moved == [x EXCEPT !.port = v]
           keep == v # "" \/ moved.id \/ moved.rest
           put == IF keep THEN [moved EXCEPT !.on = TRUE] ELSE NoExt
           w == [d EXCEPT !.ext["x-powerlab"] = put]
<1>1. /\ d = [name |-> d.name, icon |-> d.icon, ext |-> d.ext, services |-> d.services]
      /\ d.ext \in [ToSet(ExtKeys) -> Exts]
  BY GoodIs
<1>2. "x-powerlab" \in ToSet(ExtKeys)
  BY ExtKeySet
<1>3. SetWebPort(d, v) = w
  BY DEF SetWebPort
<1>4. x.id \in BOOLEAN /\ x.rest \in BOOLEAN
      /\ x = [on |-> x.on, port |-> x.port, id |-> x.id, rest |-> x.rest]
  BY <1>1, <1>2, ExtIs
<1>. HIDE DEF x
<1>5. moved = [on |-> x.on, port |-> v, id |-> x.id, rest |-> x.rest]
  BY <1>4, ExtWith
<1>6. put.port = v /\ put.id = x.id /\ put.rest = x.rest
  <2>. HIDE DEF moved
  <2>1. moved.port = v /\ moved.id = x.id /\ moved.rest = x.rest
    BY <1>5
  <2>2. CASE keep
    <3>1. \A t : [moved EXCEPT !.on = t].port = v /\ [moved EXCEPT !.on = t].id = x.id
                 /\ [moved EXCEPT !.on = t].rest = x.rest
      BY <1>5, <2>1
    <3>. HIDE DEF keep
    <3>2. put = [moved EXCEPT !.on = TRUE]
      BY <2>2, Zenon
    <3>. HIDE DEF put
    <3>. QED
      BY <3>1, <3>2, Zenon
  <2>3. CASE ~keep
    <3>1. v = Absent /\ x.id = FALSE /\ x.rest = FALSE
      BY <1>4, <2>1, <2>3 DEF Absent
    <3>2. NoExt.port = Absent /\ NoExt.id = FALSE /\ NoExt.rest = FALSE
      BY DEF NoExt
    <3>. HIDE DEF keep
    <3>3. put = NoExt
      BY <2>3, Zenon
    <3>. HIDE DEF put
    <3>. QED
      BY <3>1, <3>2, <3>3, Zenon
  <2>. QED
    BY <2>2, <2>3
<1>. HIDE DEF put
<1>7. w.name = d.name /\ w.icon = d.icon /\ w.services = d.services
      /\ w.ext = [d.ext EXCEPT !["x-powerlab"] = put]
  BY <1>1
<1>8. \A k \in ToSet(ExtKeys) : w.ext[k] = IF k = "x-powerlab" THEN put ELSE d.ext[k]
  BY <1>1, <1>7
<1>. HIDE DEF w
<1>. QED
  BY <1>2, <1>3, <1>6, <1>7, <1>8 DEF x

LEMMA WebMeans ==
  ASSUME NEW d, Good(d), NEW v \in Text, Canonical(d)
  PROVE  Meaning(SetWebPort(d, v)) = [Meaning(d) EXCEPT !.web = v]
<1>. DEFINE w == SetWebPort(d, v)
           x == d.ext["x-powerlab"]
           y == w.ext["x-powerlab"]
           m == DocMean(d.name, d.icon, ViewPort(d), ExtMean(d), ServicesMean(d.services))
<1>1. /\ w.name = d.name /\ w.icon = d.icon /\ w.services = d.services
      /\ \A k \in ToSet(ExtKeys) : k # "x-powerlab" => w.ext[k] = d.ext[k]
      /\ y.port = v /\ y.id = x.id /\ y.rest = x.rest
  BY WebPortIs
<1>2. Good(w)
  BY WebPortKeeps DEF Keeps
<1>. HIDE DEF w
<1>3. w.ext \in [ToSet(ExtKeys) -> Exts] /\ d.ext \in [ToSet(ExtKeys) -> Exts]
  BY <1>2, GoodIs
<1>4. Canonical(w)
  BY <1>1 DEF Canonical
<1>5. ViewPort(w) = y.port /\ ExtMean(w) = [id |-> y.id, rest |-> y.rest]
  BY <1>3, <1>4, CanonicalMeans
<1>6. ExtMean(d) = [id |-> x.id, rest |-> x.rest]
  BY <1>3, CanonicalMeans
<1>. HIDE DEF x, y
<1>7. ViewPort(w) = v /\ ExtMean(w) = ExtMean(d)
  BY <1>1, <1>5, <1>6
<1>8. Meaning(w) = DocMean(d.name, d.icon, v, ExtMean(d), ServicesMean(d.services))
  BY <1>1, <1>7, MeaningIs, Zenon
<1>9. Meaning(d) = m
  BY MeaningIs
<1>10. [m EXCEPT !.web = v] = DocMean(d.name, d.icon, v, ExtMean(d), ServicesMean(d.services))
  BY DEF DocMean
<1>. QED
  BY <1>8, <1>9, <1>10 DEF w

LEMMA FirstReplaced ==
  ASSUME NEW T, NEW s \in Seq(T), s # <<>>, NEW x \in T
  PROVE  <<x>> \o Tail(s) = [s EXCEPT ![1] = x]
<1>. DEFINE w == Tail(s)
           u == <<x>> \o w
           e == [s EXCEPT ![1] = x]
           n == Len(s)
<1>1. DOMAIN s = 1..n /\ n \in Nat /\ 1 \in DOMAIN s
  BY FirstIs
<1>2. w \in Seq(T) /\ Len(w) = n - 1 /\ \A i \in 1..Len(w) : w[i] = s[i + 1]
  BY HeadTailProperties
<1>. HIDE DEF w
<1>3. u \in Seq(T) /\ DOMAIN u = 1..(Len(w) + 1) /\ u[1] = x /\ \A j \in DOMAIN w : u[j + 1] = w[j]
  BY <1>2, ConsIs
<1>4. e \in Seq(T)
  BY <1>1, ExceptSeq
<1>5. DOMAIN e = 1..n /\ e[1] = x /\ \A i \in 1..n : i # 1 => e[i] = s[i]
  BY <1>1
<1>6. DOMAIN w = 1..(n - 1) /\ DOMAIN u = 1..n
  <2>1. DOMAIN w = 1..Len(w)
    BY <1>2, LenProperties
  <2>2. Len(w) = n - 1 /\ Len(w) + 1 = n
    BY <1>1, <1>2
  <2>. HIDE DEF u, n
  <2>. QED
    BY <1>3, <2>1, <2>2
<1>. HIDE DEF u, e
<1>7. \A i \in 1..n : u[i] = e[i]
  <2>. SUFFICES ASSUME NEW i \in 1..n PROVE u[i] = e[i]
    OBVIOUS
  <2>1. CASE i = 1
    BY <1>3, <1>5, <2>1
  <2>2. CASE i # 1
    <3>1. i - 1 \in 1..(n - 1) /\ (i - 1) + 1 = i
      BY <1>1, <2>2
    <3>. QED
      BY <1>2, <1>3, <1>5, <1>6, <2>2, <3>1
  <2>. QED
    BY <2>1, <2>2
<1>8. Len(u) = Len(e) /\ Len(u) = n
  <2>1. DOMAIN u = DOMAIN e /\ DOMAIN u = DOMAIN s
    BY <1>1, <1>5, <1>6
  <2>. QED
    BY <1>3, <1>4, <2>1, SameLength
<1>9. u = e
  BY <1>3, <1>4, <1>7, <1>8, SeqEqual
<1>. QED
  BY <1>9 DEF u, e, w

\* The first service has a name, and no later one has the new one.
Renames(d, k) ==
    d.services # <<>> => d.services[1].key # "" /\ \A i \in 2..Len(d.services) : d.services[i].key # k

\* A name no later service has replaces the first service's name.
LEMMA RenamedIs ==
  ASSUME NEW d, Good(d), NEW k \in Text,
         Renames(d, k)
  PROVE  SetServiceName(d, k)
           = Stored(d, IF d.services = <<>> THEN Blank(k) ELSE [EnsureService(d) EXCEPT !.key = k])
<1>. DEFINE all == d.services
           others == Tail(all)
           clash == {i \in DOMAIN others : others[i].key = k}
           S == {s \in ToSet(others) : s.key # k}
           rest == Where(others, S)
           x == [all[1] EXCEPT !.key = k]
           first == IF clash = {} THEN x ELSE others[CHOOSE i \in clash : TRUE]
<1>1. all \in Seq(Services) /\ d = [name |-> d.name, icon |-> d.icon, ext |-> d.ext, services |-> d.services]
  BY GoodIs
<1>2. CASE all = <<>>
  BY <1>2 DEF SetServiceName, Stored
<1>3. CASE all # <<>>
  <2>1. EnsureService(d) = all[1] /\ 1 \in DOMAIN all /\ all[1] \in Services
        /\ DOMAIN all = 1..Len(all) /\ Len(all) \in Nat
    BY <1>1, <1>3, FirstIs DEF EnsureService
  <2>2. Stored(d, x) = [d EXCEPT !.services = [all EXCEPT ![1] = x]]
    BY <1>3 DEF Stored
  <2>3. CASE k = all[1].key
    <3>1. SetServiceName(d, k) = d
      BY <1>3, <2>3 DEF SetServiceName, Renames
    <3>2. x = all[1]
      <4>. DEFINE s == all[1]
      <4>1. s = [key |-> s.key, scalar |-> s.scalar, rows |-> s.rows, env |-> s.env, labels |-> s.labels,
                 mem |-> s.mem, memLimit |-> s.memLimit, deployRest |-> s.deployRest]
        BY <2>1 DEF Services
      <4>. HIDE DEF s
      <4>2. [s EXCEPT !.key = s.key] = s
        BY <4>1
      <4>. QED
        BY <2>3, <4>2 DEF s
    <3>. HIDE DEF x
    <3>3. [all EXCEPT ![1] = x] = all
      <4>1. all \in [1..Len(all) -> Services]
        BY <1>1, LenProperties
      <4>. HIDE DEF all
      <4>. QED
        BY <2>1, <3>2, <4>1
    <3>4. [d EXCEPT !.services = all] = d
      BY <1>1
    <3>. QED
      BY <1>3, <2>1, <2>2, <3>1, <3>3, <3>4 DEF x
  <2>4. CASE k # all[1].key
    <3>1. SetServiceName(d, k) = [d EXCEPT !.services = <<first>> \o rest]
      BY <1>3, <2>4 DEF SetServiceName, Renames
    <3>2. others \in Seq(Services) /\ Len(others) = Len(all) - 1
          /\ \A i \in 1..Len(others) : others[i] = all[i + 1]
      BY <1>1, <1>3, HeadTailProperties
    <3>. HIDE DEF others
    <3>3. DOMAIN others = 1..Len(others) /\ \A i \in 1..Len(others) : i + 1 \in 2..Len(all)
      <4>1. DOMAIN others = 1..Len(others)
        BY <3>2, LenProperties
      <4>2. \A m, n \in Nat : m = n - 1 => \A i \in 1..m : i + 1 \in 2..n
        OBVIOUS
      <4>3. Len(others) \in Nat
        BY <3>2, LenProperties
      <4>4. \A i \in 1..Len(others) : i + 1 \in 2..Len(all)
        BY <2>1, <3>2, <4>2, <4>3, Zenon
      <4>. QED
        BY <4>1, <4>4
    <3>. HIDE DEF all
    <3>4. \A i \in DOMAIN others : others[i].key # k
      BY <1>3, <3>2, <3>3 DEF all, Renames
    <3>5. clash = {}
      BY <3>4
    <3>6. \A i \in DOMAIN others : others[i] \in S
      BY <3>4 DEF ToSet
    <3>. HIDE DEF S, x
    <3>7. rest = others
      BY <3>2, <3>6, WhereAll
    <3>8. first = x
      BY <3>5
    <3>9. x \in Services
      BY <2>1 DEF x, Services
    <3>10. <<x>> \o others = [all EXCEPT ![1] = x]
      BY <1>1, <1>3, <3>9, FirstReplaced DEF others
    <3>. HIDE DEF rest, first
    <3>11. SetServiceName(d, k) = Stored(d, x)
      BY <2>2, <3>1, <3>7, <3>8, <3>10
    <3>. QED
      BY <1>3, <2>1, <3>11 DEF x, all
  <2>. QED
    BY <2>3, <2>4
<1>. QED
  BY <1>2, <1>3

LEMMA ServiceNameMeans ==
  ASSUME NEW d, Good(d), NEW k \in Text,
         Renames(d, k)
  PROVE  Meaning(SetServiceName(d, k))
           = WithFirst(Meaning(d), [(IF Meaning(d).services = <<>> THEN ServiceMeaning(Blank(""))
                                     ELSE ServiceMeaning(EnsureService(d))) EXCEPT !.key = k])
<1>. DEFINE s == EnsureService(d)
           x == [s EXCEPT !.key = k]
           b == [ServiceMeaning(Blank("")) EXCEPT !.key = k]
           a == [ServiceMeaning(s) EXCEPT !.key = k]
<1>1. d.services \in Seq(Services)
  BY GoodIs
<1>2. Meaning(d).services = ServicesMean(d.services)
  BY MeaningIs DEF DocMean
<1>3. Meaning(d).services = <<>> <=> d.services = <<>>
  BY <1>1, <1>2, FirstMeans
<1>4. SetServiceName(d, k) = Stored(d, IF d.services = <<>> THEN Blank(k) ELSE x)
  BY RenamedIs
<1>5. s \in Services /\ Blank("") \in Services
  BY EnsureGood, BlankGood, TextsAre DEF GoodService
<1>6. ServiceMeaning(x) = a
  BY <1>5, KeyMeans
<1>7. ServiceMeaning(Blank(k)) = b
  <2>. DEFINE sc == [f \in Scalars |-> Absent]
              r == [kind \in EntryKinds |-> <<>>]
              no == FALSE
              Bl(e) == [key |-> e, scalar |-> sc, rows |-> r, env |-> NoPairs, labels |-> NoPairs,
                        mem |-> 0, memLimit |-> 0, deployRest |-> no]
  <2>0. \A e : Blank(e) = Bl(e)
    BY Zenon DEF Blank
  <2>. HIDE DEF sc, r, no
  <2>3. \A e : [Bl(e) EXCEPT !.key = k] = Bl(k)
    OBVIOUS
  <2>. HIDE DEF Bl
  <2>1. \A e : [Blank(e) EXCEPT !.key = k] = Blank(k)
    BY <2>0, <2>3
  <2>2. Blank(k) = [Blank("") EXCEPT !.key = k]
    BY <2>1, Zenon
  <2>. QED
    BY <1>5, <2>2, KeyMeans
<1>8. \A y : Meaning(Stored(d, y)) = WithFirst(Meaning(d), ServiceMeaning(y))
  BY StoredMeans
<1>. HIDE DEF x, a, b
<1>9. CASE d.services = <<>>
  <2>1. Meaning(SetServiceName(d, k)) = WithFirst(Meaning(d), b)
    BY <1>4, <1>7, <1>8, <1>9
  <2>. QED
    BY <1>3, <1>9, <2>1 DEF b
<1>10. CASE d.services # <<>>
  <2>1. Meaning(SetServiceName(d, k)) = WithFirst(Meaning(d), a)
    BY <1>4, <1>6, <1>8, <1>10
  <2>. QED
    BY <1>3, <1>10, <2>1 DEF a
<1>. QED
  BY <1>9, <1>10

\* Every pair says what its value is.
NoBare(p) == \A i \in DOMAIN p.e : p.e[i].val # Bare

LEMMA ViewSame ==
  ASSUME NEW p \in PairLists, NoBare(p)
  PROVE  ViewPairs(p) = p.e
<1>1. p.e \in Seq(PairT)
  BY PairListIs
<1>2. \A i \in DOMAIN p.e : p.e[i] \in PairT
  BY <1>1, LenProperties, ElementOfSeq
<1>3. \A x \in PairT : [x EXCEPT !.val = x.val] = x
  BY DEF PairT
<1>4. \A i \in DOMAIN p.e :
        [p.e[i] EXCEPT !.val = IF @ # Bare THEN @ ELSE IF p.form = "map" THEN "null" ELSE ""] = p.e[i]
  <2>. SUFFICES ASSUME NEW i \in DOMAIN p.e
                PROVE  [p.e[i] EXCEPT !.val = IF @ # Bare THEN @ ELSE IF p.form = "map" THEN "null" ELSE ""] = p.e[i]
    OBVIOUS
  <2>. DEFINE y == IF p.e[i].val # Bare THEN p.e[i].val ELSE IF p.form = "map" THEN "null" ELSE ""
  <2>1. y = p.e[i].val
    BY Zenon DEF NoBare
  <2>. HIDE DEF y
  <2>2. [p.e[i] EXCEPT !.val = y] = p.e[i]
    BY <1>2, <1>3, <2>1
  <2>. QED
    BY <2>2 DEF y
<1>5. ViewPairs(p) = [i \in DOMAIN p.e |-> p.e[i]]
  BY <1>4, Zenon DEF ViewPairs
<1>6. p.e \in [1..Len(p.e) -> PairT]
  BY <1>1, LenProperties
<1>. QED
  BY <1>5, <1>6

LEMMA EnvMeanSet ==
  ASSUME NEW d, Good(d), NEW p
  PROVE  /\ Meaning(Stored(d, [EnsureService(d) EXCEPT !.env = p]))
              = WithFirst(Meaning(d), [ServiceMeaning(EnsureService(d)) EXCEPT !.env = Keyed(p.e)])
         /\ [ServiceMeaning(EnsureService(d)) EXCEPT !.env = Keyed(EnsureService(d).env.e)]
              = ServiceMeaning(EnsureService(d))
<1>. DEFINE s == EnsureService(d)
           x == [s EXCEPT !.env = p]
           m == ServiceMean(s.key, s.scalar, RowsMean(s.rows), Keyed(s.env.e), LabelsMean(s.labels.e),
                            MemMean(s), s.deployRest)
<1>1. s \in Services
  BY EnsureGood DEF GoodService
<1>2. ServiceMeaning(x) = [ServiceMeaning(s) EXCEPT !.env = Keyed(p.e)]
  BY <1>1, EnvMeans
<1>. HIDE DEF x
<1>3. Meaning(Stored(d, x)) = WithFirst(Meaning(d), ServiceMeaning(x))
  BY StoredMeans
<1>4. ServiceMeaning(s) = m
  BY ServiceMeans
<1>5. [m EXCEPT !.env = Keyed(s.env.e)] = m
  BY DEF ServiceMean
<1>6. [ServiceMeaning(s) EXCEPT !.env = Keyed(s.env.e)] = ServiceMeaning(s)
  BY <1>4, <1>5
<1>. QED
  BY <1>2, <1>3, <1>6 DEF x

\* A new row has no key, so it means nothing yet.
LEMMA AddEnvMeans ==
  ASSUME NEW d, Good(d), EnsureService(d).env.form # "map"
  PROVE  Meaning(AddEnv(d)) = WithFirst(Meaning(d), ServiceMeaning(EnsureService(d)))
<1>. DEFINE s == EnsureService(d)
           e == s.env.e
           list == IF s.env.form = "list" THEN s.env.e ELSE <<>>
           none == Pair("", "")
           new == Pairs("list", Append(list, none))
<1>1. e \in Seq(PairT) /\ list = e
  <2>1. s.env \in PairLists
    BY EnvKeeps
  <2>2. e \in Seq(PairT) /\ s.env.form \in {"none", "list", "map"} /\ (s.env.form = "none" => e = <<>>)
    BY <2>1, PairListIs
  <2>. QED
    BY <2>2
<1>2. none \in PairT /\ none.key = ""
  BY TextsAre, PairTyped
<1>. HIDE DEF none, list, e
<1>3. new.e = Append(e, none)
  BY <1>1 DEF Pairs
<1>4. Keyed(Append(e, none)) = Keyed(e)
  BY <1>1, <1>2, KeyedAppend
<1>5. AddEnv(d) = Stored(d, [s EXCEPT !.env = new])
  BY DEF AddEnv, list, none
<1>. HIDE DEF new
<1>6. Meaning(Stored(d, [s EXCEPT !.env = new])) = WithFirst(Meaning(d), [ServiceMeaning(s) EXCEPT !.env = Keyed(new.e)])
  BY EnvMeanSet
<1>7. [ServiceMeaning(s) EXCEPT !.env = Keyed(e)] = ServiceMeaning(s)
  BY EnvMeanSet DEF e
<1>. QED
  BY <1>3, <1>4, <1>5, <1>6, <1>7

LEMMA WrittenMeans ==
  ASSUME NEW list \in Seq(PairT)
  PROVE  LET new == IF list = <<>> THEN NoPairs ELSE Pairs("list", Keyed(list))
         IN  Keyed(new.e) = Keyed(list)
<1>. DEFINE new == IF list = <<>> THEN NoPairs ELSE Pairs("list", Keyed(list))
<1>1. CASE list = <<>>
  <2>1. new.e = list
    BY <1>1 DEF NoPairs
  <2>. QED
    BY <2>1
<1>2. CASE list # <<>>
  <2>1. new.e = Keyed(list)
    BY <1>2 DEF Pairs
  <2>2. Keyed(Keyed(list)) = Keyed(list)
    BY KeyedTwice
  <2>. QED
    BY <2>1, <2>2
<1>. QED
  BY <1>1, <1>2

LEMMA SetEnvMeans ==
  ASSUME NEW d, Good(d), NoBare(EnsureService(d).env), NEW i \in DOMAIN EnsureService(d).env.e,
         NEW field \in PairFields, NEW v \in Text
  PROVE  Meaning(SetEnvAt(d, i, field, v))
           = WithFirst(Meaning(d), [ServiceMeaning(EnsureService(d)) EXCEPT !.env =
                                       Keyed(WithField(EnsureService(d).env.e, i, field, v))])
<1>. DEFINE s == EnsureService(d)
           list == [s.env.e EXCEPT ![i][field] = v]
           F == {p \in ToSet(list) : p.key # "" \/ p.val # ""}
           filled == Where(list, F)
           new == IF filled = <<>> THEN NoPairs ELSE Pairs("list", Keyed(filled))
<1>1. s.env \in PairLists /\ s.env.e \in Seq(PairT)
  BY EnvKeeps, PairListIs
<1>2. ViewPairs(s.env) = s.env.e
  BY <1>1, ViewSame
<1>3. list \in Seq(PairT)
  BY <1>1, SetPairTyped
<1>4. SetEnvAt(d, i, field, v) = Stored(d, [s EXCEPT !.env = new])
  BY <1>2 DEF SetEnvAt
<1>. HIDE DEF list
<1>5. \A n \in DOMAIN list : list[n].key # "" => list[n] \in F
  BY DEF ToSet
<1>. HIDE DEF F
<1>6. filled \in Seq(PairT) /\ Keyed(filled) = Keyed(list)
  BY <1>3, <1>5, WhereTyped, KeyedTwice
<1>. HIDE DEF filled
<1>7. Keyed(new.e) = Keyed(list)
  BY <1>6, WrittenMeans
<1>. HIDE DEF new
<1>8. Meaning(Stored(d, [s EXCEPT !.env = new])) = WithFirst(Meaning(d), [ServiceMeaning(s) EXCEPT !.env = Keyed(new.e)])
  BY EnvMeanSet
<1>. QED
  BY <1>4, <1>7, <1>8 DEF WithField, list

LEMMA RemoveEnvMeans ==
  ASSUME NEW d, Good(d), NoBare(EnsureService(d).env), NEW i \in DOMAIN EnsureService(d).env.e
  PROVE  Meaning(RemoveEnvAt(d, i))
           = WithFirst(Meaning(d), [ServiceMeaning(EnsureService(d)) EXCEPT !.env =
                                       Keyed(RemoveAt(EnsureService(d).env.e, i))])
<1>. DEFINE s == EnsureService(d)
           list == RemoveAt(s.env.e, i)
           new == IF list = <<>> THEN NoPairs ELSE Pairs("list", Keyed(list))
<1>1. s.env \in PairLists /\ s.env.e \in Seq(PairT)
  BY EnvKeeps, PairListIs
<1>2. ViewPairs(s.env) = s.env.e
  BY <1>1, ViewSame
<1>3. list \in Seq(PairT)
  BY <1>1, RemoveAtIs
<1>4. RemoveEnvAt(d, i) = Stored(d, [s EXCEPT !.env = new])
  BY <1>2 DEF RemoveEnvAt
<1>. HIDE DEF list
<1>5. Keyed(new.e) = Keyed(list)
  BY <1>3, WrittenMeans
<1>. HIDE DEF new
<1>6. Meaning(Stored(d, [s EXCEPT !.env = new])) = WithFirst(Meaning(d), [ServiceMeaning(s) EXCEPT !.env = Keyed(new.e)])
  BY EnvMeanSet
<1>. QED
  BY <1>4, <1>5, <1>6 DEF list

LEMMA LabelsMeanSet ==
  ASSUME NEW d, Good(d), NEW p
  PROVE  /\ Meaning(Stored(d, [EnsureService(d) EXCEPT !.labels = p]))
              = WithFirst(Meaning(d), [ServiceMeaning(EnsureService(d)) EXCEPT !.labels = LabelsMean(p.e)])
         /\ ServiceMeaning(EnsureService(d)).labels = LabelsMean(EnsureService(d).labels.e)
<1>. DEFINE s == EnsureService(d)
           x == [s EXCEPT !.labels = p]
<1>1. s \in Services
  BY EnsureGood DEF GoodService
<1>2. ServiceMeaning(x) = [ServiceMeaning(s) EXCEPT !.labels = LabelsMean(p.e)]
  BY <1>1, LabelsMeans
<1>. HIDE DEF x
<1>3. Meaning(Stored(d, x)) = WithFirst(Meaning(d), ServiceMeaning(x))
  BY StoredMeans
<1>4. ServiceMeaning(s).labels = LabelsMean(s.labels.e)
  BY ServiceMeans DEF ServiceMean
<1>. QED
  BY <1>2, <1>3, <1>4 DEF x

LEMMA LabelIs ==
  ASSUME NEW p \in PairT
  PROVE  /\ LabelMeaning(p) \in PairT /\ LabelMeaning(p).key = p.key
         /\ LabelMeaning(p).val = (IF p.val = Bare THEN "" ELSE p.val)
         /\ p.val # Bare => LabelMeaning(p) = p
<1>. DEFINE a == IF p.val = Bare THEN "" ELSE p.val
<1>1. a \in Text
  BY TextsAre, Zenon DEF PairT
<1>2. LabelMeaning(p) = [p EXCEPT !.val = a]
  BY DEF LabelMeaning
<1>3. p.val # Bare => a = p.val
  BY Zenon
<1>. HIDE DEF a
<1>4. [p EXCEPT !.val = a] \in PairT /\ [p EXCEPT !.val = a].key = p.key /\ [p EXCEPT !.val = a].val = a
  BY <1>1 DEF PairT
<1>5. a = p.val => [p EXCEPT !.val = a] = p
  BY DEF PairT
<1>. QED
  BY <1>2, <1>3, <1>4, <1>5 DEF a

\* The last value a key takes from the row is a value.
LEMMA NotBare == "" # Bare /\ \A v \in Input : v # Bare
<1>1. "" # Bare
  BY DEF Bare
<1>2. Bare \notin Vals
  BY DocConstantsOK, Zenon
<1>. QED
  BY <1>1, <1>2 DEF Input

LEMMA WhereSet ==
  ASSUME NEW T, NEW s \in Seq(T), NEW S
  PROVE  ToSet(Where(s, S)) = {s[i] : i \in Kept(s, S)}
<1>. DEFINE w == Where(s, S)
           K == Kept(s, S)
<1>1. PICK f : Picks(w, f, s, K)
  BY WhereIs
<1>. HIDE DEF w, K
<1>2. \A n \in DOMAIN w : f[n] \in K /\ w[n] = s[f[n]]
  BY <1>1 DEF Picks
<1>3. \A k \in K : \E n \in DOMAIN w : f[n] = k
  BY <1>1 DEF Picks
<1>4. ToSet(w) = {s[i] : i \in K}
  BY <1>2, <1>3 DEF ToSet
<1>. QED
  BY <1>4 DEF w, K

LEMMA RemoveAtSet ==
  ASSUME NEW T, NEW s \in Seq(T), NEW i \in DOMAIN s
  PROVE  ToSet(RemoveAt(s, i)) = {s[j] : j \in DOMAIN s \ {i}}
<1>. DEFINE w == RemoveAt(s, i)
           n == Len(s)
<1>1. n \in Nat /\ DOMAIN s = 1..n
  BY LenProperties
<1>2. DOMAIN w = 1..(n - 1) /\ \A j \in 1..(n - 1) : w[j] = IF j < i THEN s[j] ELSE s[j + 1]
  BY RemoveAtIs
<1>. HIDE DEF w, n
<1>3. \A j \in DOMAIN w : \E k \in DOMAIN s \ {i} : w[j] = s[k]
  <2>. SUFFICES ASSUME NEW j \in DOMAIN w PROVE \E k \in DOMAIN s \ {i} : w[j] = s[k]
    OBVIOUS
  <2>1. CASE j < i
    <3>1. j \in DOMAIN s \ {i} /\ w[j] = s[j]
      BY <1>1, <1>2, <2>1
    <3>. QED
      BY <3>1
  <2>2. CASE ~(j < i)
    <3>1. j + 1 \in DOMAIN s \ {i} /\ w[j] = s[j + 1]
      BY <1>1, <1>2, <2>2
    <3>. QED
      BY <3>1
  <2>. QED
    BY <2>1, <2>2
<1>4. \A k \in DOMAIN s \ {i} : \E j \in DOMAIN w : w[j] = s[k]
  <2>. SUFFICES ASSUME NEW k \in DOMAIN s \ {i} PROVE \E j \in DOMAIN w : w[j] = s[k]
    OBVIOUS
  <2>1. CASE k < i
    <3>1. k \in DOMAIN w /\ w[k] = s[k]
      BY <1>1, <1>2, <2>1
    <3>. QED
      BY <3>1
  <2>2. CASE ~(k < i)
    <3>1. k - 1 \in DOMAIN w /\ ~(k - 1 < i) /\ k - 1 + 1 = k
      BY <1>1, <1>2, <2>2
    <3>2. w[k - 1] = s[k]
      BY <1>2, <3>1
    <3>. QED
      BY <3>1, <3>2
  <2>. QED
    BY <2>1, <2>2
<1>5. ToSet(w) = {s[j] : j \in DOMAIN s \ {i}}
  BY <1>3, <1>4 DEF ToSet
<1>. QED
  BY <1>5 DEF w

\* Labels whose view is what they mean.
Legible(p) == p.form = "map" => NoBare(p)

LEMMA LabelView ==
  ASSUME NEW p \in PairLists, Legible(p)
  PROVE  LET w == ViewPairs(p)
         IN  /\ w \in Seq(PairT) /\ DOMAIN w = DOMAIN p.e
             /\ \A i \in DOMAIN w : w[i] = LabelMeaning(p.e[i]) /\ w[i].key = p.e[i].key /\ w[i].val # Bare
             /\ LabelsMean(p.e) = {w[i] : i \in DOMAIN w}
<1>. DEFINE w == ViewPairs(p)
<1>1. w \in Seq(PairT) /\ DOMAIN w = DOMAIN p.e /\ \A i \in DOMAIN p.e : w[i].key = p.e[i].key
  BY ViewPairsTyped
<1>2. p.form \in {"none", "list", "map"} /\ p.e \in Seq(PairT) /\ (p.form = "none" => p.e = <<>>)
  BY PairListIs
<1>3. \A i \in DOMAIN p.e : p.e[i] \in PairT
  BY <1>2, LenProperties, ElementOfSeq
<1>4. ASSUME NEW i \in DOMAIN p.e
      PROVE  w[i] = LabelMeaning(p.e[i])
  <2>. DEFINE q == p.e[i]
              a == IF q.val # Bare THEN q.val ELSE IF p.form = "map" THEN "null" ELSE ""
              b == IF q.val = Bare THEN "" ELSE q.val
  <2>1. w[i] = [q EXCEPT !.val = a]
    BY DEF ViewPairs
  <2>2. LabelMeaning(q) = [q EXCEPT !.val = b]
    BY DEF LabelMeaning
  <2>3. q.val = Bare => p.form # "map"
    BY Zenon DEF Legible, NoBare
  <2>4. a = b
    BY <2>3, Zenon
  <2>. QED
    BY <2>1, <2>2, <2>4
<1>5. \A i \in DOMAIN p.e : LabelMeaning(p.e[i]).val # Bare
  BY <1>3, LabelIs, NotBare
<1>. HIDE DEF w
<1>6. LabelsMean(p.e) = {w[i] : i \in DOMAIN w}
  BY <1>1, <1>4 DEF LabelsMean, ToSet
<1>. QED
  BY <1>1, <1>4, <1>5, <1>6 DEF w

\* Pairs with distinct keys and values, written as an object.
LEMMA ObjectMeans ==
  ASSUME NEW list \in Seq(PairT), Distinct(list), \A i \in DOMAIN list : list[i].val # Bare
  PROVE  LET new == IF list = <<>> THEN NoPairs ELSE Pairs("map", AsObject(list))
         IN  LabelsMean(new.e) = ToSet(list)
<1>. DEFINE new == IF list = <<>> THEN NoPairs ELSE Pairs("map", AsObject(list))
<1>1. AsObject(list) = list
  BY ObjectSame
<1>2. new.e = list
  BY <1>1 DEF NoPairs, Pairs
<1>3. \A i \in DOMAIN list : list[i] \in PairT
  BY LenProperties, ElementOfSeq
<1>4. \A i \in DOMAIN list : LabelMeaning(list[i]) = list[i]
  BY <1>3, LabelIs
<1>. HIDE DEF new
<1>5. LabelsMean(list) = ToSet(list)
  BY <1>4 DEF LabelsMean, ToSet
<1>. QED
  BY <1>2, <1>5 DEF new

\* No label has the key k.
Free(e, k) == \A i \in DOMAIN e : e[i].key # k

LEMMA AddLabelMeans ==
  ASSUME NEW d, Good(d), EnsureService(d).labels.form # "list",
         Len(EnsureService(d).labels.e) < MaxRows,
         Free(EnsureService(d).labels.e, NewLabel(Len(EnsureService(d).labels.e)))
  PROVE  Meaning(AddLabel(d))
           = WithFirst(Meaning(d), [ServiceMeaning(EnsureService(d)) EXCEPT !.labels =
                                       @ \cup {Pair(NewLabel(Len(EnsureService(d).labels.e)), "")}])
<1>. DEFINE s == EnsureService(d)
           ms == ServiceMeaning(s)
           e == s.labels.e
           list == IF s.labels.form = "map" THEN s.labels.e ELSE <<>>
           pair == Pair(NewLabel(Len(e)), "")
           all == Append(e, pair)
           new == Pairs("map", AsObject(all))
<1>1. s.labels \in PairLists /\ (s.labels.form = "map" => Distinct(e))
  BY LabelsKeep, EnsureGood DEF GoodService
<1>2. e \in Seq(PairT) /\ s.labels.form \in {"none", "list", "map"} /\ (s.labels.form = "none" => e = <<>>)
  BY <1>1, PairListIs
<1>3. list = e
  BY <1>2
<1>4. Distinct(e)
  <2>1. Distinct(<<>>)
    BY DEF Distinct
  <2>2. s.labels.form = "none" => Distinct(e)
    BY <1>2, <2>1, Zenon
  <2>. QED
    BY <1>1, <1>2, <2>2
<1>5. pair \in PairT /\ pair.key = NewLabel(Len(e)) /\ pair.val = ""
  <2>1. Len(e) \in Nat /\ MaxRows \in Nat /\ Len(e) < MaxRows
    BY <1>2, LenProperties, BoundsAre
  <2>2. Len(e) \in 0..MaxRows
    BY <2>1
  <2>3. \A n \in 0..MaxRows : NewLabel(n) \in Text
    BY DocConstantsOK
  <2>4. NewLabel(Len(e)) \in Text /\ "" \in Text
    BY <2>2, <2>3, TextsAre, Zenon
  <2>. QED
    BY <2>4, PairTyped, Zenon
<1>6. AddLabel(d) = Stored(d, [s EXCEPT !.labels = new])
  BY <1>3, Zenon DEF AddLabel
<1>7. LabelMeaning(pair) = pair
  BY <1>5, LabelIs, NotBare
<1>8. Free(e, pair.key)
  BY <1>5
<1>. HIDE DEF pair, e
<1>9. /\ all \in Seq(PairT) /\ Len(e) + 1 \in DOMAIN all /\ all[Len(e) + 1] = pair
      /\ \A i \in DOMAIN e : i \in DOMAIN all /\ all[i] = e[i]
      /\ \A i \in DOMAIN all : i \in DOMAIN e \/ i = Len(e) + 1
  BY <1>2, <1>5, AppendIs
<1>. HIDE DEF all
<1>10. Distinct(all)
  BY <1>4, <1>8, <1>9 DEF Distinct, Free
<1>11. new.e = all
  BY <1>9, <1>10, ObjectSame DEF Pairs
<1>12. ToSet(all) = ToSet(e) \cup {pair}
  BY <1>9 DEF ToSet
<1>13. LabelsMean(all) = LabelsMean(e) \cup {pair}
  BY <1>7, <1>12 DEF LabelsMean
<1>. HIDE DEF new, ms, s
<1>14. ms.labels = LabelsMean(e)
  BY LabelsMeanSet DEF ms, s, e
<1>15. Meaning(Stored(d, [s EXCEPT !.labels = new])) = WithFirst(Meaning(d), [ms EXCEPT !.labels = LabelsMean(new.e)])
  BY LabelsMeanSet DEF ms, s
<1>16. LabelsMean(new.e) = ms.labels \cup {pair}
  BY <1>11, <1>13, <1>14
<1>17. [ms EXCEPT !.labels = @ \cup {pair}] = [ms EXCEPT !.labels = ms.labels \cup {pair}]
  OBVIOUS
<1>18. Meaning(AddLabel(d)) = WithFirst(Meaning(d), [ms EXCEPT !.labels = @ \cup {pair}])
  BY <1>6, <1>15, <1>16, <1>17
<1>. QED
  BY <1>18 DEF pair, ms, s, e

\* All of a sequence with distinct keys but one element.
LEMMA AllButOne ==
  ASSUME NEW w \in Seq(PairT), Distinct(w), NEW i \in DOMAIN w
  PROVE  {w[j] : j \in DOMAIN w \ {i}} = {w[j] : j \in DOMAIN w} \ {w[i]}
BY DEF Distinct

LEMMA RemoveLabelMeans ==
  ASSUME NEW d, Good(d), Distinct(EnsureService(d).labels.e), Legible(EnsureService(d).labels),
         NEW i \in DOMAIN EnsureService(d).labels.e
  PROVE  Meaning(RemoveLabelAt(d, i))
           = WithFirst(Meaning(d), [ServiceMeaning(EnsureService(d)) EXCEPT !.labels =
                                       @ \ {LabelMeaning(EnsureService(d).labels.e[i])}])
<1>. DEFINE s == EnsureService(d)
           ms == ServiceMeaning(s)
           e == s.labels.e
           w == ViewPairs(s.labels)
           list == RemoveAt(w, i)
           new == IF list = <<>> THEN NoPairs ELSE Pairs("map", AsObject(list))
           old == LabelMeaning(e[i])
<1>1. s.labels \in PairLists
  BY LabelsKeep
<1>2. /\ w \in Seq(PairT) /\ DOMAIN w = DOMAIN e
      /\ \A j \in DOMAIN w : w[j] = LabelMeaning(e[j]) /\ w[j].key = e[j].key /\ w[j].val # Bare
      /\ LabelsMean(e) = {w[j] : j \in DOMAIN w}
  BY <1>1, LabelView
<1>3. RemoveLabelAt(d, i) = Stored(d, [s EXCEPT !.labels = new])
  BY DEF RemoveLabelAt
<1>4. i \in DOMAIN w /\ w[i] = old
  BY <1>2
<1>5. Distinct(w)
  BY <1>2 DEF Distinct
<1>. HIDE DEF w, e, old
<1>6. list \in Seq(PairT) /\ Distinct(list) /\ ToSet(list) = {w[j] : j \in DOMAIN w \ {i}}
  BY <1>2, <1>4, <1>5, RemoveAtIs, RemoveAtDistinct, RemoveAtSet
<1>. HIDE DEF list
<1>7. ToSet(list) = LabelsMean(e) \ {old}
  <2>1. {w[j] : j \in DOMAIN w \ {i}} = {w[j] : j \in DOMAIN w} \ {w[i]}
    BY <1>2, <1>4, <1>5, AllButOne
  <2>. QED
    BY <1>2, <1>4, <1>6, <2>1
<1>8. \A j \in DOMAIN list : list[j].val # Bare
  <2>1. \A j \in DOMAIN list : list[j] \in ToSet(list)
    BY DEF ToSet
  <2>. QED
    BY <1>2, <1>6, <2>1
<1>9. LabelsMean(new.e) = LabelsMean(e) \ {old}
  BY <1>6, <1>7, <1>8, ObjectMeans
<1>. HIDE DEF new, ms, s
<1>10. ms.labels = LabelsMean(e)
  BY LabelsMeanSet DEF ms, s, e
<1>11. Meaning(Stored(d, [s EXCEPT !.labels = new])) = WithFirst(Meaning(d), [ms EXCEPT !.labels = LabelsMean(new.e)])
  BY LabelsMeanSet DEF ms, s
<1>12. [ms EXCEPT !.labels = @ \ {old}] = [ms EXCEPT !.labels = ms.labels \ {old}]
  OBVIOUS
<1>13. Meaning(RemoveLabelAt(d, i)) = WithFirst(Meaning(d), [ms EXCEPT !.labels = @ \ {old}])
  BY <1>3, <1>9, <1>10, <1>11, <1>12
<1>. QED
  BY <1>13 DEF old, ms, s, e

\* The row typed in: its new key is no other row's, and every other row has one.
Typeable(e, i, field, v) ==
    \A j \in DOMAIN e \ {i} : e[j].key # "" /\ (field = "key" => e[j].key # v)

\* The pairs that are left when v is typed in field i: the others, and the new one if it has a key.
TypedIn(w, i, field, v, list) ==
    LET new == [w[i] EXCEPT ![field] = v]
    IN  /\ list \in Seq(PairT) /\ Distinct(list) /\ \A j \in DOMAIN list : list[j].val # Bare
        /\ ToSet(list) = ({w[j] : j \in DOMAIN w} \ {w[i]}) \cup (IF new.key = "" THEN {} ELSE {new})

LEMMA TypedPair ==
  ASSUME NEW w \in Seq(PairT), Distinct(w), \A j \in DOMAIN w : w[j].val # Bare,
         NEW i \in DOMAIN w, NEW field \in PairFields, NEW v \in Input, Typeable(w, i, field, v)
  PROVE  TypedIn(w, i, field, v, Keyed([w EXCEPT ![i][field] = v]))
<1>. DEFINE new == [w[i] EXCEPT ![field] = v]
           u == [w EXCEPT ![i] = new]
           S == {p \in ToSet(u) : p.key # ""}
           list == Where(u, S)
<1>1. [w EXCEPT ![i][field] = v] = u
  OBVIOUS
<1>2. w[i] \in PairT /\ v \in Text /\ v # Bare
  BY LenProperties, ElementOfSeq, TextsAre, NotBare
<1>3. u \in Seq(PairT)
  BY <1>1, <1>2, SetPairTyped
<1>4. /\ field = "key" => new.key = v /\ new.val = w[i].val
      /\ field = "val" => new.key = w[i].key /\ new.val = v
  BY <1>2 DEF PairT
<1>5. new.val # Bare
  BY <1>2, <1>4 DEF PairFields
<1>6. \A j \in DOMAIN w \ {i} : w[j].key # new.key /\ w[j].key # ""
  BY <1>4 DEF Typeable, Distinct, PairFields
<1>. HIDE DEF new
<1>7. DOMAIN u = DOMAIN w /\ u[i] = new /\ \A j \in DOMAIN w \ {i} : u[j] = w[j]
  OBVIOUS
<1>. HIDE DEF u
<1>8. Distinct(u)
  BY <1>6, <1>7 DEF Distinct
<1>9. \A j \in DOMAIN u : u[j] \in S <=> u[j].key # ""
  BY DEF ToSet
<1>. HIDE DEF S
<1>10. list \in Seq(PairT) /\ Distinct(list) /\ ToSet(list) = {u[j] : j \in Kept(u, S)}
  BY <1>3, <1>8, WhereTyped, WhereDistinct, WhereSet
<1>11. {u[j] : j \in Kept(u, S)} = {w[j] : j \in DOMAIN w \ {i}} \cup (IF new.key = "" THEN {} ELSE {new})
  <2>1. \A j \in DOMAIN w \ {i} : j \in Kept(u, S) /\ u[j] = w[j]
    BY <1>6, <1>7, <1>9 DEF Kept
  <2>2. i \in Kept(u, S) <=> new.key # ""
    BY <1>7, <1>9 DEF Kept
  <2>3. \A j \in Kept(u, S) : j \in DOMAIN w
    BY <1>7 DEF Kept
  <2>. QED
    BY <1>7, <2>1, <2>2, <2>3
<1>12. {w[j] : j \in DOMAIN w \ {i}} = {w[j] : j \in DOMAIN w} \ {w[i]}
  BY AllButOne
<1>13. \A j \in DOMAIN u : u[j].val # Bare
  BY <1>5, <1>7
<1>14. \A j \in DOMAIN list : list[j].val # Bare
  <2>1. \A j \in DOMAIN list : list[j] \in ToSet(list)
    BY DEF ToSet
  <2>2. \A j \in Kept(u, S) : j \in DOMAIN u
    BY DEF Kept
  <2>. QED
    BY <1>10, <1>13, <2>1, <2>2
<1>15. Keyed(u) = list
  BY DEF Keyed, S
<1>. HIDE DEF list
<1>. QED
  BY <1>1, <1>10, <1>11, <1>12, <1>14, <1>15 DEF TypedIn, new

LEMMA SetLabelMeans ==
  ASSUME NEW d, Good(d), Distinct(EnsureService(d).labels.e), Legible(EnsureService(d).labels),
         NEW i \in DOMAIN EnsureService(d).labels.e, NEW field \in PairFields, NEW v \in Input,
         Typeable(EnsureService(d).labels.e, i, field, v)
  PROVE  Meaning(SetLabelAt(d, i, field, v))
           = WithFirst(Meaning(d), [ServiceMeaning(EnsureService(d)) EXCEPT !.labels =
                                       Relabelled(@, LabelMeaning(EnsureService(d).labels.e[i]), field, v)])
<1>. DEFINE s == EnsureService(d)
           ms == ServiceMeaning(s)
           e == s.labels.e
           w == ViewPairs(s.labels)
           list == Keyed([w EXCEPT ![i][field] = v])
           set == IF list = <<>> THEN NoPairs ELSE Pairs("map", AsObject(list))
           old == LabelMeaning(e[i])
           new == [old EXCEPT ![field] = v]
           X == IF new.key = "" THEN {} ELSE {new}
<1>1. s.labels \in PairLists
  BY LabelsKeep
<1>2. /\ w \in Seq(PairT) /\ DOMAIN w = DOMAIN e
      /\ \A j \in DOMAIN w : w[j] = LabelMeaning(e[j]) /\ w[j].key = e[j].key /\ w[j].val # Bare
      /\ LabelsMean(e) = {w[j] : j \in DOMAIN w}
  BY <1>1, LabelView
<1>3. SetLabelAt(d, i, field, v) = Stored(d, [s EXCEPT !.labels = set])
  BY DEF SetLabelAt
<1>4. i \in DOMAIN w /\ w[i] = old
  BY <1>2
<1>5. Distinct(w) /\ Typeable(w, i, field, v)
  <2>1. DOMAIN w = DOMAIN e /\ \A j \in DOMAIN e : w[j].key = e[j].key
    BY <1>2, Zenon
  <2>2. Typeable(w, i, field, v) <=> Typeable(e, i, field, v)
    BY <2>1, Zenon DEF Typeable
  <2>. HIDE DEF w
  <2>3. Distinct(w)
    BY <2>1 DEF Distinct
  <2>. QED
    BY <2>2, <2>3, Zenon
<1>. HIDE DEF w, e, old
<1>6. /\ list \in Seq(PairT) /\ Distinct(list) /\ \A j \in DOMAIN list : list[j].val # Bare
      /\ ToSet(list) = (LabelsMean(e) \ {old}) \cup X
  <2>. DEFINE y == [w[i] EXCEPT ![field] = v]
             Y == IF y.key = "" THEN {} ELSE {y}
             W == {w[j] : j \in DOMAIN w}
  <2>1. w \in Seq(PairT) /\ Distinct(w) /\ (\A j \in DOMAIN w : w[j].val # Bare) /\ i \in DOMAIN w
    BY <1>2, <1>4, <1>5, Zenon
  <2>2. /\ list \in Seq(PairT) /\ Distinct(list) /\ \A j \in DOMAIN list : list[j].val # Bare
        /\ ToSet(list) = (W \ {w[i]}) \cup Y
    <3>1. TypedIn(w, i, field, v, list)
      BY <1>5, <2>1, TypedPair, Zenon
    <3>. HIDE DEF list
    <3>. QED
      BY <3>1, Zenon DEF TypedIn
  <2>3. Y = X
    BY <1>4, Zenon
  <2>4. W = LabelsMean(e)
    BY <1>2, Zenon
  <2>. HIDE DEF X, Y, W, list
  <2>. QED
    BY <1>4, <2>2, <2>3, <2>4
<1>. HIDE DEF list, X
<1>7. LabelsMean(set.e) = (LabelsMean(e) \ {old}) \cup X
  BY <1>6, ObjectMeans
<1>. HIDE DEF set, ms, s
<1>8. ms.labels = LabelsMean(e)
  BY LabelsMeanSet DEF ms, s, e
<1>9. Meaning(Stored(d, [s EXCEPT !.labels = set])) = WithFirst(Meaning(d), [ms EXCEPT !.labels = LabelsMean(set.e)])
  BY LabelsMeanSet DEF ms, s
<1>10. [ms EXCEPT !.labels = (@ \ {old}) \cup X] = [ms EXCEPT !.labels = (ms.labels \ {old}) \cup X]
  OBVIOUS
<1>11. Meaning(SetLabelAt(d, i, field, v)) = WithFirst(Meaning(d), [ms EXCEPT !.labels = (@ \ {old}) \cup X])
  BY <1>3, <1>7, <1>8, <1>9, <1>10
<1>. QED
  BY <1>11 DEF Relabelled, old, ms, s, e, X

\* What an edit that is not among the losses finds.
LEMMA NotLost ==
  ASSUME NEW e, NEW t, ~Loses(e, t)
  PROVE  LET s == EnsureService(t.doc)
         IN  /\ t.valid
             /\ e.op = "service" => Renames(t.doc, e.v)
             /\ e.op = "mem" => ~s.deployRest
             /\ e.op = "web" => Canonical(t.doc)
             /\ e.op \in {"setEnv", "removeEnv"} => NoBare(s.env)
             /\ e.op = "addEnv" => s.env.form # "map"
             /\ e.op = "addLabel" => s.labels.form # "list" /\ Free(s.labels.e, NewLabel(Len(s.labels.e)))
             /\ e.op \in {"setLabel", "removeLabel"} => Distinct(s.labels.e) /\ Legible(s.labels)
             /\ e.op = "setLabel" => Typeable(s.labels.e, e.i, e.field, e.v)
<1>. DEFINE s == EnsureService(t.doc)
<1>1. t.valid
  BY Zenon DEF Loses
<1>2. e.op = "service" => Renames(t.doc, e.v)
  BY Zenon DEF Loses, Renames, EnsureService
<1>3. e.op = "mem" => ~s.deployRest
  BY Zenon DEF Loses
<1>4. e.op = "web" => Canonical(t.doc)
  BY Zenon DEF Loses, Canonical
<1>5. e.op \in {"setEnv", "removeEnv"} => NoBare(s.env)
  BY Zenon DEF Loses, NoBare
<1>6. e.op = "addEnv" => s.env.form # "map"
  BY Zenon DEF Loses
<1>7. e.op = "addLabel" => s.labels.form # "list" /\ Free(s.labels.e, NewLabel(Len(s.labels.e)))
  BY Zenon DEF Loses, Free
<1>8. e.op \in {"setLabel", "removeLabel"} => Distinct(s.labels.e) /\ Legible(s.labels)
  <2>1. e.op \in {"setLabel", "removeLabel"} => IsInjective([i \in DOMAIN s.labels.e |-> s.labels.e[i].key])
    BY Zenon DEF Loses
  <2>2. e.op \in {"setLabel", "removeLabel"} => Legible(s.labels)
    BY Zenon DEF Loses, Legible, NoBare
  <2>. QED
    BY <2>1, <2>2, DistinctIs, Zenon
<1>9. e.op = "setLabel" => Typeable(s.labels.e, e.i, e.field, e.v)
  BY Zenon DEF Loses, Typeable
<1>. QED
  BY <1>1, <1>2, <1>3, <1>4, <1>5, <1>6, <1>7, <1>8, <1>9

LEMMA SettableIs ==
  ASSUME NEW e, NEW t, ~Loses(e, t), e.op = "set", EnsureService(t.doc).rows[e.kind][e.i] \in Entries
  PROVE  Settable(e.kind, EnsureService(t.doc).rows[e.kind][e.i])
<1>. DEFINE entry == EnsureService(t.doc).rows[e.kind][e.i]
<1>1. ~(entry.form = "short" /\ Len(entry.parts) = 3)
  BY Zenon DEF Loses
<1>2. ~(entry.form = "short" /\ Len(entry.parts) = 1 /\ entry.parts[1] # "")
  BY Zenon DEF Loses
<1>3. ~(entry.form = "long" /\ e.kind = "devices")
  BY Zenon DEF Loses
<1>. HIDE DEF entry
<1>4. entry \in Entries
  BY DEF entry
<1>5. \/ entry.form = "short" /\ Len(entry.parts) \in 1..3
      \/ entry.form = "long"
  BY <1>4 DEF Entries
<1>6. entry.form = "short" => Len(entry.parts) = 1 \/ Len(entry.parts) = 2 \/ Len(entry.parts) = 3
  BY <1>5
<1>7. Settable(e.kind, entry)
  BY <1>1, <1>2, <1>3, <1>5, <1>6, Zenon DEF Settable
<1>. QED
  BY <1>7 DEF entry

\* An edit that is not among the losses means what it should.
LEMMA EditMeans ==
  ASSUME NEW t, GoodText(t), NEW e \in EditsOf(t), ~Loses(e, t)
  PROVE  Meaning(Apply(e, LoadDoc(t))) = Expected(e, t)
<1>. DEFINE d == t.doc
           s == EnsureService(d)
           m == Meaning(d)
           ms == ServiceMeaning(s)
<1>1. LoadDoc(t) = d /\ Good(d)
  <2>1. t.valid
    BY NotLost
  <2>2. LoadDoc(t) = d
    BY <2>1, Zenon DEF LoadDoc
  <2>. QED
    BY <2>2, LoadGood
<1>2. \/ e.op \in {"project", "icon"}
      \/ e.op = "web" /\ e.v \in Text
      \/ e.op = "service" /\ e.v \in Text
      \/ e.op = "scalar" /\ e.f \in Scalars
      \/ e.op = "mem" /\ e.mb \in Nat /\ e.mb # 0
      \/ e.op = "add" /\ e.kind \in EntryKinds
      \/ e.op = "set" /\ e.kind \in EntryKinds /\ e.i \in DOMAIN s.rows[e.kind] /\ e.field \in Fields
      \/ e.op = "remove" /\ e.kind \in EntryKinds /\ d.services # <<>> /\ e.i \in DOMAIN s.rows[e.kind]
      \/ e.op = "addEnv"
      \/ e.op = "setEnv" /\ e.i \in DOMAIN s.env.e /\ e.field \in PairFields /\ e.v \in Text
      \/ e.op = "removeEnv" /\ e.i \in DOMAIN s.env.e
      \/ e.op = "addLabel" /\ Len(s.labels.e) < MaxRows
      \/ e.op = "setLabel" /\ e.i \in DOMAIN s.labels.e /\ e.field \in PairFields /\ e.v \in Input
      \/ e.op = "removeLabel" /\ e.i \in DOMAIN s.labels.e
  BY <1>1, EditIs, Zenon
<1>. SUFFICES Meaning(Apply(e, d)) = Expected(e, t)
  BY <1>1
<1>3. CASE e.op \in {"project", "icon"}
  <2>1. CASE e.op = "project"
    <3>1. Apply(e, d) = SetProjectName(d, e.v)
      BY <2>1 DEF Apply
    <3>2. Expected(e, t) = [m EXCEPT !.name = e.v]
      BY <2>1, Zenon DEF Expected
    <3>3. Meaning(SetProjectName(d, e.v)) = [m EXCEPT !.name = e.v]
      BY <1>1, NameMeans, Zenon
    <3>. QED
      BY <3>1, <3>2, <3>3, Zenon
  <2>2. CASE e.op = "icon"
    <3>1. Apply(e, d) = SetIcon(d, e.v)
      BY <2>2 DEF Apply
    <3>2. Expected(e, t) = [m EXCEPT !.icon = e.v]
      BY <2>2, Zenon DEF Expected
    <3>3. Meaning(SetIcon(d, e.v)) = [m EXCEPT !.icon = e.v]
      BY <1>1, NameMeans, Zenon
    <3>. QED
      BY <3>1, <3>2, <3>3, Zenon
  <2>. QED
    BY <1>3, <2>1, <2>2
<1>4. CASE e.op = "web" /\ e.v \in Text
  <2>. DEFINE goal == [m EXCEPT !.web = e.v]
  <2>1. Apply(e, d) = SetWebPort(d, e.v)
    BY <1>4 DEF Apply
  <2>2. Expected(e, t) = goal
    BY <1>4, Zenon DEF Expected, WithFirst
  <2>3. Canonical(d)
    BY <1>4, NotLost, Zenon
  <2>4. Meaning(SetWebPort(d, e.v)) = goal
    BY <1>1, <1>4, <2>3, WebMeans, Zenon
  <2>. HIDE DEF goal
  <2>. QED
    BY <2>1, <2>2, <2>4, Zenon
<1>5. CASE e.op = "service" /\ e.v \in Text
  <2>. DEFINE goal == WithFirst(m, [(IF m.services = <<>> THEN ServiceMeaning(Blank("")) ELSE ms) EXCEPT !.key = e.v])
  <2>1. Apply(e, d) = SetServiceName(d, e.v)
    BY <1>5 DEF Apply
  <2>2. Expected(e, t) = goal
    BY <1>5, Zenon DEF Expected, WithFirst
  <2>3. Renames(d, e.v)
    BY <1>5, NotLost, Zenon
  <2>4. Meaning(SetServiceName(d, e.v)) = goal
    BY <1>1, <1>5, <2>3, ServiceNameMeans, Zenon
  <2>. HIDE DEF goal
  <2>. QED
    BY <2>1, <2>2, <2>4, Zenon
<1>6. CASE e.op = "scalar" /\ e.f \in Scalars
  <2>. DEFINE goal == WithFirst(m, [ms EXCEPT !.scalar[e.f] = ScalarValue(e.f, e.v)])
  <2>1. Apply(e, d) = SetScalar(d, e.f, e.v)
    BY <1>6 DEF Apply
  <2>2. Expected(e, t) = goal
    BY <1>6, Zenon DEF Expected, WithFirst
  <2>3. Meaning(SetScalar(d, e.f, e.v)) = goal
    BY <1>1, <1>6, ScalarMeansSet, Zenon
  <2>. HIDE DEF goal
  <2>. QED
    BY <2>1, <2>2, <2>3, Zenon
<1>7. CASE e.op = "mem" /\ e.mb \in Nat /\ e.mb # 0
  <2>. DEFINE goal == WithFirst(m, [ms EXCEPT !.mem = e.mb])
  <2>1. Apply(e, d) = SetMemLimitMb(d, e.mb)
    BY <1>7 DEF Apply
  <2>2. Expected(e, t) = goal
    BY <1>7, Zenon DEF Expected, WithFirst
  <2>3. ~s.deployRest
    BY <1>7, NotLost, Zenon
  <2>4. Meaning(SetMemLimitMb(d, e.mb)) = goal
    BY <1>1, <1>7, <2>3, MemMeans, Zenon
  <2>. HIDE DEF goal
  <2>. QED
    BY <2>1, <2>2, <2>4, Zenon
<1>8. CASE e.op = "add" /\ e.kind \in EntryKinds
  <2>. DEFINE goal == WithFirst(m, [ms EXCEPT !.rows[e.kind] = Append(@, [host |-> "", container |-> "", extra |-> ""])])
  <2>1. Apply(e, d) = AddEntry(d, e.kind)
    BY <1>8 DEF Apply
  <2>2. Expected(e, t) = goal
    BY <1>8, Zenon DEF Expected, WithFirst
  <2>3. Meaning(AddEntry(d, e.kind)) = goal
    BY <1>1, <1>8, AddMeans, Zenon
  <2>. HIDE DEF goal
  <2>. QED
    BY <2>1, <2>2, <2>3, Zenon
<1>9. CASE e.op = "set" /\ e.kind \in EntryKinds /\ e.i \in DOMAIN s.rows[e.kind] /\ e.field \in Fields
  <2>. DEFINE goal == WithFirst(m, WithCell(ms, e.kind, e.i, e.field, e.v))
  <2>1. Apply(e, d) = SetEntryAt(d, e.kind, e.i, e.field, e.v)
    BY <1>9 DEF Apply
  <2>2. Expected(e, t) = goal
    BY <1>9, Zenon DEF Expected, WithFirst, WithCell
  <2>3. s.rows[e.kind] \in Seq(Entries)
    BY <1>1, <1>9, RowsKeep
  <2>4. s.rows[e.kind][e.i] \in Entries
    BY <1>9, <2>3, LenProperties, ElementOfSeq
  <2>5. Settable(e.kind, s.rows[e.kind][e.i])
    BY <1>9, <2>4, SettableIs, Zenon
  <2>6. Meaning(SetEntryAt(d, e.kind, e.i, e.field, e.v)) = goal
    BY <1>1, <1>9, <2>5, SetMeans, Zenon
  <2>. HIDE DEF goal
  <2>. QED
    BY <2>1, <2>2, <2>6, Zenon
<1>10. CASE e.op = "remove" /\ e.kind \in EntryKinds /\ d.services # <<>> /\ e.i \in DOMAIN s.rows[e.kind]
  <2>. DEFINE goal == WithFirst(m, [ms EXCEPT !.rows[e.kind] = RemoveAt(@, e.i)])
  <2>1. Apply(e, d) = RemoveArrayItem(d, e.kind, e.i)
    BY <1>10 DEF Apply
  <2>2. Expected(e, t) = goal
    BY <1>10, Zenon DEF Expected, WithFirst
  <2>3. Meaning(RemoveArrayItem(d, e.kind, e.i)) = goal
    BY <1>1, <1>10, RemoveMeans, Zenon
  <2>. HIDE DEF goal
  <2>. QED
    BY <2>1, <2>2, <2>3, Zenon
<1>11. CASE e.op = "addEnv"
  <2>. DEFINE goal == WithFirst(m, ms)
  <2>1. Apply(e, d) = AddEnv(d)
    BY <1>11 DEF Apply
  <2>2. Expected(e, t) = goal
    BY <1>11, Zenon DEF Expected, WithFirst
  <2>3. s.env.form # "map"
    BY <1>11, NotLost, Zenon
  <2>4. Meaning(AddEnv(d)) = goal
    BY <1>1, <1>11, <2>3, AddEnvMeans, Zenon
  <2>. HIDE DEF goal
  <2>. QED
    BY <2>1, <2>2, <2>4, Zenon
<1>12. CASE e.op = "setEnv" /\ e.i \in DOMAIN s.env.e /\ e.field \in PairFields /\ e.v \in Text
  <2>. DEFINE goal == WithFirst(m, [ms EXCEPT !.env = Keyed(WithField(s.env.e, e.i, e.field, e.v))])
  <2>1. Apply(e, d) = SetEnvAt(d, e.i, e.field, e.v)
    BY <1>12 DEF Apply
  <2>2. Expected(e, t) = goal
    BY <1>12, Zenon DEF Expected, WithFirst, WithField
  <2>3. NoBare(s.env)
    BY <1>12, NotLost, Zenon
  <2>4. Meaning(SetEnvAt(d, e.i, e.field, e.v)) = goal
    BY <1>1, <1>12, <2>3, SetEnvMeans, Zenon
  <2>. HIDE DEF goal
  <2>. QED
    BY <2>1, <2>2, <2>4, Zenon
<1>13. CASE e.op = "removeEnv" /\ e.i \in DOMAIN s.env.e
  <2>. DEFINE goal == WithFirst(m, [ms EXCEPT !.env = Keyed(RemoveAt(s.env.e, e.i))])
  <2>1. Apply(e, d) = RemoveEnvAt(d, e.i)
    BY <1>13 DEF Apply
  <2>2. Expected(e, t) = goal
    BY <1>13, Zenon DEF Expected, WithFirst
  <2>3. NoBare(s.env)
    BY <1>13, NotLost, Zenon
  <2>4. Meaning(RemoveEnvAt(d, e.i)) = goal
    BY <1>1, <1>13, <2>3, RemoveEnvMeans, Zenon
  <2>. HIDE DEF goal
  <2>. QED
    BY <2>1, <2>2, <2>4, Zenon
<1>14. CASE e.op = "addLabel" /\ Len(s.labels.e) < MaxRows
  <2>. DEFINE goal == WithFirst(m, [ms EXCEPT !.labels = @ \cup {Pair(NewLabel(Len(s.labels.e)), "")}])
  <2>1. Apply(e, d) = AddLabel(d)
    BY <1>14 DEF Apply
  <2>2. Expected(e, t) = goal
    BY <1>14, Zenon DEF Expected, WithFirst
  <2>3. s.labels.form # "list" /\ Free(s.labels.e, NewLabel(Len(s.labels.e)))
    BY <1>14, NotLost, Zenon
  <2>4. Meaning(AddLabel(d)) = goal
    BY <1>1, <1>14, <2>3, AddLabelMeans, Zenon
  <2>. HIDE DEF goal
  <2>. QED
    BY <2>1, <2>2, <2>4, Zenon
<1>15. CASE e.op = "setLabel" /\ e.i \in DOMAIN s.labels.e /\ e.field \in PairFields /\ e.v \in Input
  <2>. DEFINE old == LabelMeaning(s.labels.e[e.i])
              goal == WithFirst(m, [ms EXCEPT !.labels = Relabelled(@, old, e.field, e.v)])
  <2>1. Apply(e, d) = SetLabelAt(d, e.i, e.field, e.v)
    BY <1>15 DEF Apply
  <2>2. Expected(e, t) = goal
    BY <1>15, Zenon DEF Expected, WithFirst, Relabelled
  <2>3. Distinct(s.labels.e) /\ Legible(s.labels) /\ Typeable(s.labels.e, e.i, e.field, e.v)
    BY <1>15, NotLost, Zenon
  <2>4. Meaning(SetLabelAt(d, e.i, e.field, e.v)) = goal
    BY <1>1, <1>15, <2>3, SetLabelMeans, Zenon
  <2>. HIDE DEF goal
  <2>. QED
    BY <2>1, <2>2, <2>4, Zenon
<1>16. CASE e.op = "removeLabel" /\ e.i \in DOMAIN s.labels.e
  <2>. DEFINE old == LabelMeaning(s.labels.e[e.i])
              goal == WithFirst(m, [ms EXCEPT !.labels = @ \ {old}])
  <2>1. Apply(e, d) = RemoveLabelAt(d, e.i)
    BY <1>16 DEF Apply
  <2>2. Expected(e, t) = goal
    BY <1>16, Zenon DEF Expected, WithFirst
  <2>3. Distinct(s.labels.e) /\ Legible(s.labels)
    BY <1>16, NotLost, Zenon
  <2>4. Meaning(RemoveLabelAt(d, e.i)) = goal
    BY <1>1, <1>16, <2>3, RemoveLabelMeans, Zenon
  <2>. HIDE DEF goal
  <2>. QED
    BY <2>1, <2>2, <2>4, Zenon
<1>. QED
  BY <1>2, <1>3, <1>4, <1>5, <1>6, <1>7, <1>8, <1>9, <1>10, <1>11, <1>12, <1>13, <1>14, <1>15, <1>16, Zenon

----------------------------------------------------------------------------
(* An edit changes what it is named for, in what the document means, and    *)
(* nothing else, unless it is one of the losses listed: whatever documents  *)
(* there are, however long their lists (compose-mutate.ts:4-10).            *)
THEOREM LossesAreKnown == DocSpec => []OnlyKnownLosses
<1>1. DocInv => OnlyKnownLosses
  <2>1. DocInv => GoodText(text)
    BY Zenon DEF DocInv
  <2>. QED
    BY <2>1, EditMeans, Zenon DEF OnlyKnownLosses
<1>. QED
  BY <1>1, DocInvariant, PTL
=============================================================================

---------------------------- MODULE StoreInstall ----------------------------
(***************************************************************************)
(* Installing an app from the store page (ui/src/routes/apps/+page.svelte) *)
(* in one browser tab.  A mount of the page keeps the overlay's state; the *)
(* install-state store behind the launchpad's ghost tiles and the apps     *)
(* store's installed list outlive it, and so do the callbacks of a mount   *)
(* that is gone: requests in flight, the log stream, timers.  The server   *)
(* is seen as the page sees it: it accepts an operation or refuses it, ends *)
(* the log of the app's task, and then lists the app or not.  Of the ports *)
(* the confirmation asks about only the worst of their states is kept.     *)
(***************************************************************************)
EXTENDS Naturals, FiniteSets, Bags

CONSTANTS
    Apps,          \* apps of the catalog; an app is also its project id
    NoApp,         \* null
    MaxMounts,     \* bound: mounts of the store page
    MaxRuns        \* bound: installs and updates the user confirms, and checks under way

Mounts == 1..MaxMounts
Streams == 1..MaxRuns

ASSUME ConstantsOK == NoApp \notin Apps /\ MaxMounts \in Nat \ {0} /\ MaxRuns \in Nat

VARIABLES
    task,                       \* server: the log of an app's task
    page,                       \* page[m]: the local state of mount m of the store page
    mounted, born,              \* the mount on screen (0: another page), mounts made
    tile,                       \* install-state: the phase of a tracked app, or "none"
    stream,                     \* the EventSources and their 10-minute timers
    jobs,                       \* a bag of continuations: requests in flight and timers
    runs                        \* installs and updates confirmed, for the bound

storeVars == <<task, page, mounted, born, tile, stream, jobs, runs>>

InFlight == {"installing", "starting"}
Terminal == {"success", "error", "timeout"}
PagePhase == {"idle", "confirm"} \cup InFlight \cup Terminal
MaybeApp == Apps \cup {NoApp}

(* No port in conflict, every choice free, one taken or invalid, or one     *)
(* being checked.                                                           *)
PortChoices == {"none", "free", "taken", "checking"}

(* pending: pendingInstallApp; app: installingApp.                          *)
FreshPage == [phase |-> "idle", pending |-> NoApp, app |-> NoApp, project |-> NoApp,
              active |-> 0, timer |-> 0, analysing |-> FALSE, ports |-> "none"]

(* A continuation: what it waits for, the mount whose variables it closes   *)
(* over and the app it was called with.                                     *)
Job(wait, m, a) == [wait |-> wait, mount |-> m, app |-> a]

More(b, j) == b (+) SetToBag({j})
Less(b, j) == b (-) SetToBag({j})
Copies(b, j) == IF j \in DOMAIN b THEN b[j] ELSE 0

Checks == {"analyse", "seed", "debounce", "validate", "pick"}
Waits == Checks \cup {"yaml", "post", "update", "fetch", "retry", "finish", "reconfirm"}

NoStream == [mount |-> 1, app |-> NoApp, open |-> FALSE, armed |-> FALSE]

(* A stream that is closed and whose timer is off has nothing left to say.  *)
Tidy(st) == [i \in Streams |-> IF st[i].open \/ st[i].armed THEN st[i] ELSE NoStream]

StoreInit ==
    /\ task = [a \in Apps |-> "none"]
    /\ page = [m \in Mounts |-> FreshPage]
    /\ mounted = 1 /\ born = 1
    /\ tile = [a \in Apps |-> "none"]
    /\ stream = [i \in Streams |-> NoStream]
    /\ jobs = EmptyBag
    /\ runs = 0

----------------------------------------------------------------------------
(* install-state.svelte.ts                                                  *)

StartTile(t, a) == [t EXCEPT ![a] = "installing"]

\* Mutant: an update of an app that is not tracked begins to track it.
UpdateTileAlways(t, a, phase) == IF a = NoApp THEN t ELSE [t EXCEPT ![a] = phase]

UpdateTile(t, a, phase) == IF a = NoApp \/ t[a] = "none" THEN t ELSE [t EXCEPT ![a] = phase]

FinishTile(t, a) == [t EXCEPT ![a] = "none"]

\* Mutant: the mirror copies the overlay's absence too.
MirroredAlways(t, m, pg) ==
    IF mounted = m /\ (pg.phase # page[m].phase \/ pg.project # page[m].project)
    THEN UpdateTile(t, pg.project, pg.phase) ELSE t

(* The effect that mirrors the mounted page's phase into its tile: it runs  *)
(* after every change of the project or the phase.                          *)
Mirrored(t, m, pg) ==
    IF /\ mounted = m /\ pg.phase \notin {"idle", "confirm"}
       /\ pg.phase # page[m].phase \/ pg.project # page[m].project
    THEN UpdateTile(t, pg.project, pg.phase) ELSE t

(* One callback of mount m: its page becomes pg, the tiles t and the mirror. *)
PageBecomes(m, pg, t) ==
    /\ page' = [page EXCEPT ![m] = pg]
    /\ tile' = Mirrored(t, m, pg)

----------------------------------------------------------------------------
(* The log stream of a project.                                             *)

(* clearSSETimeout: the timer the page's variable points to.                *)
Disarmed(st, pg) == IF pg.timer = 0 THEN st ELSE [st EXCEPT ![pg.timer].armed = FALSE]

(* streamInstallLogs(projectId): the page's variables now name this stream  *)
(* and its timer, whatever they named before.                               *)
Slot == CHOOSE i \in Streams : stream[i] = NoStream

OpenStream(m, a) ==
    /\ stream' = [stream EXCEPT ![Slot] = [mount |-> m, app |-> a, open |-> TRUE, armed |-> TRUE]]

Streaming(pg) == [pg EXCEPT !.phase = "starting", !.active = Slot, !.timer = Slot]

\* Mutant: the variable still names the closed stream.
EndedStillNamed(pg) == [pg EXCEPT !.timer = 0]

Ended(pg) == [pg EXCEPT !.active = 0, !.timer = 0]

(* event: end.  A task no operation has begun never ends.                   *)
StreamFinishes(i) ==
    LET m == stream[i].mount  a == stream[i].app IN
    /\ stream[i].open /\ a # NoApp /\ task[a] = "done"
    /\ stream' = Tidy(Disarmed([stream EXCEPT ![i].open = FALSE], page[m]))
    /\ PageBecomes(m, Ended(page[m]), tile)
    /\ jobs' = More(jobs, Job("fetch", m, a))
    /\ UNCHANGED <<task, mounted, born, runs>>

\* Mutant: the connection is given up without asking for the result.
StreamFailsQuietly(i) ==
    LET m == stream[i].mount IN
    /\ stream[i].open
    /\ stream' = Tidy(Disarmed([stream EXCEPT ![i].open = FALSE], page[m]))
    /\ PageBecomes(m, Ended(page[m]), tile)
    /\ UNCHANGED <<task, mounted, born, jobs, runs>>

(* onerror: close and ask for the result after 3 s.                         *)
StreamFails(i) ==
    LET m == stream[i].mount IN
    /\ stream[i].open
    /\ stream' = Tidy(Disarmed([stream EXCEPT ![i].open = FALSE], page[m]))
    /\ PageBecomes(m, Ended(page[m]), tile)
    /\ jobs' = More(jobs, Job("retry", m, stream[i].app))
    /\ UNCHANGED <<task, mounted, born, runs>>

(* The 10-minute safety timeout, of this stream or of one long forgotten.   *)
StreamTimesOut(i) ==
    LET m == stream[i].mount IN
    /\ stream[i].armed
    /\ stream' = [stream EXCEPT ![i] = NoStream]
    /\ PageBecomes(m, [page[m] EXCEPT !.active = 0, !.phase = "timeout", !.timer = IF @ = i THEN 0 ELSE @], tile)
    /\ UNCHANGED <<task, mounted, born, jobs, runs>>

----------------------------------------------------------------------------
(* The user on the mounted page.                                            *)

Pg == page[mounted]

MayCheck(more) == more + runs + BagCardinality([j \in {k \in BagToSet(jobs) : k.wait \in Checks} |-> jobs[j]]) < MaxRuns
CheckGoes(wait, pg) == PageBecomes(mounted, pg, tile) /\ jobs' = More(jobs, Job(wait, mounted, NoApp))

(* A card, a row of the search or the details of an app; no overlay covers  *)
(* the page.                                                                *)
GetOffered == mounted # 0 /\ Pg.phase = "idle"

(* requestInstall up to its await: the confirmation opens.                  *)
RequestInstall(a) ==
    /\ GetOffered /\ MayCheck(0)
    /\ CheckGoes("analyse", [Pg EXCEPT !.phase = "confirm", !.pending = a, !.analysing = TRUE, !.ports = "none"])
    /\ UNCHANGED <<task, mounted, born, stream, runs>>

(* InstallConfirmModal's buttons.                                           *)
ConfirmOffers ==
    IF mounted = 0 \/ Pg.phase # "confirm" \/ Pg.pending = NoApp THEN {}
    ELSE {"cancel"} \cup (IF ~Pg.analysing /\ Pg.ports \in {"none", "free"} THEN {"confirm"} ELSE {})
                    \cup (IF ~Pg.analysing /\ Pg.ports # "none" THEN {"edit"} ELSE {})
                    \cup (IF ~Pg.analysing /\ Pg.ports = "taken" THEN {"auto"} ELSE {})

CancelConfirm ==
    /\ "cancel" \in ConfirmOffers
    /\ PageBecomes(mounted, [Pg EXCEPT !.phase = "idle", !.pending = NoApp], tile)
    /\ UNCHANGED <<task, mounted, born, stream, jobs, runs>>

(* onPortInput: one timer, that begins again; the old verdict stays shown.  *)
OnPortInput ==
    /\ "edit" \in ConfirmOffers /\ MayCheck(1) /\ Job("debounce", mounted, NoApp) \notin BagToSet(jobs)
    /\ CheckGoes("debounce", Pg)
    /\ UNCHANGED <<task, mounted, born, stream, runs>>

AutoPickPort ==
    /\ "auto" \in ConfirmOffers /\ MayCheck(1)
    /\ CheckGoes("pick", [Pg EXCEPT !.ports = "checking"])
    /\ UNCHANGED <<task, mounted, born, stream, runs>>

(* executeInstall up to its first await.                                    *)
ExecuteInstall ==
    /\ "confirm" \in ConfirmOffers /\ runs < MaxRuns
    /\ PageBecomes(mounted, [Pg EXCEPT !.phase = "installing", !.app = Pg.pending,
                                       !.pending = NoApp, !.project = NoApp], tile)
    /\ jobs' = More(jobs, Job("yaml", mounted, Pg.pending))
    /\ runs' = runs + 1
    /\ UNCHANGED <<task, mounted, born, stream>>

(* handleUpdate up to its await; the app is not entered in install-state.   *)
UpdateOffered == mounted # 0 /\ Pg.phase = "idle"

HandleUpdate(a) ==
    /\ UpdateOffered /\ runs < MaxRuns
    /\ PageBecomes(mounted, [Pg EXCEPT !.phase = "installing", !.app = a, !.project = a], tile)
    /\ jobs' = More(jobs, Job("update", mounted, a))
    /\ runs' = runs + 1
    /\ UNCHANGED <<task, mounted, born, stream>>

(* closeInstallOverlay                                                      *)
Closed(pg) == [pg EXCEPT !.active = 0, !.timer = 0, !.phase = "idle", !.app = NoApp, !.project = NoApp]

ClosedStreams(pg) ==
    LET st == Disarmed(stream, pg)
    IN  IF pg.active = 0 THEN st ELSE [st EXCEPT ![pg.active].open = FALSE]

(* InstallModal's buttons: which the overlay offers in which phase.         *)
Buttons(phase) ==
    CASE phase \in InFlight   -> {"minimize", "cancel"}
      [] phase = "success"    -> {"open", "stay"}
      [] phase = "error"      -> {"cancel", "retry"}
      [] phase = "timeout"    -> {"launchpad"}
      [] OTHER                -> {}

CloseOverlay ==
    /\ mounted # 0 /\ Buttons(Pg.phase) \cap {"cancel", "launchpad"} # {}
    /\ stream' = Tidy(ClosedStreams(Pg))
    /\ PageBecomes(mounted, Closed(Pg), tile)
    /\ UNCHANGED <<task, mounted, born, jobs, runs>>

(* onRetry: the confirmation comes back after 50 ms.                        *)
Retry ==
    /\ mounted # 0 /\ "retry" \in Buttons(Pg.phase)
    /\ stream' = Tidy(ClosedStreams(Pg))
    /\ PageBecomes(mounted, [Closed(Pg) EXCEPT !.pending = Pg.app], tile)
    /\ jobs' = More(jobs, Job("reconfirm", mounted, NoApp))
    /\ UNCHANGED <<task, mounted, born, runs>>

StayInStore ==
    /\ mounted # 0 /\ "stay" \in Buttons(Pg.phase)
    /\ PageBecomes(mounted, [Pg EXCEPT !.phase = "idle"], tile)
    /\ UNCHANGED <<task, mounted, born, stream, jobs, runs>>

(* onMinimize, onOpen, or any other way off the page: the component is      *)
(* destroyed; nothing closes its stream or cancels its timers.  What still  *)
(* comes for its confirmation is seen by nobody, and left out.              *)
LeavePage ==
    /\ mounted # 0
    /\ mounted' = 0
    /\ page' = [page EXCEPT ![mounted].pending = NoApp, ![mounted].app = NoApp,
                            ![mounted].analysing = FALSE, ![mounted].ports = "none"]
    /\ jobs' = [j \in {k \in BagToSet(jobs) : k.wait \notin Checks} |-> jobs[j]]
    /\ UNCHANGED <<task, born, tile, stream, runs>>

(* onMount: a fresh page; a tile's ?install=<id> is not read.               *)
EnterPage ==
    /\ mounted = 0 /\ born < MaxMounts
    /\ born' = born + 1 /\ mounted' = born + 1
    /\ UNCHANGED <<task, page, tile, stream, jobs, runs>>

----------------------------------------------------------------------------
(* The continuations.                                                       *)

\* Mutant: only the app that is still asked about ends the check.
AnalysedIfAsked(pg) == [pg EXCEPT !.analysing = @ /\ pg.pending = NoApp]

(* requestInstall after the manifest and the probe of its ports: it failed, *)
(* found no conflict, or seeds the choices and has them validated.          *)
Analysed(pg) == [pg EXCEPT !.analysing = FALSE]

AnalysisAnswered(j) ==
    /\ j.wait = "analyse"
    /\ \/ /\ PageBecomes(j.mount, Analysed(page[j.mount]), tile)
          /\ jobs' = Less(jobs, j)
       \/ /\ PageBecomes(j.mount, [page[j.mount] EXCEPT !.ports = "checking"], tile)
          /\ jobs' = More(Less(jobs, j), Job("seed", j.mount, NoApp))
    /\ UNCHANGED <<task, mounted, born, stream, runs>>

(* validatePortChoices: invalid numbers ask nothing; a failed probe means   *)
(* free; a list that was emptied meanwhile stays empty.                     *)
Judged(pg) == {[pg EXCEPT !.ports = v] : v \in IF pg.ports = "none" THEN {"none"} ELSE {"free", "taken"}}

ChoicesChecked(j) ==
    /\ \/ j.wait = "seed" /\ \E pg \in Judged(Analysed(page[j.mount])) : PageBecomes(j.mount, pg, tile)
       \/ j.wait = "validate" /\ \E pg \in Judged(page[j.mount]) : PageBecomes(j.mount, pg, tile)
    /\ jobs' = Less(jobs, j)
    /\ UNCHANGED <<task, mounted, born, stream, runs>>

DebounceFires(j) ==
    /\ j.wait = "debounce"
    /\ LET pg == page[j.mount] IN
       \/ /\ pg.ports # "none"
          /\ PageBecomes(j.mount, [pg EXCEPT !.ports = "checking"], tile)
          /\ jobs' = More(Less(jobs, j), Job("validate", j.mount, NoApp))
       \/ /\ PageBecomes(j.mount, [pg EXCEPT !.ports = IF @ = "none" THEN @ ELSE "taken"], tile)
          /\ jobs' = Less(jobs, j)
    /\ UNCHANGED <<task, mounted, born, stream, runs>>

(* autoPickPort: a free port, none of a hundred, or no answer: the choice   *)
(* is left as it is, being checked.                                         *)
PickAnswered(j) ==
    /\ j.wait = "pick"
    /\ \E pg \in Judged(page[j.mount]) \cup {page[j.mount]} : PageBecomes(j.mount, pg, tile)
    /\ jobs' = Less(jobs, j)
    /\ UNCHANGED <<task, mounted, born, stream, runs>>

(* executeInstall after getStoreAppYaml: the project is known and tracked.  *)
YamlAnswered(j) ==
    /\ j.wait = "yaml"
    /\ PageBecomes(j.mount, [page[j.mount] EXCEPT !.project = j.app], StartTile(tile, j.app))
    /\ jobs' = More(Less(jobs, j), Job("post", j.mount, j.app))
    /\ UNCHANGED <<task, mounted, born, stream, runs>>

(* The catch of executeInstall and of handleUpdate: the tile named by the   *)
(* page's variable, not by the request, is told (install only).             *)
RequestFails(j) ==
    LET pg == page[j.mount] IN
    /\ j.wait \in {"yaml", "post", "update"}
    /\ PageBecomes(j.mount, [pg EXCEPT !.phase = "error"],
                   IF j.wait = "update" THEN tile ELSE UpdateTile(tile, pg.project, "error"))
    /\ jobs' = Less(jobs, j)
    /\ UNCHANGED <<task, mounted, born, stream, runs>>

(* The server accepts an install or an update, begins and answers; a task   *)
(* that ended with an earlier operation of the app stays ended.  An install *)
(* streams the page's project, an update the app it was called with.        *)
RequestAccepted(j) ==
    LET pg == page[j.mount]
        a == IF j.wait = "post" THEN pg.project ELSE j.app
    IN
    /\ j.wait \in {"post", "update"}
    /\ task' = [task EXCEPT ![j.app] = IF @ = "none" THEN "open" ELSE @]
    /\ OpenStream(j.mount, a)
    /\ PageBecomes(j.mount, Streaming(pg),
                   IF j.wait = "post" THEN UpdateTile(tile, a, "starting") ELSE tile)
    /\ jobs' = Less(jobs, j)
    /\ UNCHANGED <<mounted, born, runs>>

(* The operations of an app that were accepted have ended.                  *)
ServerFinishes(a) ==
    /\ task[a] = "open"
    /\ task' = [task EXCEPT ![a] = "done"]
    /\ UNCHANGED <<page, mounted, born, tile, stream, jobs, runs>>

\* Mutant: only a success is cleared away.
CheckedSuccess(j, found) ==
    LET outcome == IF found THEN "success" ELSE "error" IN
    /\ PageBecomes(j.mount, [page[j.mount] EXCEPT !.phase = outcome], UpdateTile(tile, j.app, outcome))
    /\ jobs' = IF ~found THEN Less(jobs, j)
               ELSE More(Less(jobs, j), Job("finish", j.mount, j.app))

(* checkInstallResult after its list request, which may have failed and     *)
(* left an older list: the app is found or not, the tile is told and        *)
(* finished 4 s later.  The id null is never found and has no tile.         *)
Checked(j, found) ==
    LET outcome == IF found THEN "success" ELSE "error" IN
    /\ PageBecomes(j.mount, [page[j.mount] EXCEPT !.phase = outcome], UpdateTile(tile, j.app, outcome))
    /\ jobs' = IF j.app = NoApp THEN Less(jobs, j)
               ELSE More(Less(jobs, j), Job("finish", j.mount, j.app))

ListArrives(j) ==
    /\ j.wait = "fetch"
    /\ \E found \in BOOLEAN : (found => j.app # NoApp) /\ Checked(j, found)
    /\ UNCHANGED <<task, mounted, born, stream, runs>>

(* Timers: 3 s after a failed stream, 4 s after a result, 50 ms of a retry. *)
TimerFires(j) ==
    /\ \/ /\ j.wait = "retry"
          /\ jobs' = More(Less(jobs, j), Job("fetch", j.mount, j.app))
          /\ UNCHANGED <<page, tile>>
       \/ /\ j.wait = "finish"
          /\ jobs' = Less(jobs, j) /\ tile' = FinishTile(tile, j.app) /\ UNCHANGED page
       \/ /\ j.wait = "reconfirm"
          /\ jobs' = Less(jobs, j)
          /\ PageBecomes(j.mount, [page[j.mount] EXCEPT !.phase = "confirm"], tile)
    /\ UNCHANGED <<task, mounted, born, stream, runs>>

----------------------------------------------------------------------------
Continue(j) ==
    \/ YamlAnswered(j) \/ RequestFails(j) \/ RequestAccepted(j)
    \/ ListArrives(j) \/ TimerFires(j)
    \/ AnalysisAnswered(j) \/ ChoicesChecked(j) \/ DebounceFires(j) \/ PickAnswered(j)

User ==
    \/ CancelConfirm \/ OnPortInput \/ AutoPickPort \/ ExecuteInstall \/ CloseOverlay \/ Retry \/ StayInStore \/ LeavePage \/ EnterPage
    \/ \E a \in Apps : RequestInstall(a) \/ HandleUpdate(a)

StoreNext ==
    \/ User
    \/ \E j \in BagToSet(jobs) : Continue(j)
    \/ \E i \in Streams : StreamFinishes(i) \/ StreamFails(i) \/ StreamTimesOut(i)
    \/ \E a \in Apps : ServerFinishes(a)

StoreSpec == StoreInit /\ [][StoreNext]_storeVars

(* Requests are answered, timers fire, operations end and so do their logs; *)
(* that something of this happens while it can is all that is assumed.      *)
System ==
    \/ \E j \in BagToSet(jobs) : YamlAnswered(j) \/ RequestAccepted(j) \/ ListArrives(j) \/ TimerFires(j)
    \/ \E i \in Streams : StreamFinishes(i) \/ StreamTimesOut(i)
    \/ \E a \in Apps : ServerFinishes(a)

FairStoreSpec == StoreSpec /\ WF_storeVars(System)

----------------------------------------------------------------------------
Jobs == [wait : Waits, mount : Mounts, app : MaybeApp]

StoreTypeOK ==
    /\ task \in [Apps -> {"none", "open", "done"}]
    /\ page \in [Mounts -> [phase : PagePhase, pending : MaybeApp, app : MaybeApp,
                           project : MaybeApp, active : 0..MaxRuns, timer : 0..MaxRuns,
                           analysing : BOOLEAN, ports : PortChoices]]
    /\ mounted \in 0..MaxMounts /\ born \in Mounts
    /\ tile \in [Apps -> {"none"} \cup InFlight \cup Terminal]
    /\ stream \in [Streams -> [mount : Mounts, app : MaybeApp, open : BOOLEAN, armed : BOOLEAN]]
    /\ runs \in 0..MaxRuns
    /\ BagToSet(jobs) \subseteq Jobs

(* The stream a page would close is open and its 10-minute timer will fire: *)
(* no callback of another stream leaves the variable naming a dead one.     *)
ActiveIsGuarded ==
    \A m \in Mounts :
        page[m].active # 0 => /\ stream[page[m].active].open /\ stream[page[m].active].armed
                              /\ stream[page[m].active].mount = m

(* The confirmation's spinner ends: a page that says it is checking has its *)
(* analysis under way, whichever confirmation of it was cancelled or        *)
(* overtaken by another (apps/+page.svelte:296-336).                        *)
AnalysisEnds ==
    \A m \in Mounts : page[m].analysing =>
        \E j \in BagToSet(jobs) : j.mount = m /\ j.wait \in {"analyse", "seed"}

(* A tile appears on the launchpad only by an install whose manifest has    *)
(* arrived: an update, or a late callback of a finished run, brings none.   *)
NoGhost ==
    [][\A a \in Apps : tile[a] = "none" /\ tile'[a] # "none" =>
          \E j \in BagToSet(jobs) : j.wait = "yaml" /\ j.app = a /\ Copies(jobs', j) < Copies(jobs, j)]_storeVars

(* A result that is being checked clears the app's tile away in the end,    *)
(* whatever it was and whether or not the page still exists.                *)
CheckedSettles ==
    \A a \in Apps :
        (\E j \in BagToSet(jobs) : j.app = a /\ j.wait \in {"retry", "fetch", "finish"})
            ~> tile[a] = "none"

(* No page stays at "installing" or "starting" for ever, whatever was       *)
(* cancelled, retried or lost: an answer, a check or the timer ends it.     *)
OverlayNeverFreezes == \A m \in Mounts : page[m].phase \in InFlight ~> page[m].phase \notin InFlight

(* No callback of an earlier run, check or mount leaves a page naming a     *)
(* dead stream or checking for ever (apps/+page.svelte:296-336, 516-550).   *)
OverlayIsSound == StoreTypeOK /\ ActiveIsGuarded /\ AnalysisEnds

(* Every run settles: its overlay ends and its tile is cleared away         *)
(* (apps/+page.svelte:516-624).                                             *)
RunsSettle == CheckedSettles /\ OverlayNeverFreezes
=============================================================================

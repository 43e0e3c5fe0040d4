----------------------------- MODULE Launchpad -----------------------------
(***************************************************************************)
(* The launchpad (ui/src/routes/+page.svelte) over the apps store          *)
(* (ui/src/lib/stores/apps.svelte.ts): one press of a tile is a click, a   *)
(* drag or a long press; a drop rewrites the order kept in localStorage,   *)
(* which the store page's install callback and a late uninstall rewrite    *)
(* too; start, stop and uninstall change the list before or after the      *)
(* server does, and list answers may overtake one another.                 *)
(***************************************************************************)
EXTENDS Naturals, Sequences, FiniteSets, SequencesExt

CONSTANTS
    Apps,
    NoApp,         \* null
    ByTitle,       \* all apps in the order of their titles
    ByKey,         \* all apps in the order the server lists them
    Running,       \* apps that run when the tab is opened
    PowerLabApps,  \* apps that carry store provenance
    MaxMounts,     \* bound: mounts of the page
    MaxRequests    \* bound: requests the page and its store send

Mounts == 1..MaxMounts

ASSUME ConstantsOK ==
    /\ NoApp \notin Apps /\ MaxMounts \in Nat \ {0} /\ MaxRequests \in Nat
    /\ ByTitle \in Seq(Apps) /\ ByKey \in Seq(Apps)
    /\ ToSet(ByTitle) = Apps /\ ToSet(ByKey) = Apps

VARIABLES
    server,        \* server[a]: "none", "running" or "exited"
    installed,     \* the apps store's list, as the page shows it
    jobs, sent,    \* requests in flight, requests sent
    stored,        \* localStorage.workload_order
    mounted, born, \* the mount on screen (0: another page), mounts made
    order,         \* order[m]: customOrder of mount m; a closure outlives its mount
    sortMode,
    phase, pressed, timer, dragged, live,   \* the gesture: pressId, longPressTimer, dragId, liveOrder
    menu, confirming, forking,              \* activeMenuId, confirmingUninstall, forkingAppId
    effects,       \* history: what the present press has done so far
    blind          \* history: requests overlapped, or a list request failed

gesture == <<phase, pressed, timer, dragged, live>>
popups == <<menu, confirming, forking>>
lists == <<server, installed, jobs, sent, blind>>
orders == <<stored, order, sortMode>>
vars == <<lists, orders, mounted, born, gesture, popups, effects>>

MaybeApp == Apps \cup {NoApp}
Statuses == {"none", "running", "exited"}

Init ==
    /\ server = [a \in Apps |-> IF a \in Running THEN "running" ELSE "none"] /\ installed = [a \in Apps |-> "none"]
    /\ jobs = {} /\ sent = 0 /\ blind = FALSE
    /\ stored = <<>> /\ order = [m \in Mounts |-> <<>>] /\ sortMode = "custom"
    /\ mounted = 0 /\ born = 0
    /\ phase = "idle" /\ pressed = NoApp /\ timer = NoApp /\ dragged = NoApp /\ live = <<>>
    /\ menu = NoApp /\ confirming = NoApp /\ forking = NoApp
    /\ effects = 0

----------------------------------------------------------------------------
(* orderedApps and displayOrder.                                            *)

Shown(a) == installed[a] # "none"
Visible == {a \in Apps : Shown(a)}

(* The place of an app in an order; every app the order lacks comes last.   *)
Rank(s, a) == IF Contains(s, a) THEN SelectInSeq(s, LAMBDA x : x = a) ELSE Len(s) + 1

(* The apps of S sorted by a key; ties in the order of base.                *)
Before(key, base, a, b) ==
    key[a] < key[b] \/ (key[a] = key[b] /\ Rank(base, a) < Rank(base, b))
SortedBy(S, key, base) ==
    CHOOSE s \in SetToSeqs(S) : \A i, j \in DOMAIN s : i < j => Before(key, base, s[i], s[j])

Equal == [a \in Apps |-> 0]
RunningFirst == [a \in Apps |-> IF installed[a] = "running" THEN 0 ELSE 1]
InOrder(s) == [a \in Apps |-> Rank(s, a)]

OrderedApps ==
    LET custom == IF mounted = 0 THEN <<>> ELSE order[mounted] IN
    CASE sortMode = "alpha"  -> SortedBy(Visible, Equal, ByTitle)
      [] sortMode = "status" -> SortedBy(Visible, RunningFirst, ByTitle)
      [] sortMode = "custom" /\ custom # <<>> -> SortedBy(Visible, InOrder(custom), ByTitle)
      [] OTHER -> SortedBy(Visible, Equal, ByKey)

DisplayOrder ==
    IF dragged # NoApp /\ live # <<>> THEN SortedBy(Visible, InOrder(live), ByKey) ELSE OrderedApps

(* customOrder.filter: an order names an app once, so its first place is    *)
(* every place it has.                                                      *)
Without(s, a) == RemoveFirst(s, a)

----------------------------------------------------------------------------
(* Requests.                                                                *)

Nothing == [a \in Apps |-> "none"]

(* snap: the list an answer carries, or the one a toggle is to bring about. *)
Sends(kind, a, m, snap) ==
    /\ sent < MaxRequests
    /\ sent' = sent + 1
    /\ jobs' = jobs \cup {[id |-> sent + 1, kind |-> kind, app |-> a, mount |-> m, snap |-> snap]}
    /\ blind' = (blind \/ jobs # {})

(* fetchInstalledApps: the server answers, the answer arrives later.        *)
ServerLists(j) ==
    /\ j.kind = "list"
    /\ jobs' = (jobs \ {j}) \cup {[j EXCEPT !.kind = "listed", !.snap = server]}
    /\ UNCHANGED <<server, installed, sent, blind, orders, mounted, born, gesture, popups, effects>>

ListArrives(j) ==
    /\ j.kind = "listed"
    /\ installed' = j.snap
    /\ jobs' = jobs \ {j}
    /\ UNCHANGED <<server, sent, blind, orders, mounted, born, gesture, popups, effects>>

ListFails(j) ==
    /\ j.kind \in {"list", "listed"}
    /\ jobs' = jobs \ {j} /\ blind' = TRUE
    /\ UNCHANGED <<server, installed, sent, orders, mounted, born, gesture, popups, effects>>

\* Mutant: the optimistic status is left standing.
RevertingNot(j) == jobs \ {j}

(* The catch of toggleAppStatus and uninstallApp: ask for the list.         *)
Reverting(j) == (jobs \ {j}) \cup {[j EXCEPT !.kind = "list", !.snap = Nothing]}

Flip(status) == IF status = "running" THEN "exited" ELSE "running"

(* The context menu is drawn for an app that is still listed; its close     *)
(* button and a click on the page close it, drawn or not.                   *)
MenuOffers ==
    IF menu = NoApp THEN {}
    ELSE {"close"} \cup (IF Shown(menu) THEN {"toggle", "edit", "uninstall"} ELSE {})

(* toggleAppStatus: shown at once, then sent.                               *)
ToggleAppStatus ==
    /\ "toggle" \in MenuOffers
    /\ installed' = [installed EXCEPT ![menu] = Flip(@)]
    /\ Sends("toggle", menu, mounted, installed')
    /\ menu' = NoApp
    /\ UNCHANGED <<server, orders, mounted, born, gesture, confirming, forking, effects>>

(* The server may do what is asked and the answer be lost all the same.     *)
ToggleAnswered(j, done, ok) ==
    /\ j.kind = "toggle" /\ (ok => done) /\ (done => server[j.app] # "none")
    /\ server' = IF done THEN [server EXCEPT ![j.app] = j.snap[j.app]] ELSE server
    /\ jobs' = IF ok THEN jobs \ {j} ELSE Reverting(j)
    /\ UNCHANGED <<installed, sent, blind, orders, mounted, born, gesture, popups, effects>>

(* handleUninstall after the request: the order of the mount that asked is  *)
(* what is filtered and stored, whether or not that mount is still there.   *)
UninstallSucceeds(j) ==
    LET kept == Without(order[j.mount], j.app) IN
    /\ j.kind = "uninstall"
    /\ server' = [server EXCEPT ![j.app] = "none"]
    /\ installed' = [installed EXCEPT ![j.app] = "none"]
    /\ order' = [order EXCEPT ![j.mount] = kept] /\ stored' = kept
    /\ jobs' = jobs \ {j}
    /\ UNCHANGED <<sent, blind, sortMode, mounted, born, gesture, popups, effects>>

UninstallFails(j) ==
    /\ j.kind = "uninstall"
    /\ \/ UNCHANGED server
       \/ server' = [server EXCEPT ![j.app] = "none"]
    /\ jobs' = Reverting(j)
    /\ UNCHANGED <<installed, sent, blind, orders, mounted, born, gesture, popups, effects>>

(* A minimized install ends: checkInstallResult of the store page lists the *)
(* app and pins it to the front of the stored order.                        *)
InstallCompletes(a) ==
    /\ server[a] = "none"
    /\ server' = [server EXCEPT ![a] = "running"]
    /\ installed' = server'
    /\ stored' = <<a>> \o Without(stored, a)
    /\ blind' = (blind \/ jobs # {})
    /\ UNCHANGED <<jobs, sent, order, sortMode, mounted, born, gesture, popups, effects>>

----------------------------------------------------------------------------
(* The page comes and goes.                                                 *)

Mount ==
    /\ mounted = 0 /\ born < MaxMounts
    /\ mounted' = born + 1 /\ born' = born + 1
    /\ order' = [order EXCEPT ![born + 1] = stored] /\ sortMode' = "custom"
    /\ Sends("list", NoApp, born + 1, Nothing)
    /\ UNCHANGED <<server, installed, stored, gesture, popups, effects>>

(* onDestroy clears the long-press timer; the rest goes with the component. *)
Gone ==
    /\ mounted' = 0
    /\ phase' = "idle" /\ pressed' = NoApp /\ timer' = NoApp /\ dragged' = NoApp /\ live' = <<>>
    /\ menu' = NoApp /\ confirming' = NoApp /\ forking' = NoApp
    /\ effects' = 0
    /\ UNCHANGED <<lists, orders, born>>

Leave == mounted # 0 /\ phase = "idle" /\ Gone

----------------------------------------------------------------------------
(* A dialog covers the page.                                                *)
Uncovered == mounted # 0 /\ confirming = NoApp /\ forking = NoApp

(* The tiles that can be pressed: one for each app on display, the dragged  *)
(* one's too, which is only invisible.                                      *)
Tiles == IF Uncovered THEN Visible ELSE {}

(* The gesture.  A second finger, or a release outside the window, brings a *)
(* pointerdown while a gesture is under way.                                *)

OnTilePointerDown(a) ==
    /\ a \in Tiles
    /\ phase' = "pressing" /\ pressed' = a /\ timer' = a
    /\ effects' = 0
    /\ UNCHANGED <<lists, orders, mounted, born, dragged, live, popups>>

\* Mutant: the press goes on after its menu is open.
LongPressStillPressing ==
    /\ timer # NoApp
    /\ timer' = NoApp
    /\ IF phase = "pressing" /\ pressed = timer
       THEN menu' = timer /\ effects' = effects + 1
       ELSE UNCHANGED <<menu, effects>>
    /\ UNCHANGED <<lists, orders, mounted, born, phase, pressed, dragged, live, confirming, forking>>

(* The timer after 550 ms.                                                  *)
LongPress ==
    /\ timer # NoApp
    /\ timer' = NoApp
    /\ IF phase = "pressing" /\ pressed = timer
       THEN menu' = timer /\ phase' = "idle" /\ pressed' = NoApp /\ effects' = effects + 1
       ELSE UNCHANGED <<menu, phase, pressed, effects>>
    /\ UNCHANGED <<lists, orders, mounted, born, dragged, live, confirming, forking>>

(* onWindowPointerMove past the threshold: beginDrag.                       *)
BeginDrag ==
    /\ phase = "pressing"
    /\ phase' = "dragging" /\ dragged' = pressed /\ live' = OrderedApps
    /\ timer' = NoApp /\ menu' = NoApp
    /\ UNCHANGED <<lists, orders, mounted, born, pressed, confirming, forking, effects>>

\* Mutant: the dragged app is put in at the new place and left at the old.
MovedCopied(s, a, to) == SubSeq(s, 1, to - 1) \o <<a>> \o SubSeq(s, to, Len(s))

(* splice(from, 1); splice(to, 0, a)                                        *)
Moved(s, a, to) ==
    LET rest == Without(s, a) IN SubSeq(rest, 1, to - 1) \o <<a>> \o SubSeq(rest, to, Len(rest))

(* flipReorder over another tile, if the live order knows both.             *)
FlipReorder(over) ==
    /\ phase = "dragging" /\ Shown(over) /\ over # dragged
    /\ Contains(live, dragged) /\ Contains(live, over)
    /\ live' = Moved(live, dragged, Rank(live, over))
    /\ UNCHANGED <<lists, orders, mounted, born, phase, pressed, timer, dragged, popups, effects>>

\* Mutant: the pressed app is not forgotten.
ClickStillPressed ==
    /\ phase = "pressing"
    /\ phase' = "idle" /\ timer' = NoApp
    /\ effects' = effects + (IF Shown(pressed) THEN 1 ELSE 0)
    /\ UNCHANGED <<lists, orders, mounted, born, pressed, dragged, live, popups>>

(* onWindowPointerUp, also bound to pointercancel.  (What is left in        *)
(* liveOrder after a drop is not read before the next drag overwrites it.)  *)
Click ==
    /\ phase = "pressing"
    /\ phase' = "idle" /\ pressed' = NoApp /\ timer' = NoApp
    /\ effects' = effects + (IF Shown(pressed) THEN 1 ELSE 0)
    /\ UNCHANGED <<lists, orders, mounted, born, dragged, live, popups>>

\* Mutant: the drop leaves the page sorted as it was.
DropUnsorted ==
    /\ phase = "dragging"
    /\ order' = [order EXCEPT ![mounted] = live] /\ stored' = live
    /\ phase' = "idle" /\ pressed' = NoApp /\ dragged' = NoApp /\ live' = <<>>
    /\ effects' = effects + 1
    /\ UNCHANGED <<lists, mounted, born, timer, popups, sortMode>>

Drop ==
    /\ phase = "dragging"
    /\ order' = [order EXCEPT ![mounted] = live] /\ stored' = live /\ sortMode' = "custom"
    /\ phase' = "idle" /\ pressed' = NoApp /\ dragged' = NoApp /\ live' = <<>>
    /\ effects' = effects + 1
    /\ UNCHANGED <<lists, mounted, born, timer, popups>>

----------------------------------------------------------------------------
(* Sorting, the context menu and the dialogs behind it.                     *)

Pops(m, c, f) == menu' = m /\ confirming' = c /\ forking' = f

SetSortMode(mode) ==
    /\ Uncovered /\ phase = "idle"
    /\ sortMode' = mode
    /\ UNCHANGED <<lists, stored, order, mounted, born, gesture, popups, effects>>

OnTileContextMenu(a) ==
    /\ a \in Tiles /\ phase # "dragging"
    /\ Pops(a, confirming, forking)
    /\ UNCHANGED <<lists, orders, mounted, born, gesture, effects>>

CloseMenu ==
    /\ "close" \in MenuOffers
    /\ Pops(NoApp, confirming, forking)
    /\ UNCHANGED <<lists, orders, mounted, born, gesture, effects>>

AskUninstall ==
    /\ "uninstall" \in MenuOffers
    /\ Pops(NoApp, menu, forking)
    /\ UNCHANGED <<lists, orders, mounted, born, gesture, effects>>

HandleUninstall ==
    /\ confirming # NoApp
    /\ Pops(NoApp, NoApp, forking)
    /\ Sends("uninstall", confirming, mounted, Nothing)
    /\ UNCHANGED <<server, installed, orders, mounted, born, gesture, effects>>

(* A store app is forked after a question, a custom one is edited at once.  *)
HandleEdit ==
    /\ "edit" \in MenuOffers
    /\ IF menu \in PowerLabApps
       THEN Pops(NoApp, confirming, menu) /\ UNCHANGED <<lists, orders, mounted, born, gesture, effects>>
       ELSE Gone

Fork == forking # NoApp /\ Gone

CancelDialog ==
    /\ \/ confirming # NoApp /\ Pops(menu, NoApp, forking)
       \/ forking # NoApp /\ Pops(menu, confirming, NoApp)
    /\ UNCHANGED <<lists, orders, mounted, born, gesture, effects>>

----------------------------------------------------------------------------
Answer(j) ==
    \/ ServerLists(j) \/ ListArrives(j) \/ ListFails(j) \/ UninstallSucceeds(j) \/ UninstallFails(j)
    \/ \E done, ok \in BOOLEAN : ToggleAnswered(j, done, ok)

Pointer ==
    \/ LongPress \/ BeginDrag \/ Click \/ Drop
    \/ \E a \in Apps : OnTilePointerDown(a) \/ FlipReorder(a) \/ OnTileContextMenu(a)

Next ==
    \/ Mount \/ Leave \/ Pointer
    \/ ToggleAppStatus \/ CloseMenu \/ AskUninstall \/ HandleUninstall \/ HandleEdit \/ Fork \/ CancelDialog
    \/ \E mode \in {"custom", "alpha", "status"} : SetSortMode(mode)
    \/ \E j \in jobs : Answer(j)
    \/ \E a \in Apps : InstallCompletes(a)

Spec == Init /\ [][Next]_vars

----------------------------------------------------------------------------
Orders == UNION {[1..n -> Apps] : n \in 0..Cardinality(Apps)}

TypeOK ==
    /\ server \in [Apps -> Statuses] /\ installed \in [Apps -> Statuses]
    /\ \A j \in jobs : /\ j.kind \in {"list", "listed", "toggle", "uninstall"}
                      /\ j.app \in MaybeApp /\ j.mount \in Mounts /\ j.snap \in [Apps -> Statuses]
    /\ sent \in 0..MaxRequests /\ blind \in BOOLEAN
    /\ stored \in Orders /\ order \in [Mounts -> Orders] /\ live \in Orders
    /\ sortMode \in {"custom", "alpha", "status"}
    /\ born \in 0..MaxMounts /\ mounted \in 0..born
    /\ phase \in {"idle", "pressing", "dragging"}
    /\ {pressed, timer, dragged, menu, confirming, forking} \subseteq MaybeApp
    /\ phase = "idle" <=> pressed = NoApp

(* One press opens the app, opens its menu or reorders the tiles: one of    *)
(* them and once, whatever the timer, a second finger or a cancel does.     *)
OneEffectPerPress == effects <= 1

(* No order ever names an app twice, whoever wrote it last: a drop, a pin   *)
(* by the store page or an uninstall of a page that is gone.                *)
OrdersNameOnce ==
    /\ IsInjective(stored) /\ IsInjective(live)
    /\ \A m \in Mounts : IsInjective(order[m])

(* What is seen when the pointer is released is what is kept: the drop      *)
(* itself moves no tile, in whatever sort mode the drag began (two apps     *)
(* that appear during one drag may change places).                          *)
DropKeepsWhatIsSeen ==
    [][phase = "dragging" /\ phase' = "idle" /\ mounted' # 0
         /\ Cardinality({a \in Visible : ~Contains(live, a)}) <= 1
       => DisplayOrder' = DisplayOrder]_vars

(* When nothing is in flight, no requests overlapped and no list was lost,  *)
(* the list shown is the server's: what was shown ahead of the server and   *)
(* refused, or done with its answer lost, has been put right.               *)
ListIsTrueWhenQuiet == jobs = {} /\ sent > 0 /\ ~blind => installed = server

(* The gesture is idle just when no tile is pressed, and every stored or    *)
(* live order names an app once (routes/+page.svelte:158-306).              *)
OrdersAreSound == TypeOK /\ OrdersNameOnce
=============================================================================

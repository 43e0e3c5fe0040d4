----------------------------- MODULE UiSettings -----------------------------
(***************************************************************************)
(* The settings page of the web UI (ui/src/routes/settings/+page.svelte)   *)
(* with its power and catalog panes and the banner of TrustStateChecker:   *)
(* the test of the HTTPS certificate and its pinned fingerprint, the reset *)
(* and the rotation of the CA, the change of the gateway's port with its   *)
(* countdown, restarts of services and of the host, the catalog switch and *)
(* its sources.  A pane that is left loses its state; its requests and     *)
(* timers go on.  Wording, formats, hardware and locale fields, the audit  *)
(* and log panes and the client's retries are left out.                    *)
(***************************************************************************)
EXTENDS Integers, FiniteSets

CONSTANTS
    Ports,         \* the first one is the gateway's at first
    FirstPort,
    Services,      \* powerlab units but for the gateway
    MaxPid,        \* bound: restarts of a unit
    MaxCA,         \* bound: certificate authorities
    Seconds,       \* bound: length of the countdown (three in the code)
    Tries,         \* bound: probes of a new port (four in the code)
    MaxInFlight,   \* bound: requests in flight when one more is made; probes
    MaxActs        \* bound: what the user does, but for closing dialogs

ASSUME ConstantsOK == /\ FirstPort \in Ports /\ Ports \cap {0, "here", "https", "reloaded"} = {}
                      /\ {MaxPid, MaxCA, Seconds, Tries} \subseteq Nat \ {0}
                      /\ {MaxInFlight, MaxActs} \subseteq Nat

None == 0
CAs == 1..MaxCA
Panes == {"general", "security", "power", "catalog"}   \* those with state
Dialogs == {"rotate", "gateway", "reboot", "shutdown", "add"}
PaneOf(d) == IF d = "rotate" THEN "page" ELSE IF d = "add" THEN "catalog" ELSE "power"

VARIABLES
    srv,       \* server: CA, HSTS gate, port and closing port, pids, catalog switch, sources
    device,    \* the CA this device trusts, and all it has trusted
    kept,      \* localStorage: trusted fingerprint, dismissed
    banner,    \* TrustStateChecker: fingerprint compared, mismatch
    test,      \* testHttpsConnection: where it stands, canRedirect, armed, fingerprint read
    going,     \* the redirect to HTTPS is due
    port,      \* the port editor
    clocks, probes,   \* countdown intervals and probes of new ports under way
    dlg,       \* the dialogs: open, acknowledged, busy
    ticked,    \* history: dialogs acknowledged since they were last opened
    pane,      \* activeSection
    power, catalog,   \* the panes
    reload,    \* the reload after a gateway restart is due
    jobs,      \* requests in flight
    left,      \* where the page has gone
    acts

trust == <<device, kept, banner, test, going>>
editor == <<port, clocks, probes>>
dialogs == <<dlg, ticked>>
panes == <<pane, power, catalog, reload>>
vars == <<srv, trust, editor, dialogs, panes, jobs, left, acts>>

Closed == [open |-> FALSE, ack |-> FALSE, busy |-> FALSE]
NoTest == [pc |-> "off", can |-> FALSE, armed |-> FALSE, fp |-> None]
NoPower == [pids |-> [s \in Services |-> None], loading |-> FALSE, busy |-> {}, done |-> {}, reconnecting |-> FALSE]
NoCatalog == [enabled |-> FALSE, sources |-> {}, loading |-> FALSE, toggling |-> FALSE, due |-> FALSE]

(* A request: its number among those of its kind, what it asks, for which   *)
(* service, port or source, the pid to leave behind, the pane it goes back  *)
(* to, and what the server answered.                                        *)
Nothing == [pids |-> NoPower.pids, sources |-> {}, on |-> FALSE]
Job(kind, arg, prev, for) ==
    [n |-> 1, kind |-> kind, arg |-> arg, prev |-> prev, for |-> for, state |-> "sent", got |-> Nothing]

Numbered(j) == [j EXCEPT !.n = CHOOSE n \in 1..(Cardinality(jobs) + 1) :
                                  /\ \A k \in jobs : k.kind = j.kind => k.n # n
                                  /\ \A m \in 1..(n - 1) : \E k \in jobs : k.kind = j.kind /\ k.n = m]
Room == Cardinality(jobs) < MaxInFlight
Ask(kind, arg, prev, for) == Room /\ jobs' = jobs \cup {Numbered(Job(kind, arg, prev, for))}

Init ==
    \E ca \in CAs \cup {None}, pin \in {None, 1}, fp \in CAs, dismissed \in BOOLEAN :
        /\ pin # None => ca # None
        /\ pin = None => ~dismissed
        /\ srv = [fp |-> fp, armed |-> FALSE, port |-> FirstPort, closing |-> None,
                  pids |-> [s \in Services |-> 1], cycling |-> {}, enabled |-> FALSE, sources |-> {0}]
        /\ device = [ca |-> ca, ever |-> {ca, pin} \ {None}]
        /\ kept = [fp |-> pin, dismissed |-> dismissed]
        /\ banner = [asked |-> IF dismissed THEN None ELSE pin, mismatch |-> FALSE]
        /\ test = NoTest /\ going = FALSE
        /\ port = [current |-> FirstPort, input |-> FirstPort, confirming |-> FALSE, seconds |-> 0, handle |-> 0]
        /\ clocks = {} /\ probes = {}
        /\ dlg = [d \in Dialogs |-> Closed] /\ ticked = {}
        /\ pane = "general" /\ power = NoPower /\ catalog = NoCatalog /\ reload = FALSE
        /\ jobs = {} /\ left = "here" /\ acts = 0

Act == acts < MaxActs /\ acts' = acts + 1

----------------------------------------------------------------------------
(* The server, as the page sees it.                                         *)

Trusted == device.ca = srv.fp

(* The rotation is refused without TLS; a restarted unit cycles later.      *)
RotateCA == Trusted /\ srv.fp < MaxCA /\ srv' = [srv EXCEPT !.fp = @ + 1, !.armed = FALSE]
Disarm == srv' = [srv EXCEPT !.armed = FALSE]
ChangePort(p) == srv' = [srv EXCEPT !.port = p, !.closing = IF p = srv.port THEN None ELSE srv.port]
RestartUnit(s) == srv' = [srv EXCEPT !.cycling = @ \cup {s}]
Enable(on) == srv' = [srv EXCEPT !.enabled = on]
AddSource == srv' = [srv EXCEPT !.sources = @ \cup {1}]
DropSource(id) == srv' = [srv EXCEPT !.sources = @ \ {id}]

Effect(j) ==
    CASE j.kind = "rotate" -> RotateCA
      [] j.kind = "reset" -> Disarm
      [] j.kind = "port" -> ChangePort(j.arg)
      [] j.kind = "restart" -> RestartUnit(j.arg)
      [] j.kind \in {"enable", "disable"} -> Enable(j.kind = "enable")
      [] j.kind = "add" -> AddSource
      [] j.kind = "remove" -> DropSource(j.arg)
      [] OTHER -> UNCHANGED srv

Content == [pids |-> srv.pids, sources |-> srv.sources, on |-> srv'.enabled]

(* What is asked is done and answered, done and the answer lost, or not     *)
(* done; the answer arrives later.                                          *)
Reads == {"load", "wait", "sources", "status", "enable", "disable"}

Serve(j, done, ok) ==
    /\ j.state = "sent" /\ (ok => done)
    /\ IF done THEN Effect(j) ELSE UNCHANGED srv
    /\ jobs' = (jobs \ {j}) \cup {[j EXCEPT !.state = IF ok THEN "ok" ELSE "bad", !.got = IF ok /\ j.kind \in Reads THEN Content ELSE Nothing]}
    /\ UNCHANGED <<trust, editor, dialogs, panes, left, acts>>

(* A unit that was told to restart has cycled; the gateway closes its old   *)
(* port.                                                                    *)
Cycle(s) ==
    /\ s \in srv.cycling /\ srv.pids[s] < MaxPid
    /\ srv' = [srv EXCEPT !.pids[s] = @ + 1, !.cycling = @ \ {s}]
    /\ UNCHANGED <<trust, editor, dialogs, panes, jobs, left, acts>>

ClosePort ==
    /\ srv.closing # None /\ srv' = [srv EXCEPT !.closing = None]
    /\ UNCHANGED <<trust, editor, dialogs, panes, jobs, left, acts>>

----------------------------------------------------------------------------
(* TrustStateChecker.svelte                                                 *)

(* onMount's answer; a failure is silent.                                   *)
CheckTrustState ==
    /\ banner.asked # None
    /\ \E fp \in {None, srv.fp} :
          banner' = [asked |-> None, mismatch |-> fp # None /\ fp # banner.asked]
    /\ UNCHANGED <<srv, device, kept, test, going, editor, dialogs, panes, jobs, left, acts>>

DismissMismatch ==
    /\ banner.mismatch /\ banner' = [banner EXCEPT !.mismatch = FALSE]
    /\ kept' = [kept EXCEPT !.dismissed = TRUE]
    /\ UNCHANGED <<srv, device, test, going, editor, dialogs, panes, jobs, left, acts>>

GoToWalkthrough ==
    /\ banner.mismatch /\ pane # "security" /\ pane' = "security"
    /\ power' = NoPower /\ catalog' = NoCatalog
    /\ dlg' = [d \in Dialogs |-> IF PaneOf(d) = "page" THEN dlg[d] ELSE Closed]
    /\ jobs' = {IF j.for = pane THEN [j EXCEPT !.for = "gone"] ELSE j : j \in jobs}
    /\ UNCHANGED <<srv, trust, editor, ticked, reload, left, acts>>

----------------------------------------------------------------------------
(* testHttpsConnection: one await per step.                                 *)

TestGoes(t) ==
    /\ test' = t
    /\ UNCHANGED <<srv, device, banner, editor, dialogs, panes, jobs, left, acts>>

(* The device's user downloads the CA and installs it as the tab says.      *)
InstallCA ==
    /\ Act /\ pane = "security" /\ device' = [ca |-> srv.fp, ever |-> device.ever \cup {srv.fp}]
    /\ UNCHANGED <<srv, kept, banner, test, going, editor, dialogs, panes, jobs, left>>

RecoveryShown == pane = "security"
TestOffered == pane = "security" /\ test.pc = "off"

TestHttps ==
    /\ Act /\ TestOffered /\ test' = [NoTest EXCEPT !.pc = "tls"]
    /\ UNCHANGED <<srv, device, kept, banner, going, editor, dialogs, panes, jobs, left>>

TestFails ==
    /\ test.pc \in {"tls", "arm"} /\ TestGoes([test EXCEPT !.pc = "off"]) /\ UNCHANGED <<kept, going>>

GuardTLS == test.pc = "tls" /\ Trusted /\ TestGoes([test EXCEPT !.pc = "spa"]) /\ UNCHANGED <<kept, going>>

(* Whether the HTTPS port serves the pages: a failure is no error.          *)
GuardSPA ==
    /\ test.pc = "spa"
    /\ \E can \in {FALSE, Trusted} : TestGoes([test EXCEPT !.pc = "arm", !.can = can])
    /\ UNCHANGED <<kept, going>>

GuardArm ==
    /\ test.pc = "arm" /\ Trusted /\ srv' = [srv EXCEPT !.armed = TRUE]
    /\ test' = [test EXCEPT !.pc = "read", !.armed = TRUE]
    /\ UNCHANGED <<device, kept, banner, going, editor, dialogs, panes, jobs, left, acts>>

\* Mutant: the fingerprint is read without TLS.
ReadFingerprintPlain ==
    /\ test.pc = "read" /\ \E fp \in {None, srv.fp} : TestGoes([test EXCEPT !.pc = "keep", !.fp = fp])
    /\ UNCHANGED <<kept, going>>

(* The fingerprint is read over HTTPS; no answer is no error.               *)
ReadFingerprint ==
    /\ test.pc = "read"
    /\ \E fp \in {None} \cup (IF Trusted THEN {srv.fp} ELSE {}) : TestGoes([test EXCEPT !.pc = "keep", !.fp = fp])
    /\ UNCHANGED <<kept, going>>

KeepFingerprint ==
    /\ test.pc = "keep" /\ TestGoes([test EXCEPT !.pc = "off"])
    /\ kept' = IF test.fp = None THEN kept ELSE [fp |-> test.fp, dismissed |-> FALSE]
    /\ going' = (going \/ test.can)

Redirect ==
    /\ going /\ left' = "https"
    /\ UNCHANGED <<srv, trust, editor, dialogs, panes, jobs, acts>>

ResetTrust ==
    /\ Act /\ RecoveryShown /\ Ask("reset", None, None, "page")
    /\ UNCHANGED <<srv, trust, editor, dialogs, panes, left>>

Forget == kept' = [fp |-> None, dismissed |-> FALSE]

GotReset(j) ==
    /\ j.kind = "reset" /\ IF j.state = "ok" THEN Forget ELSE UNCHANGED kept
    /\ UNCHANGED <<device, banner, test, going, editor, dialogs, panes>>

----------------------------------------------------------------------------
(* The dialogs: the rotation of the CA, the restart of the gateway, reboot  *)
(* and shutdown, and the new catalog source.                                *)

\* Mutant: an old acknowledgement stays.
OpenedAsLeft(d) == dlg' = [dlg EXCEPT ![d].open = TRUE] /\ ticked' = ticked \ {d}

Opened(d) == dlg' = [dlg EXCEPT ![d].open = TRUE, ![d].ack = FALSE] /\ ticked' = ticked \ {d}

(* Where the buttons that open a dialog are.                                *)
HostShown == pane = "power"
AddShown == pane = "catalog"

Open(d) ==
    /\ Act /\ ~dlg[d].open /\ Opened(d)
    /\ UNCHANGED <<srv, trust, editor, panes, jobs, left>>

ConfirmRotateCA == RecoveryShown /\ Open("rotate")
OpenRebootModal == HostShown /\ Open("reboot")
OpenShutdownModal == HostShown /\ Open("shutdown")
OpenAddModal == AddShown /\ Open("add")

(* What an open dialog lets the user press.                                 *)
RotateModal(m) == [tick |-> ~m.busy, cancel |-> ~m.busy, confirm |-> m.ack /\ ~m.busy]
GatewayModal(m) == [tick |-> FALSE, cancel |-> TRUE, confirm |-> ~m.busy]
RebootModal(m) == [tick |-> TRUE, cancel |-> TRUE, confirm |-> m.ack /\ ~m.busy]
ShutdownModal(m) == [tick |-> TRUE, cancel |-> TRUE, confirm |-> m.ack /\ ~m.busy]
AddModal(m) == [tick |-> TRUE, cancel |-> TRUE, confirm |-> m.ack /\ ~m.busy]

Modal(d) ==
    CASE d = "rotate" -> RotateModal(dlg[d])
      [] d = "gateway" -> GatewayModal(dlg[d])
      [] d = "reboot" -> RebootModal(dlg[d])
      [] d = "shutdown" -> ShutdownModal(dlg[d])
      [] d = "add" -> AddModal(dlg[d])

(* The check box, or the word ROTATE; the add dialog's URL goes with it.    *)
Acknowledge(d) ==
    /\ dlg[d].open /\ Modal(d).tick
    /\ dlg' = [dlg EXCEPT ![d].ack = ~@]
    /\ ticked' = IF dlg[d].ack THEN ticked \ {d} ELSE ticked \cup {d}
    /\ UNCHANGED <<srv, trust, editor, panes, jobs, left, acts>>

Cancel(d, ack) ==
    /\ dlg[d].open /\ Modal(d).cancel
    /\ dlg' = [dlg EXCEPT ![d].open = FALSE, ![d].ack = ack]
    /\ UNCHANGED <<srv, trust, editor, ticked, panes, jobs, left, acts>>

CancelRotate == Cancel("rotate", FALSE)
CancelAdd == Cancel("add", FALSE)
CloseModal == \E d \in {"gateway", "reboot", "shutdown"} : Cancel(d, dlg[d].ack)

Confirm(d) ==
    /\ dlg[d].open /\ Modal(d).confirm
    /\ Ask(d, None, None, PaneOf(d)) /\ dlg' = [dlg EXCEPT ![d].busy = TRUE]
    /\ UNCHANGED <<srv, trust, editor, ticked, panes, left, acts>>

ExecuteRotateCA == Confirm("rotate")
ConfirmGatewayRestart == Confirm("gateway")
ConfirmReboot == Confirm("reboot")
ConfirmShutdown == Confirm("shutdown")
ConfirmAdd == Confirm("add")

\* Mutant: an error leaves the dialog busy.
AnsweredOnlyOk(j) ==
    dlg' = IF j.for # "gone" /\ j.state = "ok" THEN [dlg EXCEPT ![j.kind] = Closed] ELSE dlg

(* Whatever was answered the dialog is busy no more; a success closes it. A  *)
(* dialog that is gone is not told.                                         *)
Answered(j) ==
    dlg' = IF j.for = "gone" THEN dlg
           ELSE [dlg EXCEPT ![j.kind] = IF j.state = "ok" THEN Closed ELSE [@ EXCEPT !.busy = FALSE]]

GotRotate(j) ==
    /\ j.kind = "rotate" /\ Answered(j)
    /\ IF j.state = "ok" THEN Forget ELSE UNCHANGED kept
    /\ UNCHANGED <<device, banner, test, going, editor, ticked, panes>>

\* Mutant: the page waits for the gateway and nothing reloads it.
GotGatewayWaits(j) ==
    /\ j.kind = "gateway" /\ Answered(j)
    /\ power' = [power EXCEPT !.reconnecting = @ \/ (j.state = "ok" /\ j.for # "gone")]
    /\ UNCHANGED <<trust, editor, ticked, pane, catalog, reload>>

(* The reload outlives the pane, its overlay does not.                      *)
GotGateway(j) ==
    /\ j.kind = "gateway" /\ Answered(j)
    /\ power' = [power EXCEPT !.reconnecting = @ \/ (j.state = "ok" /\ j.for # "gone")]
    /\ reload' = (reload \/ j.state = "ok")
    /\ UNCHANGED <<trust, editor, ticked, pane, catalog>>

GotReboot(j) == j.kind = "reboot" /\ Answered(j) /\ UNCHANGED <<trust, editor, ticked, panes>>
GotShutdown(j) == j.kind = "shutdown" /\ Answered(j) /\ UNCHANGED <<trust, editor, ticked, panes>>

(* The sources are loaded a while later.                                    *)
GotAdd(j) ==
    /\ j.kind = "add" /\ Answered(j)
    /\ catalog' = [catalog EXCEPT !.due = @ \/ (j.state = "ok" /\ j.for # "gone")]
    /\ UNCHANGED <<trust, editor, ticked, pane, power, reload>>

Reload ==
    /\ reload /\ left' = "reloaded"
    /\ UNCHANGED <<srv, trust, editor, dialogs, panes, jobs, acts>>

----------------------------------------------------------------------------
(* The port editor.                                                         *)

(* The dialog has its buttons while no countdown runs; a second interval    *)
(* that is never stopped counts below zero (kept at -1 here).               *)
PortRow == [edit |-> pane = "general", change |-> pane = "general" /\ port.input # port.current]
PortModal == [confirm |-> port.confirming /\ port.seconds = 0, shown |-> port.confirming \/ port.seconds > 0]

EditPort(p) ==
    /\ Act /\ PortRow.edit /\ p # port.input /\ port' = [port EXCEPT !.input = p]
    /\ UNCHANGED <<srv, trust, clocks, probes, dialogs, panes, jobs, left>>

RequestPortChange ==
    /\ PortRow.change /\ ~PortModal.shown /\ port' = [port EXCEPT !.confirming = TRUE]
    /\ UNCHANGED <<srv, trust, clocks, probes, dialogs, panes, jobs, left, acts>>

CancelPortChange ==
    /\ PortModal.confirm
    /\ port' = [port EXCEPT !.confirming = FALSE, !.input = port.current]
    /\ UNCHANGED <<srv, trust, clocks, probes, dialogs, panes, jobs, left, acts>>

ExecutePortChange ==
    /\ Act /\ PortModal.confirm /\ Ask("port", port.input, None, "page")
    /\ port' = [port EXCEPT !.confirming = FALSE]
    /\ UNCHANGED <<srv, trust, clocks, probes, dialogs, panes, left>>

(* The countdown starts; the interval's handle replaces an earlier one.     *)
GotPort(j) ==
    /\ j.kind = "port"
    /\ IF j.state = "ok"
       THEN LET c == CHOOSE n \in 1..(Cardinality(clocks) + 2) : n \notin clocks \cup {port.handle} IN
            clocks' = clocks \cup {c} /\ port' = [port EXCEPT !.seconds = Seconds, !.handle = c]
       ELSE UNCHANGED <<clocks, port>>
    /\ UNCHANGED <<trust, probes, dialogs, panes>>

(* A second of an interval; at the end it stops the newest interval and     *)
(* probes the port that is in the field by then.                            *)
Tick(c) ==
    /\ c \in clocks
    /\ \/ port.seconds > 1 /\ port' = [port EXCEPT !.seconds = @ - 1] /\ UNCHANGED <<clocks, probes>>
       \/ /\ port.seconds <= 1 /\ Cardinality(probes) < MaxInFlight
          /\ port' = [port EXCEPT !.seconds = IF @ = 1 THEN 0 ELSE -1] /\ clocks' = clocks \ {port.handle}
          /\ probes' = probes \cup {[to |-> port.input, left |-> Tries]}
    /\ UNCHANGED <<srv, trust, dialogs, panes, jobs, left, acts>>

\* Mutant: the page goes to the new port whether it answers or not.
ProbeAny(p) ==
    /\ left' = p.to /\ probes' = probes \ {p}
    /\ UNCHANGED <<srv, trust, port, clocks, dialogs, panes, jobs, acts>>

Probe(p) ==
    /\ \/ p.to \in {srv.port, srv.closing} /\ left' = p.to /\ probes' = probes \ {p}
       \/ /\ UNCHANGED left
          /\ probes' = (probes \ {p}) \cup (IF p.left > 1 THEN {[p EXCEPT !.left = @ - 1]} ELSE {})
    /\ UNCHANGED <<srv, trust, port, clocks, dialogs, panes, jobs, acts>>

----------------------------------------------------------------------------
(* PowerPane.svelte                                                         *)

(* A row of the list: shown once loaded, disabled while its unit restarts.  *)
RestartOffered(s) == pane = "power" /\ power.pids[s] # None /\ s \notin power.busy

(* load, every five seconds and on Refresh.                                 *)
LoadServices ==
    /\ pane = "power" /\ Ask("load", None, None, "power") /\ power' = [power EXCEPT !.loading = TRUE]
    /\ UNCHANGED <<srv, trust, editor, dialogs, pane, catalog, reload, left, acts>>

\* Mutant: an answer for a pane that is gone is taken by the pane.
GotLoadGone(j) ==
    /\ j.kind = "load"
    /\ power' = [power EXCEPT !.pids = IF j.state = "ok" THEN j.got.pids ELSE @, !.loading = FALSE]
    /\ UNCHANGED <<trust, editor, dialogs, pane, catalog, reload>>

GotLoad(j) ==
    /\ j.kind = "load"
    /\ power' = IF j.for = "gone" THEN power
                ELSE [power EXCEPT !.pids = IF j.state = "ok" THEN j.got.pids ELSE @, !.loading = FALSE]
    /\ UNCHANGED <<trust, editor, dialogs, pane, catalog, reload>>

RestartGateway ==
    /\ Act /\ pane = "power" /\ \E s \in Services : power.pids[s] # None
    /\ Ask("preflight", None, None, "power")
    /\ UNCHANGED <<srv, trust, editor, dialogs, panes, left>>

GotPreflight(j) ==
    /\ j.kind = "preflight" /\ IF j.for = "gone" THEN UNCHANGED dialogs ELSE Opened("gateway")
    /\ UNCHANGED <<trust, editor, panes>>

DoRestart(s) ==
    /\ Act /\ RestartOffered(s)
    /\ Ask("restart", s, power.pids[s], "power") /\ power' = [power EXCEPT !.busy = @ \cup {s}]
    /\ UNCHANGED <<srv, trust, editor, dialogs, pane, catalog, reload, left>>

GotRestart(j) ==
    /\ j.kind = "restart"
    /\ power' = IF j.for # "gone" /\ j.state = "bad" THEN [power EXCEPT !.busy = @ \ {j.arg}] ELSE power
    /\ UNCHANGED <<trust, editor, dialogs, pane, catalog, reload>>

(* waitForRestart: the list shows another pid, or the deadline has passed;  *)
(* either way the service counts as restarted.                              *)
Cycled(j) == j.state = "ok" /\ j.got.pids[j.arg] # j.prev

GotWait(j, late) ==
    /\ j.kind = "wait"
    /\ LET seen == IF j.state = "ok" THEN [power EXCEPT !.pids = j.got.pids] ELSE power IN
       power' = IF j.for = "gone" THEN power
                ELSE IF Cycled(j) \/ late THEN [seen EXCEPT !.busy = @ \ {j.arg}, !.done = @ \cup {j.arg}] ELSE seen
    /\ UNCHANGED <<trust, editor, dialogs, pane, catalog, reload>>

DoneFades ==
    /\ power.done # {} /\ \E s \in power.done : power' = [power EXCEPT !.done = @ \ {s}]
    /\ UNCHANGED <<srv, trust, editor, dialogs, pane, catalog, reload, jobs, left, acts>>

----------------------------------------------------------------------------
(* CatalogPane.svelte                                                       *)

(* load: on Refresh, and a while after a source was added.                  *)
RefreshOffered == pane = "catalog" /\ ~catalog.loading
ToggleOffered == pane = "catalog" /\ ~catalog.toggling /\ ~catalog.loading
RemoveOffered(id) == pane = "catalog" /\ id \in catalog.sources \ {0}

LoadSources ==
    /\ RefreshOffered \/ catalog.due
    /\ Ask("sources", None, None, "catalog") /\ catalog' = [catalog EXCEPT !.loading = TRUE, !.due = FALSE]
    /\ UNCHANGED <<srv, trust, editor, dialogs, pane, power, reload, left, acts>>

GotSources(j) ==
    /\ j.kind = "sources"
    /\ catalog' = IF j.for = "gone" THEN catalog
                  ELSE IF j.state = "ok" THEN [catalog EXCEPT !.sources = j.got.sources] ELSE [catalog EXCEPT !.loading = FALSE]
    /\ UNCHANGED <<trust, editor, dialogs, pane, power, reload>>

GotCatalogStatus(j) ==
    /\ j.kind = "status"
    /\ catalog' = IF j.for = "gone" THEN catalog
                  ELSE [catalog EXCEPT !.enabled = IF j.state = "ok" THEN j.got.on ELSE @, !.loading = FALSE]
    /\ UNCHANGED <<trust, editor, dialogs, pane, power, reload>>

ToggleCatalog ==
    /\ Act /\ ToggleOffered
    /\ Ask(IF catalog.enabled THEN "disable" ELSE "enable", None, None, "catalog") /\ catalog' = [catalog EXCEPT !.toggling = TRUE]
    /\ UNCHANGED <<srv, trust, editor, dialogs, pane, power, reload, left>>

GotToggle(j) ==
    /\ j.kind \in {"enable", "disable"}
    /\ catalog' = IF j.for = "gone" THEN catalog
                  ELSE [catalog EXCEPT !.enabled = IF j.state = "ok" THEN j.got.on ELSE @, !.toggling = FALSE]
    /\ UNCHANGED <<trust, editor, dialogs, pane, power, reload>>

(* Confirmed; the default source has no button.                             *)
RemoveSource(id) ==
    /\ Act /\ RemoveOffered(id) /\ Ask("remove", id, None, "catalog")
    /\ UNCHANGED <<srv, trust, editor, dialogs, panes, left>>

GotRemove(j) ==
    /\ j.kind = "remove"
    /\ catalog' = IF j.for # "gone" /\ j.state = "ok" THEN [catalog EXCEPT !.loading = TRUE] ELSE catalog
    /\ UNCHANGED <<trust, editor, dialogs, pane, power, reload>>

----------------------------------------------------------------------------
(* The page.                                                                *)

(* What a caller asks next: the catalog's status after its sources, its     *)
(* sources after a removal, the service list until a restart is seen.       *)
Follow(j, late) ==
    LET ok == j.state = "ok" IN
    CASE j.kind = "sources" /\ ok -> {Job("status", None, None, j.for)}
      [] j.kind = "remove" /\ ok -> {Job("sources", None, None, j.for)}
      [] j.kind = "restart" /\ ok -> {Job("wait", j.arg, j.prev, j.for)}
      [] j.kind = "wait" /\ ~late /\ ~Cycled(j) -> {Job("wait", j.arg, j.prev, j.for)}
      [] OTHER -> {}

Deliver(j) ==
    /\ j.state \in {"ok", "bad"}
    /\ \E late \in {FALSE, j.kind = "wait"} :
          /\ \/ GotReset(j) \/ GotRotate(j) \/ GotGateway(j) \/ GotReboot(j) \/ GotShutdown(j) \/ GotAdd(j)
             \/ GotPort(j) \/ GotLoad(j) \/ GotPreflight(j) \/ GotRestart(j)
             \/ GotWait(j, late) \/ GotSources(j) \/ GotCatalogStatus(j) \/ GotToggle(j) \/ GotRemove(j)
          /\ jobs' = (jobs \ {j}) \cup {Numbered(k) : k \in Follow(j, late)}
    /\ UNCHANGED <<srv, left, acts>>

(* Another section: the pane that is left is gone, the new one loads.       *)
OpenPane(p) ==
    /\ Act /\ p # pane /\ pane' = p
    /\ power' = [NoPower EXCEPT !.loading = (p = "power")]
    /\ catalog' = [NoCatalog EXCEPT !.loading = (p = "catalog")]
    /\ dlg' = [d \in Dialogs |-> IF PaneOf(d) = "page" THEN dlg[d] ELSE Closed]
    /\ jobs' = {IF j.for = pane THEN [j EXCEPT !.for = "gone"] ELSE j : j \in jobs}
                 \cup (IF p = "power" THEN {Numbered(Job("load", None, None, p))}
                       ELSE IF p = "catalog" THEN {Numbered(Job("sources", None, None, p))} ELSE {})
    /\ UNCHANGED <<srv, trust, editor, ticked, reload, left>>

Trust == \/ CheckTrustState \/ DismissMismatch \/ GoToWalkthrough \/ InstallCA \/ TestHttps \/ TestFails
         \/ GuardTLS \/ GuardSPA \/ GuardArm \/ ReadFingerprint \/ KeepFingerprint \/ Redirect \/ ResetTrust

Dialog == \/ ConfirmRotateCA \/ OpenRebootModal \/ OpenShutdownModal \/ OpenAddModal
          \/ \E d \in Dialogs : Acknowledge(d)
          \/ CancelRotate \/ CancelAdd \/ CloseModal
          \/ ExecuteRotateCA \/ ConfirmGatewayRestart \/ ConfirmReboot \/ ConfirmShutdown \/ ConfirmAdd

PortEditor == \/ \E p \in Ports : EditPort(p)
              \/ RequestPortChange \/ CancelPortChange \/ ExecutePortChange
              \/ \E c \in clocks : Tick(c)
              \/ \E p \in probes : Probe(p)

PowerPane == LoadServices \/ RestartGateway \/ DoneFades \/ \E s \in Services : DoRestart(s)
CatalogPane == LoadSources \/ ToggleCatalog \/ \E id \in catalog.sources : RemoveSource(id)

Next == /\ left = "here"
        /\ \/ \E j \in jobs : Deliver(j) \/ \E done, ok \in BOOLEAN : Serve(j, done, ok)
           \/ \E s \in Services : Cycle(s)
           \/ ClosePort \/ Trust \/ Dialog \/ Reload \/ PortEditor \/ PowerPane \/ CatalogPane
           \/ \E p \in Panes : OpenPane(p)

Spec == Init /\ [][Next]_vars

----------------------------------------------------------------------------
(* Properties.                                                              *)

JobType ==
    [n : Nat, kind : Dialogs \cup Reads \cup {"reset", "port", "restart", "preflight", "remove"},
     arg : Services \cup Ports \cup {0, 1}, prev : 0..MaxPid, for : Panes \cup {"page", "gone"},
     state : {"sent", "ok", "bad"},
     got : [pids : [Services -> 0..MaxPid], sources : SUBSET {0, 1}, on : BOOLEAN]]

(* Type correctness; a pane that is not shown keeps no state, and no request *)
(* goes back to it (settings/+page.svelte:555-625).                         *)
TypeOK ==
    /\ srv \in [fp : CAs, armed : BOOLEAN, port : Ports, closing : Ports \cup {None}, pids : [Services -> 1..MaxPid],
                cycling : SUBSET Services, enabled : BOOLEAN, sources : SUBSET {0, 1}]
    /\ device \in [ca : CAs \cup {None}, ever : SUBSET CAs] /\ kept \in [fp : CAs \cup {None}, dismissed : BOOLEAN]
    /\ banner \in [asked : CAs \cup {None}, mismatch : BOOLEAN]
    /\ test \in [pc : {"off", "tls", "spa", "arm", "read", "keep"}, can : BOOLEAN, armed : BOOLEAN, fp : CAs \cup {None}]
    /\ going \in BOOLEAN /\ reload \in BOOLEAN /\ left \in {"here", "https", "reloaded"} \cup Ports
    /\ port \in [current : Ports, input : Ports, confirming : BOOLEAN, seconds : -1..Seconds, handle : Nat]
    /\ clocks \subseteq Nat /\ probes \subseteq [to : Ports, left : 1..Tries]
    /\ dlg \in [Dialogs -> [open : BOOLEAN, ack : BOOLEAN, busy : BOOLEAN]] /\ ticked \subseteq Dialogs
    /\ pane \in Panes /\ acts \in 0..MaxActs
    /\ power \in [pids : [Services -> 0..MaxPid], loading : BOOLEAN, busy : SUBSET Services, done : SUBSET Services,
                  reconnecting : BOOLEAN]
    /\ catalog \in [enabled : BOOLEAN, sources : SUBSET {0, 1}, loading : BOOLEAN, toggling : BOOLEAN, due : BOOLEAN]
    /\ jobs \subseteq JobType /\ \A j, k \in jobs : j.kind = k.kind /\ j.n = k.n => j = k
    /\ pane # "power" => power = NoPower
    /\ pane # "catalog" => catalog = NoCatalog
    /\ \A d \in Dialogs : PaneOf(d) \notin {"page", pane} => dlg[d] = Closed
    /\ \A j \in jobs : j.for \in {"page", "gone", pane}

(* A disabled button comes back: every busy dialog, spinner and restarting  *)
(* service of the pane on screen waits for a request of its own, whatever   *)
(* requests of earlier panes and polls are answered meanwhile               *)
(* (PowerPane.svelte:91-115, 149-207; CatalogPane.svelte:52-115).           *)
Awaited(kinds) == \E j \in jobs : j.kind \in kinds /\ j.for # "gone"

BusyWaits ==
    /\ \A d \in Dialogs : dlg[d].busy => Awaited({d})
    /\ power.loading => Awaited({"load"})
    /\ catalog.loading => Awaited({"sources", "status"})
    /\ catalog.toggling => Awaited({"enable", "disable"})
    /\ \A s \in power.busy : \E j \in jobs : j.kind \in {"restart", "wait"} /\ j.arg = s /\ j.for = "power"

(* No acknowledgement is carried over: what a dialog shows as ticked or     *)
(* typed was ticked or typed since it was last opened, whether the last one *)
(* was cancelled, answered late or left behind (PowerPane.svelte:167-207,   *)
(* settings/+page.svelte:317-325).                                          *)
AcksAreFresh == \A d \in Dialogs : dlg[d].open /\ dlg[d].ack => d \in ticked

(* The page never strands the user: it goes to HTTPS only when one test has *)
(* seen the pages served there and the server has accepted to arm HSTS, and *)
(* to another port only if that port is one the gateway listens on          *)
(* (settings/+page.svelte:64-81, 427-430).                                  *)
LeavesForWhatAnswers ==
    /\ test.pc = "keep" /\ test.can => test.armed
    /\ left \in Ports => left \in {srv.port, srv.closing}

(* The fingerprint kept as trusted is one of a CA this device has trusted,  *)
(* although the CA may be rotated while a test is under way                 *)
(* (settings/+page.svelte:140-160).                                         *)
PinWasTrusted == kept.fp # None => kept.fp \in device.ever

(* The overlays without a button end: the page that reconnects to the       *)
(* gateway has its reload due, and a countdown on screen has an interval    *)
(* that counts it down, even when a second change has replaced the handle   *)
(* (PowerPane.svelte:153-158, settings/+page.svelte:431-435).               *)
OverlaysEnd ==
    /\ power.reconnecting => reload
    /\ port.seconds > 0 \/ (port.confirming /\ ~PortModal.confirm) => clocks # {}

(* What covers or disables the page ends (PowerPane.svelte,                 *)
(* CatalogPane.svelte, settings/+page.svelte:419-457).                      *)
WaitsEnd == BusyWaits /\ OverlaysEnd

(* The page trusts and goes to only what it has tested                      *)
(* (settings/+page.svelte:64-160, 419-457).                                 *)
TrustIsTested == PinWasTrusted /\ LeavesForWhatAnswers
=============================================================================

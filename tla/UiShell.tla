------------------------------ MODULE UiShell ------------------------------
(***************************************************************************)
(* The shell of the web UI: the session (ui/src/lib/stores/auth.svelte.ts  *)
(* over lib/api/client.ts), the gate that shows the set-up wizard, the     *)
(* login screen or the pages (routes/+layout.svelte), the stale-bundle     *)
(* banner, the update check and the overlay of an upgrade.  One tab; its   *)
(* reloads keep only localStorage.  The server serves a request, then the  *)
(* answer arrives, or the network drops either one and the client retries. *)
(* The development autologin, dev versions, the /product page, the user's  *)
(* name and the wording are left out.                                      *)
(***************************************************************************)
EXTENDS Naturals, FiniteSets

CONSTANTS
    Newest,        \* the newest version of PowerLab
    MaxTokens,     \* bound: sessions the server opens
    MaxInFlight,   \* bound: requests in flight when one more is made
    MaxActs        \* bound: what the user does

ASSUME ConstantsOK == /\ {Newest, MaxTokens} \subseteq Nat \ {0}
                      /\ {MaxInFlight, MaxActs} \subseteq Nat

None == 0          \* no token, no version
Tokens == 1..MaxTokens
Versions == 1..Newest
Threshold == 2     \* PERSISTENT_FAILURE_THRESHOLD

VARIABLES
    srv,      \* server: initialised, open sessions, version, install under way
    ran,      \* versions the server has run, for SuccessIsTheTarget
    attempts, \* localStorage: powerlab.versionHandshake.reloadAttempts
    sess,     \* auth store, the client's token and the stored one
    login, wizard,  \* the login screen and the set-up wizard
    hs,       \* version handshake
    upg, upd, \* upgrade overlay, update check
    jobs,     \* requests in flight
    leaving,  \* the page has asked to be reloaded
    warned,   \* "session expired" toasts since the last sign-in
    acts

server == <<srv, ran>>
screens == <<login, wizard>>
session == <<sess, screens, jobs, warned>>
vars == <<server, attempts, session, hs, upg, upd, leaving, acts>>

Gate(s) == IF ~s.inited THEN "wizard" ELSE IF ~s.authed THEN "login" ELSE "shell"

FreshLogin == [loading |-> FALSE, error |-> "none"]
FreshWizard == [step |-> 1, loading |-> FALSE, error |-> FALSE]
Idle == [state |-> "idle", target |-> None, poll |-> FALSE, timeout |-> FALSE, reload |-> FALSE]

(* A request: its number among those of its kind, what it asks and what     *)
(* follows, the screen that waits for it, the token it carries, whether the *)
(* credentials in it are right, and what the server answered.               *)
Job(n, kind, then, who, tok, right) ==
    [n |-> n, kind |-> kind, then |-> then, who |-> who, tok |-> tok, right |-> right,
     reply |-> "none", got |-> None]

Fresh(kind, js) == CHOOSE n \in 1..(Cardinality(js) + 1) :
                      /\ \A j \in js : j.kind = kind => j.n # n
                      /\ \A m \in 1..(n - 1) : \E j \in js : j.kind = kind /\ j.n = m

Asked(kind, then, who, tok, right, js) == js \cup {Job(Fresh(kind, js), kind, then, who, tok, right)}
Call(kind, then, who, tok, js) == Asked(kind, then, who, tok, TRUE, js)
RawFetch(kind, js) == Asked(kind, "none", "none", None, TRUE, js)
Room == Cardinality(jobs) < MaxInFlight

(* Module initialisation: the stored token goes into the client at once.    *)
Boot(tok) ==
    [token |-> tok, stored |-> tok, authed |-> tok # None, inited |-> TRUE, key |-> FALSE]

(* onMount of the layout.                                                   *)
BootJobs(tok) ==
    RawFetch("version", Call("status", "session", "none", tok, Call("status", "mount", "none", tok, {})))

Opened(tok, bundle) ==
    /\ sess' = Boot(tok) /\ jobs' = BootJobs(tok)
    /\ login' = FreshLogin /\ wizard' = FreshWizard
    /\ hs' = [bundle |-> bundle, backend |-> None, mismatch |-> FALSE, dismissed |-> FALSE]
    /\ upg' = Idle
    /\ upd' = [check |-> None, loading |-> FALSE, failing |-> FALSE, manual |-> FALSE, polling |-> FALSE]
    /\ leaving' = FALSE /\ warned' = 0

(* A browser with the token of a session that may have ended since, or with *)
(* none, on a bundle that may not be the server's.                          *)
Init ==
    \E known \in BOOLEAN, tok \in {None, 1}, live \in SUBSET {1}, bundle \in Versions :
        /\ live \cup ({tok} \ {None}) # {} => known
        /\ live \subseteq {tok}
        /\ srv = [inited |-> known, live |-> live, issued |-> 1, ver |-> 1, upgrading |-> FALSE] /\ ran = {1}
        /\ attempts = 0
        /\ sess = Boot(tok) /\ jobs = BootJobs(tok)
        /\ login = FreshLogin /\ wizard = FreshWizard
        /\ hs = [bundle |-> bundle, backend |-> None, mismatch |-> FALSE, dismissed |-> FALSE]
        /\ upg = Idle
        /\ upd = [check |-> None, loading |-> FALSE, failing |-> FALSE, manual |-> FALSE, polling |-> FALSE]
        /\ leaving = FALSE /\ warned = 0 /\ acts = 0

----------------------------------------------------------------------------
(* The server, as the UI sees it.                                           *)

Answered(j, reply, got) == jobs' = (jobs \ {j}) \cup {[j EXCEPT !.reply = reply, !.got = got]}

(* The requests whose effect or answer may be old when the answer comes;    *)
(* the others are served when they are answered.                            *)
Later == {"status", "version", "poll", "register", "login", "install"}

(* What a request asks is done and answered.                                *)
Effect(j) ==
    \/ /\ j.kind = "status" /\ Answered(j, IF srv.inited THEN "yes" ELSE "no", None) /\ UNCHANGED srv
    \/ /\ j.kind \in {"version", "poll"} /\ Answered(j, "ok", srv.ver) /\ UNCHANGED srv
    \/ /\ j.kind = "register" /\ ~srv.inited /\ Answered(j, "ok", None)
       /\ srv' = [srv EXCEPT !.inited = TRUE]
    \/ /\ j.kind = "login" /\ srv.inited /\ j.right /\ srv.issued < MaxTokens
       /\ srv' = [srv EXCEPT !.issued = @ + 1, !.live = @ \cup {srv.issued + 1}]
       /\ Answered(j, "ok", srv.issued + 1)
    \/ /\ j.kind = "install" /\ j.tok \in srv.live /\ Answered(j, "ok", None)
       /\ srv' = [srv EXCEPT !.upgrading = TRUE]

Refusal(j) == IF j.kind \in {"current", "install", "update", "data"} /\ j.tok \notin srv.live THEN "401" ELSE "bad"

(* A request without a live session is refused; any other may fail, and one *)
(* that cannot be done does.                                                *)
Serve(j) ==
    /\ j.kind \in Later /\ j.reply = "none"
    /\ Effect(j) \/ (Answered(j, Refusal(j), None) /\ UNCHANGED srv)
    /\ UNCHANGED <<ran, attempts, sess, screens, warned, hs, upg, upd, leaving, acts>>

(* The server ends a session.                                               *)
Expire(t) ==
    /\ t \in srv.live /\ srv' = [srv EXCEPT !.live = @ \ {t}]
    /\ UNCHANGED <<ran, attempts, session, hs, upg, upd, leaving, acts>>

(* install.sh swaps the binaries, and may roll back when the new ones fail  *)
(* their health check.                                                      *)
Swap ==
    /\ srv.upgrading /\ srv.ver # Newest
    /\ srv' = [srv EXCEPT !.ver = Newest] /\ ran' = ran \cup {Newest}
    /\ UNCHANGED <<attempts, session, hs, upg, upd, leaving, acts>>

InstallEnds ==
    /\ srv.upgrading /\ \E v \in ran : srv' = [srv EXCEPT !.upgrading = FALSE, !.ver = v]
    /\ UNCHANGED <<ran, attempts, session, hs, upg, upd, leaving, acts>>

----------------------------------------------------------------------------
(* client.ts                                                                *)

(* The request or its answer is lost and, one second on, sent again with    *)
(* the token the client holds by then.  Retries are not counted.            *)
Retry(j) ==
    /\ j.kind \notin {"version", "poll"}
    /\ jobs' = (jobs \ {j}) \cup {[j EXCEPT !.reply = "none", !.got = None, !.tok = sess.token]}
    /\ UNCHANGED <<server, attempts, sess, screens, warned, hs, upg, upd, leaving, acts>>

(* What the caller gets: the server's answer, or a network error.           *)
Outcomes(j) ==
    {"net"} \cup (IF j.kind \in Later THEN {j.reply} \ {"none"}
                  ELSE {Refusal(j)} \cup {r \in {"ok"} : j.tok \in srv.live})

----------------------------------------------------------------------------
(* auth.svelte.ts                                                           *)

SetAuthToken(s, tok) == [s EXCEPT !.token = tok]

\* Mutant: the stored token outlives the logout.
LoggedOutStored(s) == [SetAuthToken(s, None) EXCEPT !.authed = FALSE]

LoggedOut(s) == [SetAuthToken(s, None) EXCEPT !.authed = FALSE, !.stored = None]

LoggedIn(s, tok) == [SetAuthToken(s, tok) EXCEPT !.authed = TRUE, !.stored = tok]

\* Mutant: every 401 logs out and warns.
OnAuthErrorAlways(s, r) ==
    IF r = "401" THEN [out |-> LoggedOut(s), warn |-> TRUE] ELSE [out |-> s, warn |-> FALSE]

(* emitAuthError and its handler: a 401 logs a signed-in tab out.           *)
OnAuthError(s, r) ==
    IF r = "401" /\ s.authed THEN [out |-> LoggedOut(s), warn |-> TRUE] ELSE [out |-> s, warn |-> FALSE]

(* checkStatus, when its answer is there.                                   *)
StatusKnown(s, r) ==
    IF r \in {"yes", "no"} THEN [s EXCEPT !.inited = (r = "yes"), !.key = (r = "no")] ELSE s

(* checkSession once the status is known.                                   *)
SessionChecked(s) ==
    IF s.stored # None THEN SetAuthToken(s, s.stored) ELSE [s EXCEPT !.authed = FALSE]

----------------------------------------------------------------------------
(* +layout.svelte: a screen that leaves takes its state with it, and what   *)
(* it waited for goes on without it.                                        *)

\* Mutant: a screen keeps its state while it is not shown.
StaysAlways(screen, s) == TRUE

Stays(screen, s) == Gate(sess) = screen /\ Gate(s) = screen

Show(s, js, lg, wz) ==
    /\ sess' = s
    /\ jobs' = {IF j.who \in {"login", "wizard"} /\ ~Stays(j.who, s) THEN [j EXCEPT !.who = "gone"] ELSE j : j \in js}
    /\ login' = IF Stays("login", s) THEN lg ELSE FreshLogin
    /\ wizard' = IF Stays("wizard", s) THEN wz ELSE FreshWizard

Warn(s, w) == warned' = IF s.authed /\ ~sess.authed THEN 0 ELSE IF w THEN warned + 1 ELSE warned

(* handleSetup when register has not returned 'ok': a tab that is signed in *)
(* by then reloads, another shows the error.                                *)
SetupFails(j, s) ==
    /\ leaving' = (leaving \/ (j.who = "wizard" /\ s.authed))
    /\ Show(s, jobs \ {j}, login,
            IF j.who # "wizard" \/ s.authed THEN wizard ELSE [wizard EXCEPT !.loading = FALSE, !.error = TRUE])

----------------------------------------------------------------------------
(* The answers.  s: the session after a 401 has logged the tab out.         *)

GotStatus(j, r, s) ==
    LET k == StatusKnown(s, r)
        js == jobs \ {j} IN
    /\ j.kind = "status"
    /\ \/ /\ j.then = "mount" /\ Show(k, js, login, wizard) /\ UNCHANGED leaving
       \/ /\ j.then = "session" /\ UNCHANGED leaving
          /\ Show(SessionChecked(k),
                  IF k.stored = None THEN js ELSE Call("current", "none", "none", k.stored, js), login, wizard)
       \/ /\ j.then = "register" /\ k.key /\ UNCHANGED leaving
          /\ Show(k, Call("register", "none", j.who, k.token, js), login, wizard)
       \/ /\ j.then = "register" /\ ~k.key /\ SetupFails(j, k)

GotCurrent(j, r, s) ==
    /\ j.kind = "current"
    /\ Show(IF r = "ok" THEN [s EXCEPT !.authed = TRUE] ELSE LoggedOut(s), jobs \ {j}, login, wizard)
    /\ UNCHANGED leaving

GotRegister(j, r, s) ==
    /\ j.kind = "register"
    /\ IF r = "ok"
       THEN /\ Show(s, Call("login", "register", j.who, s.token, jobs \ {j}), login, wizard)
            /\ UNCHANGED leaving
       ELSE SetupFails(j, s)

(* handleLogin when login has not returned 'ok'.                            *)
LoginOutcome(r) ==
    [loading |-> FALSE, error |-> IF r = "net" THEN "offline" ELSE "invalid"]

GotLogin(j, r, s) ==
    /\ j.kind = "login"
    /\ \/ /\ r = "ok" /\ UNCHANGED leaving
          /\ Show(LoggedIn(s, j.got), jobs \ {j}, FreshLogin,
                  IF j.who = "wizard" THEN [wizard EXCEPT !.loading = FALSE] ELSE wizard)
       \/ /\ r # "ok" /\ j.then = "register" /\ SetupFails(j, s)
       \/ /\ r # "ok" /\ j.then = "none" /\ UNCHANGED leaving
          /\ Show(s, jobs \ {j}, IF j.who = "login" THEN LoginOutcome(r) ELSE login, wizard)

Elsewhere(j, s) == Show(s, jobs \ {j}, login, wizard) /\ UNCHANGED leaving

Deliver(j) ==
    \E r \in Outcomes(j) :
        LET e == OnAuthError(sess, r) IN
        /\ \/ GotStatus(j, r, e.out) \/ GotCurrent(j, r, e.out) \/ GotRegister(j, r, e.out) \/ GotLogin(j, r, e.out)
           \/ (j.kind = "data" /\ Elsewhere(j, e.out))
        /\ Warn(sess', e.warn)
        /\ UNCHANGED <<server, attempts, hs, upg, upd, acts>>

----------------------------------------------------------------------------
(* versionHandshake.svelte.ts                                               *)

PersistentFailure == attempts >= Threshold

Checked(r, v) ==
    /\ hs' = [hs EXCEPT !.backend = IF r = "ok" THEN v ELSE @, !.mismatch = (r = "ok" /\ v # hs.bundle)]
    /\ attempts' = IF r = "ok" /\ v = hs.bundle THEN 0 ELSE attempts

GotVersion(j) ==
    /\ j.kind = "version"
    /\ \E r \in Outcomes(j) : Checked(r, j.got)
    /\ jobs' = jobs \ {j}
    /\ UNCHANGED <<server, sess, screens, warned, upg, upd, leaving, acts>>

----------------------------------------------------------------------------
(* upgradeProgress.svelte.ts                                                *)

Cleared(u) == [u EXCEPT !.poll = FALSE, !.timeout = FALSE, !.reload = FALSE]

BeginPolling(u) == [Cleared(u) EXCEPT !.poll = TRUE, !.timeout = TRUE]

(* start, up to its await.                                                  *)
Started(v) == [Idle EXCEPT !.state = "starting", !.target = v]

GotInstall(j) ==
    /\ j.kind = "install"
    /\ \E r \in Outcomes(j) :
          LET e == OnAuthError(sess, r) IN
          /\ upg' = IF r = "ok" THEN BeginPolling([upg EXCEPT !.state = "restarting"])
                    ELSE [upg EXCEPT !.state = "error"]
          /\ Elsewhere(j, e.out) /\ Warn(sess', e.warn)
    /\ UNCHANGED <<server, attempts, hs, upd, acts>>

PollTick ==
    /\ upg.poll /\ Room /\ upg.state = "restarting" /\ upg.target # None
    /\ jobs' = RawFetch("poll", jobs)
    /\ UNCHANGED <<server, attempts, sess, screens, warned, hs, upg, upd, leaving, acts>>

\* Mutant: the state is not looked at again after the await.
PolledBlindly(r, v) ==
    upg' = IF r = "ok" /\ v = upg.target
           THEN [Cleared(upg) EXCEPT !.state = "success", !.reload = TRUE] ELSE upg

\* Mutant: any version will do.
PolledAny(r, v) ==
    upg' = IF upg.state = "restarting" /\ r = "ok"
           THEN [Cleared(upg) EXCEPT !.state = "success", !.reload = TRUE] ELSE upg

(* poll, after its awaits.                                                  *)
Polled(r, v) ==
    upg' = IF upg.state = "restarting" /\ r = "ok" /\ v = upg.target
           THEN [Cleared(upg) EXCEPT !.state = "success", !.reload = TRUE] ELSE upg

GotPoll(j) ==
    /\ j.kind = "poll" /\ \E r \in Outcomes(j) : Polled(r, j.got)
    /\ jobs' = jobs \ {j}
    /\ UNCHANGED <<server, attempts, sess, screens, warned, hs, upd, leaving, acts>>

\* Mutant: giving up leaves the state as it is.
UpgradeTimeoutQuiet ==
    /\ upg.timeout /\ upg.state = "restarting" /\ upg' = Cleared(upg)
    /\ UNCHANGED <<server, attempts, session, hs, upd, leaving, acts>>

UpgradeTimeout ==
    /\ upg.timeout /\ upg.state = "restarting" /\ upg' = Cleared([upg EXCEPT !.state = "error"])
    /\ UNCHANGED <<server, attempts, session, hs, upd, leaving, acts>>

----------------------------------------------------------------------------
(* updater.svelte.ts and updater-failure-state.ts                           *)

Refreshing(u) == [u EXCEPT !.loading = TRUE, !.manual = FALSE]

(* A streak of failures, transient or persistent.                           *)
RecordCheck(u, ok) == [u EXCEPT !.failing = ~ok]

Refreshed(u, r, v, manual) ==
    IF r = "ok" THEN [RecordCheck(u, TRUE) EXCEPT !.check = v, !.manual = FALSE, !.loading = FALSE]
    ELSE [RecordCheck(u, FALSE) EXCEPT !.manual = manual, !.loading = FALSE]

GotUpdate(j) ==
    /\ j.kind = "update"
    /\ \E r \in Outcomes(j) :
          LET e == OnAuthError(sess, r) IN
          /\ upd' = Refreshed(upd, r, Newest, j.then = "manual")
          /\ Elsewhere(j, e.out) /\ Warn(sess', e.warn)
    /\ UNCHANGED <<server, attempts, hs, upg, acts>>

(* What the update card offers: the failures come before the decision.      *)
UpgradeOffered == ~upd.manual /\ ~upd.failing /\ upd.check # None /\ upd.check # srv.ver

----------------------------------------------------------------------------
(* The user, and timers of the pages.                                       *)

Act == acts < MaxActs /\ acts' = acts + 1

Ask(kind, then, who, right) ==
    Room /\ jobs' = Asked(kind, then, who, sess.token, right, jobs)

(* What the screens offer.                                                  *)
SignInOffered == Gate(sess) = "login" /\ ~login.loading
FinishOffered == Gate(sess) = "wizard" /\ wizard.step = 2 /\ ~wizard.loading
BannerShown == hs.mismatch /\ ~hs.dismissed
OverlayShown == upg.state # "idle"

(* Credentials typed and sent on the login screen.                          *)
HandleLogin(right) ==
    /\ Act /\ SignInOffered
    /\ Ask("login", "none", "login", right)
    /\ login' = [loading |-> TRUE, error |-> "none"]
    /\ UNCHANGED <<server, attempts, sess, wizard, warned, hs, upg, upd, leaving>>

StartSetup ==
    /\ Gate(sess) = "wizard" /\ wizard.step = 1 /\ wizard' = [wizard EXCEPT !.step = 2]
    /\ UNCHANGED <<server, attempts, sess, login, jobs, warned, hs, upg, upd, leaving, acts>>

\* Mutant: nothing keeps a second press from registering again.
HandleSetupTwice ==
    /\ Act /\ Gate(sess) = "wizard" /\ wizard.step = 2
    /\ IF sess.key THEN Ask("register", "none", "wizard", TRUE) ELSE Ask("status", "register", "wizard", TRUE)
    /\ wizard' = [wizard EXCEPT !.loading = TRUE, !.error = FALSE]
    /\ UNCHANGED <<server, attempts, sess, login, warned, hs, upg, upd, leaving>>

(* handleSetup and register up to their first await; the fields agree and   *)
(* are long enough, as the disabled button wants.                           *)
HandleSetup ==
    /\ Act /\ FinishOffered
    /\ IF sess.key THEN Ask("register", "none", "wizard", TRUE) ELSE Ask("status", "register", "wizard", TRUE)
    /\ wizard' = [wizard EXCEPT !.loading = TRUE, !.error = FALSE]
    /\ UNCHANGED <<server, attempts, sess, login, warned, hs, upg, upd, leaving>>

(* Ctrl+Q, or the sidebar's button.                                         *)
Logout ==
    /\ Act /\ sess.authed /\ Show(LoggedOut(sess), jobs, login, wizard)
    /\ UNCHANGED <<server, attempts, warned, hs, upg, upd, leaving>>

(* The sidebar polls while it is shown.                                     *)
PagePolls ==
    /\ Gate(sess) = "shell" /\ Ask("data", "none", "none", TRUE)
    /\ UNCHANGED <<server, attempts, sess, screens, warned, hs, upg, upd, leaving, acts>>

(* The settings page starts the hourly check, once.                         *)
OpenSettings ==
    /\ Act /\ Gate(sess) = "shell" /\ ~upd.polling
    /\ upd' = [Refreshing(upd) EXCEPT !.polling = TRUE] /\ Ask("update", "auto", "none", TRUE)
    /\ UNCHANGED <<server, attempts, sess, screens, warned, hs, upg, leaving>>

HourlyCheck ==
    /\ Act /\ upd.polling /\ upd' = Refreshing(upd) /\ Ask("update", "auto", "none", TRUE)
    /\ UNCHANGED <<server, attempts, sess, screens, warned, hs, upg, leaving>>

CheckNow ==
    /\ Act /\ Gate(sess) = "shell" /\ upd.polling /\ ~upd.loading
    /\ upd' = Refreshing(upd) /\ Ask("update", "manual", "none", TRUE)
    /\ UNCHANGED <<server, attempts, sess, screens, warned, hs, upg, leaving>>

StartUpgrade ==
    /\ Act /\ Gate(sess) = "shell" /\ UpgradeOffered /\ ~OverlayShown
    /\ upg' = Started(upd.check) /\ Ask("install", "none", "none", TRUE)
    /\ UNCHANGED <<server, attempts, sess, screens, warned, hs, upd, leaving>>

CloseError ==
    /\ upg.state = "error" /\ upg' = Idle
    /\ UNCHANGED <<server, attempts, session, hs, upd, leaving, acts>>

Dismiss ==
    /\ BannerShown /\ hs' = [hs EXCEPT !.dismissed = TRUE]
    /\ UNCHANGED <<server, attempts, session, upg, upd, leaving, acts>>

(* The banner's button, there until the page is gone.                       *)
ForceReload ==
    /\ Act /\ BannerShown /\ ~PersistentFailure
    /\ attempts' = attempts + 1 /\ leaving' = TRUE
    /\ UNCHANGED <<server, session, hs, upg, upd>>

(* The page is loaded anew, with the server's bundle or a cached one.       *)
Reload(bundle) ==
    /\ bundle \in {srv.ver, hs.bundle}
    /\ \/ (leaving \/ upg.reload) /\ UNCHANGED acts
       \/ ~leaving /\ ~upg.reload /\ Act
    /\ Opened(sess.stored, bundle)
    /\ UNCHANGED <<server, attempts>>

User == \/ \E right \in BOOLEAN : HandleLogin(right)
        \/ StartSetup \/ HandleSetup \/ Logout \/ OpenSettings \/ CheckNow \/ StartUpgrade
        \/ CloseError \/ Dismiss \/ ForceReload \/ \E v \in Versions : Reload(v)

Answers(j) == Deliver(j) \/ GotVersion(j) \/ GotInstall(j) \/ GotPoll(j) \/ GotUpdate(j)

Next == \/ \E j \in jobs : Serve(j) \/ Retry(j) \/ Answers(j)
        \/ \E t \in Tokens : Expire(t)
        \/ Swap \/ InstallEnds \/ PollTick \/ UpgradeTimeout \/ PagePolls \/ HourlyCheck
        \/ User

Spec == Init /\ [][Next]_vars

----------------------------------------------------------------------------
(* Properties.                                                              *)

Kinds == {"status", "current", "register", "login", "version", "poll", "install", "update", "data"}

JobType ==
    [n : Nat, kind : Kinds, then : {"none", "mount", "session", "register", "auto", "manual"},
     who : {"none", "login", "wizard", "gone"}, tok : Tokens \cup {None}, right : BOOLEAN,
     reply : {"none", "ok", "bad", "401", "yes", "no"}, got : Nat]

(* Type correctness; the screens that are not shown keep no state, and a    *)
(* fetch outside the client carries no token (+layout.svelte).              *)
TypeOK ==
    /\ srv \in [inited : BOOLEAN, live : SUBSET Tokens, issued : Tokens, ver : Versions, upgrading : BOOLEAN]
    /\ ran \subseteq Versions /\ attempts \in Nat /\ warned \in Nat /\ acts \in 0..MaxActs /\ leaving \in BOOLEAN
    /\ sess \in [token : Tokens \cup {None}, stored : Tokens \cup {None}, authed : BOOLEAN, inited : BOOLEAN,
                 key : BOOLEAN]
    /\ login \in [loading : BOOLEAN, error : {"none", "invalid", "offline"}]
    /\ wizard \in [step : {1, 2}, loading : BOOLEAN, error : BOOLEAN]
    /\ hs \in [bundle : Versions, backend : Versions \cup {None}, mismatch : BOOLEAN, dismissed : BOOLEAN]
    /\ upg \in [state : {"idle", "starting", "restarting", "success", "error"}, target : Versions \cup {None},
                poll : BOOLEAN, timeout : BOOLEAN, reload : BOOLEAN]
    /\ upd \in [check : Versions \cup {None}, loading : BOOLEAN, failing : BOOLEAN, manual : BOOLEAN,
                polling : BOOLEAN]
    /\ jobs \subseteq JobType /\ \A j, k \in jobs : j.kind = k.kind /\ j.n = k.n => j = k
    /\ Gate(sess) # "login" => login = FreshLogin
    /\ Gate(sess) # "wizard" => wizard = FreshWizard
    /\ \A j \in jobs : j.who \in {"login", "wizard"} => Gate(sess) = j.who

(* The token the client sends is the one a reload would find: set and       *)
(* dropped together by sign-in, logout, session check and 401s, in whatever *)
(* order their answers come, and put back before the first request of a     *)
(* new page (auth.svelte.ts:63-74).                                         *)
TokensAgree == sess.token = sess.stored

(* However many polls fail together when a session ends, the user is told   *)
(* once per sign-in (auth.svelte.ts:255-259).                               *)
OneWarning == warned <= 1

(* A spinner ends: a screen that has disabled its button waits for a        *)
(* request of its own or is being reloaded, and the wizard never has two    *)
(* registrations under way (SetupWizard.svelte:41-44).                      *)
ButtonsComeBack ==
    /\ login.loading => \E j \in jobs : j.kind = "login" /\ j.who = "login"
    /\ wizard.loading => leaving \/ \E j \in jobs : j.who = "wizard"
    /\ \A j, k \in jobs : j.who = "wizard" /\ k.who = "wizard" => j = k

(* The overlay covers everything and closes only on an error; in any other  *)
(* state something is under way that takes it further: the request, the     *)
(* poll and the five-minute timer, or the reload.  No timer outlives the    *)
(* state it belongs to (upgradeProgress.svelte.ts:77-137).                  *)
OverlayIsDriven ==
    /\ upg.state = "starting" => \E j \in jobs : j.kind = "install"
    /\ (upg.state = "restarting") = upg.poll /\ upg.poll = upg.timeout
    /\ (upg.state = "success") = upg.reload
    /\ upg.state \in {"restarting", "success"} => upg.target # None

(* Success is announced only for a version the server has answered with.    *)
SuccessIsTheTarget == upg.state = "success" => upg.target \in ran

(* An upgrade that was given up or closed never turns into a success,       *)
(* whatever poll is still in flight (upgradeProgress.svelte.ts:97-103).     *)
GivenUpStays ==
    [][/\ upg.state = "error" => upg'.state \in {"error", "idle"}
       /\ upg.state = "idle" => upg'.state \in {"idle", "starting"}]_vars

(* The session is one and the same in memory, in localStorage and on        *)
(* screen: the gates keep no state behind, the tokens agree, a lost session *)
(* warns once and no button stays disabled (auth.svelte.ts,                 *)
(* routes/+layout.svelte, SetupWizard.svelte).                              *)
SessionIsSound == TypeOK /\ TokensAgree /\ OneWarning /\ ButtonsComeBack
=============================================================================

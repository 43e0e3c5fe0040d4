---------------------------- MODULE UiShellProofs ----------------------------
(***************************************************************************)
(* Proofs about UiShell, for any versions, sessions and requests: the      *)
(* upgrade overlay is always driven, what was given up stays given up and  *)
(* success is the asked-for version; the session is sound, its screens     *)
(* with it.                                                                *)
(***************************************************************************)
EXTENDS UiShell, FiniteSetTheorems, TLAPS

----------------------------------------------------------------------------
(* The requests in flight, as far as the overlay depends on them: each is a *)
(* record, and at most one asks for an installation.                        *)

Fields == {"n", "kind", "then", "who", "tok", "right", "reply", "got"}

IsJob(j) == DOMAIN j = Fields /\ j = [x \in DOMAIN j |-> j[x]]

Installs(js) == \E j \in js : j.kind = "install"

JobsInv(js) ==
    /\ \A j \in js : IsJob(j)
    /\ \A j, k \in js : j.kind = "install" /\ k.kind = "install" => j = k

(* The overlay's record.                                                    *)
IsOverlay(u) ==
    u \in [state : {u.state}, target : {u.target}, poll : {u.poll}, timeout : {u.timeout}, reload : {u.reload}]

(* The inductive invariant: "starting" lasts just as long as the one        *)
(* request, and each later state has its own timers and no other's.         *)
UpgradeInv ==
    /\ JobsInv(jobs) /\ IsOverlay(upg)
    /\ upg.state \in {"idle", "starting", "restarting", "success", "error"}
    /\ upg.poll \in BOOLEAN /\ upg.timeout \in BOOLEAN /\ upg.reload \in BOOLEAN
    /\ upg.state = "starting" <=> Installs(jobs)
    /\ upg.state = "restarting" <=> upg.poll
    /\ upg.poll <=> upg.timeout
    /\ upg.state = "success" <=> upg.reload
    /\ upg.state \in {"restarting", "success", "starting"} => upg.target # None

(* What a step may do to the requests without the overlay noticing.         *)
SameInstalls(js, ks) == JobsInv(ks) /\ (Installs(ks) <=> Installs(js))

LEMMA SameTrans ==
  ASSUME NEW a, NEW b, NEW c, SameInstalls(a, b), SameInstalls(b, c)
  PROVE  SameInstalls(a, c)
BY DEF SameInstalls

LEMMA JobIsJob ==
  ASSUME NEW n, NEW kind, NEW then, NEW who, NEW tok, NEW right
  PROVE  IsJob(Job(n, kind, then, who, tok, right)) /\ Job(n, kind, then, who, tok, right).kind = kind
BY DEF IsJob, Fields, Job

LEMMA JobExcept ==
  ASSUME NEW j, IsJob(j), NEW v
  PROVE  /\ IsJob([j EXCEPT !.reply = v]) /\ [j EXCEPT !.reply = v].kind = j.kind
         /\ IsJob([j EXCEPT !.got = v]) /\ [j EXCEPT !.got = v].kind = j.kind
         /\ IsJob([j EXCEPT !.who = v]) /\ [j EXCEPT !.who = v].kind = j.kind
         /\ IsJob([j EXCEPT !.tok = v]) /\ [j EXCEPT !.tok = v].kind = j.kind
BY Zenon DEF IsJob, Fields

LEMMA AskedSame ==
  ASSUME NEW js, JobsInv(js), NEW kind, kind # "install", NEW then, NEW who, NEW tok, NEW right
  PROVE  SameInstalls(js, Asked(kind, then, who, tok, right, js))
<1>. DEFINE x == Job(Fresh(kind, js), kind, then, who, tok, right)
<1>1. IsJob(x) /\ x.kind # "install"
  BY JobIsJob
<1>2. Asked(kind, then, who, tok, right, js) = js \cup {x}
  BY DEF Asked
<1>. HIDE DEF x
<1>. QED
  BY <1>1, <1>2 DEF SameInstalls, JobsInv, Installs

LEMMA AskedInstall ==
  ASSUME NEW js, JobsInv(js), ~Installs(js), NEW then, NEW who, NEW tok, NEW right
  PROVE  JobsInv(Asked("install", then, who, tok, right, js)) /\ Installs(Asked("install", then, who, tok, right, js))
<1>. DEFINE x == Job(Fresh("install", js), "install", then, who, tok, right)
<1>1. IsJob(x) /\ x.kind = "install"
  BY JobIsJob
<1>2. Asked("install", then, who, tok, right, js) = js \cup {x}
  BY DEF Asked
<1>. HIDE DEF x
<1>. QED
  BY <1>1, <1>2 DEF JobsInv, Installs

LEMMA DropSame ==
  ASSUME NEW js, JobsInv(js), NEW j \in js
  PROVE  /\ JobsInv(js \ {j})
         /\ j.kind # "install" => SameInstalls(js, js \ {j})
         /\ j.kind = "install" => ~Installs(js \ {j})
BY DEF SameInstalls, JobsInv, Installs

LEMMA ReplaceSame ==
  ASSUME NEW js, JobsInv(js), NEW j \in js, NEW k, IsJob(k), k.kind = j.kind
  PROVE  SameInstalls(js, (js \ {j}) \cup {k})
BY DEF SameInstalls, JobsInv, Installs

LEMMA AnsweredSame ==
  ASSUME UpgradeInv, NEW j \in jobs, NEW r, NEW g, Answered(j, r, g)
  PROVE  SameInstalls(jobs, jobs')
<1>. DEFINE i == [j EXCEPT !.reply = r]
            k == [j EXCEPT !.reply = r, !.got = g]
<1>0. IsJob(i) /\ i.kind = j.kind
  BY JobExcept DEF UpgradeInv, JobsInv
<1>1. IsJob(k) /\ k.kind = j.kind
  BY <1>0, JobExcept
<1>2. jobs' = (jobs \ {j}) \cup {k}
  BY DEF Answered
<1>. HIDE DEF k
<1>. QED
  BY <1>1, <1>2, ReplaceSame DEF UpgradeInv

LEMMA ShowSame ==
  ASSUME NEW s, NEW js, NEW lg, NEW wz, JobsInv(js), Show(s, js, lg, wz)
  PROVE  SameInstalls(js, jobs')
<1>. DEFINE f(j) == IF j.who \in {"login", "wizard"} /\ ~Stays(j.who, s) THEN [j EXCEPT !.who = "gone"] ELSE j
<1>1. jobs' = {f(j) : j \in js}
  BY DEF Show
<1>2. \A j \in js : IsJob(f(j)) /\ f(j).kind = j.kind
  BY JobExcept DEF JobsInv
<1>. HIDE DEF f
<1>3. \A k \in jobs' : \E j \in js : k = f(j)
  BY <1>1
<1>4. \A j \in js : f(j) \in jobs'
  BY <1>1
<1>5. JobsInv(jobs')
  BY <1>2, <1>3 DEF JobsInv
<1>6. Installs(jobs') <=> Installs(js)
  BY <1>2, <1>3, <1>4 DEF Installs
<1>. QED
  BY <1>5, <1>6 DEF SameInstalls

(* A step that leaves the overlay alone and keeps its request keeps the     *)
(* invariant.                                                               *)
LEMMA QuietStep ==
  ASSUME UpgradeInv, UNCHANGED upg, SameInstalls(jobs, jobs')
  PROVE  UpgradeInv'
BY DEF UpgradeInv, SameInstalls

LEMMA SameStays == ASSUME UpgradeInv, UNCHANGED jobs PROVE SameInstalls(jobs, jobs')
BY DEF UpgradeInv, SameInstalls

----------------------------------------------------------------------------
(* A page that is opened.                                                   *)

LEMMA BootSame == ASSUME NEW tok PROVE JobsInv(BootJobs(tok)) /\ ~Installs(BootJobs(tok))
<1>. DEFINE a == Asked("status", "mount", "none", tok, TRUE, {})
            b == Asked("status", "session", "none", tok, TRUE, a)
            c == Asked("version", "none", "none", None, TRUE, b)
<1>0. JobsInv({}) /\ ~Installs({})
  BY DEF JobsInv, Installs
<1>1. SameInstalls({}, a)
  BY <1>0, AskedSame
<1>. HIDE DEF a
<1>2. SameInstalls(a, b)
  BY <1>1, AskedSame DEF SameInstalls
<1>. HIDE DEF b
<1>3. SameInstalls(b, c)
  BY <1>2, AskedSame DEF SameInstalls
<1>4. BootJobs(tok) = c
  BY DEF BootJobs, RawFetch, Call, a, b
<1>. QED
  BY <1>0, <1>1, <1>2, <1>3, <1>4 DEF SameInstalls

LEMMA UpgradeInit == Init => UpgradeInv
<1>. SUFFICES ASSUME Init PROVE UpgradeInv
  OBVIOUS
<1>1. upg = Idle /\ \E tok : jobs = BootJobs(tok)
  BY DEF Init
<1>. QED
  BY <1>1, BootSame DEF UpgradeInv, Idle, IsOverlay, None

LEMMA UpgradeOpened == ASSUME NEW tok, NEW b, Opened(tok, b) PROVE UpgradeInv'
<1>1. upg' = Idle /\ jobs' = BootJobs(tok)
  BY DEF Opened
<1>. QED
  BY <1>1, BootSame DEF UpgradeInv, Idle, IsOverlay, None

----------------------------------------------------------------------------
(* The answers.                                                             *)

LEMMA DropShow ==
  ASSUME UpgradeInv, NEW j \in jobs, j.kind # "install",
         NEW s, NEW lg, NEW wz, Show(s, jobs \ {j}, lg, wz)
  PROVE  SameInstalls(jobs, jobs')
<1>1. SameInstalls(jobs, jobs \ {j})
  BY DropSame DEF UpgradeInv
<1>2. SameInstalls(jobs \ {j}, jobs')
  BY <1>1, ShowSame DEF SameInstalls
<1>. QED
  BY <1>1, <1>2, SameTrans

LEMMA CallShow ==
  ASSUME UpgradeInv, NEW j \in jobs, j.kind # "install",
         NEW kind, kind # "install", NEW then, NEW who, NEW tok,
         NEW s, NEW lg, NEW wz, Show(s, Call(kind, then, who, tok, jobs \ {j}), lg, wz)
  PROVE  SameInstalls(jobs, jobs')
<1>. DEFINE js == Call(kind, then, who, tok, jobs \ {j})
<1>1. SameInstalls(jobs, jobs \ {j})
  BY DropSame DEF UpgradeInv
<1>2. SameInstalls(jobs \ {j}, js)
  BY <1>1, AskedSame DEF SameInstalls, Call
<1>. HIDE DEF js
<1>3. SameInstalls(js, jobs')
  BY <1>2, ShowSame DEF SameInstalls, js
<1>. QED
  BY <1>1, <1>2, <1>3, SameTrans

LEMMA SetupFailsSame ==
  ASSUME UpgradeInv, NEW j \in jobs, j.kind # "install", NEW s, SetupFails(j, s)
  PROVE  SameInstalls(jobs, jobs')
<1>1. \E wz : Show(s, jobs \ {j}, login, wz)
  BY Zenon DEF SetupFails
<1>. QED
  BY <1>1, DropShow

LEMMA DeliverSame ==
  ASSUME UpgradeInv, NEW j \in jobs, Deliver(j)
  PROVE  SameInstalls(jobs, jobs')
<1>1. PICK r, s : GotStatus(j, r, s) \/ GotCurrent(j, r, s) \/ GotRegister(j, r, s) \/ GotLogin(j, r, s)
                  \/ (j.kind = "data" /\ Elsewhere(j, s))
  BY Zenon DEF Deliver
<1>2. CASE GotStatus(j, r, s)
  <2>. DEFINE k == StatusKnown(s, r)
  <2>0. j.kind # "install"
    BY <1>2 DEF GotStatus
  <2>1. CASE Show(k, jobs \ {j}, login, wizard)
    BY <2>0, <2>1, DropShow
  <2>2. CASE Show(SessionChecked(k), IF k.stored = None THEN jobs \ {j}
                   ELSE Call("current", "none", "none", k.stored, jobs \ {j}), login, wizard)
    <3>1. CASE k.stored = None
      BY <2>0, <2>2, <3>1, DropShow
    <3>2. CASE k.stored # None
      BY <2>0, <2>2, <3>2, CallShow
    <3>. QED
      BY <3>1, <3>2
  <2>3. CASE Show(k, Call("register", "none", j.who, k.token, jobs \ {j}), login, wizard)
    BY <2>0, <2>3, CallShow
  <2>4. CASE SetupFails(j, k)
    BY <2>0, <2>4, SetupFailsSame
  <2>. QED
    BY <1>2, <2>1, <2>2, <2>3, <2>4, Zenon DEF GotStatus
<1>3. CASE GotCurrent(j, r, s)
  BY <1>3, DropShow DEF GotCurrent
<1>4. CASE GotRegister(j, r, s)
  <2>0. j.kind # "install"
    BY <1>4 DEF GotRegister
  <2>1. CASE r = "ok"
    BY <1>4, <2>0, <2>1, CallShow DEF GotRegister
  <2>2. CASE r # "ok"
    BY <1>4, <2>0, <2>2, SetupFailsSame DEF GotRegister
  <2>. QED
    BY <2>1, <2>2
<1>5. CASE GotLogin(j, r, s)
  <2>0. j.kind # "install"
    BY <1>5 DEF GotLogin
  <2>1. SetupFails(j, s) \/ \E t, lg, wz : Show(t, jobs \ {j}, lg, wz)
    BY <1>5, Zenon DEF GotLogin
  <2>. QED
    BY <2>0, <2>1, SetupFailsSame, DropShow
<1>6. CASE j.kind = "data" /\ Elsewhere(j, s)
  BY <1>6, DropShow DEF Elsewhere
<1>. QED
  BY <1>1, <1>2, <1>3, <1>4, <1>5, <1>6

LEMMA UpgradeAnswered ==
  ASSUME UpgradeInv, NEW j \in jobs, Answers(j)
  PROVE  UpgradeInv'
<1>1. CASE Deliver(j)
  BY <1>1, DeliverSame, QuietStep DEF Deliver
<1>2. CASE GotVersion(j)
  BY <1>2, DropSame, QuietStep DEF GotVersion, UpgradeInv
<1>3. CASE GotUpdate(j)
  <2>1. j.kind # "install" /\ UNCHANGED upg /\ \E s : Show(s, jobs \ {j}, login, wizard)
    BY <1>3, Zenon DEF GotUpdate, Elsewhere
  <2>. QED
    BY <2>1, DropShow, QuietStep
<1>4. CASE GotPoll(j)
  <2>1. SameInstalls(jobs, jobs') /\ \E r : Polled(r, j.got)
    BY <1>4, DropSame DEF GotPoll, UpgradeInv
  <2>2. PICK r : Polled(r, j.got)
    BY <2>1
  <2>3. CASE upg.state = "restarting" /\ r = "ok" /\ j.got = upg.target
    <3>1. upg' = [Cleared(upg) EXCEPT !.state = "success", !.reload = TRUE]
      BY <2>2, <2>3 DEF Polled
    <3>2. IsOverlay(upg') /\ upg'.state = "success" /\ upg'.target = upg.target
          /\ upg'.poll = FALSE /\ upg'.timeout = FALSE /\ upg'.reload = TRUE
      BY <3>1 DEF UpgradeInv, IsOverlay, Cleared
    <3>. QED
      BY <2>1, <2>3, <3>2 DEF UpgradeInv, SameInstalls
  <2>4. CASE ~(upg.state = "restarting" /\ r = "ok" /\ j.got = upg.target)
    BY <2>1, <2>2, <2>4, QuietStep DEF Polled
  <2>. QED
    BY <2>3, <2>4
<1>5. CASE GotInstall(j)
  <2>1. PICK r : /\ upg' = IF r = "ok" THEN BeginPolling([upg EXCEPT !.state = "restarting"])
                           ELSE [upg EXCEPT !.state = "error"]
                 /\ \E s : Show(s, jobs \ {j}, login, wizard)
    BY <1>5, Zenon DEF GotInstall, Elsewhere
  <2>2. JobsInv(jobs \ {j}) /\ ~Installs(jobs \ {j}) /\ upg.state = "starting"
    BY <1>5, DropSame DEF GotInstall, UpgradeInv, Installs
  <2>3. JobsInv(jobs') /\ ~Installs(jobs')
    BY <2>1, <2>2, ShowSame DEF SameInstalls
  <2>4. CASE r = "ok"
    <3>1. upg' = BeginPolling([upg EXCEPT !.state = "restarting"])
      BY <2>1, <2>4
    <3>2. IsOverlay(upg') /\ upg'.state = "restarting" /\ upg'.target = upg.target
          /\ upg'.poll = TRUE /\ upg'.timeout = TRUE /\ upg'.reload = FALSE
      BY <3>1 DEF UpgradeInv, IsOverlay, BeginPolling, Cleared
    <3>. QED
      BY <2>2, <2>3, <3>2 DEF UpgradeInv
  <2>5. CASE r # "ok"
    <3>1. IsOverlay(upg') /\ upg'.state = "error" /\ upg'.target = upg.target
          /\ upg'.poll = upg.poll /\ upg'.timeout = upg.timeout /\ upg'.reload = upg.reload
      BY <2>1, <2>5 DEF UpgradeInv, IsOverlay
    <3>. QED
      BY <2>2, <2>3, <3>1 DEF UpgradeInv
  <2>. QED
    BY <2>4, <2>5
<1>. QED
  BY <1>1, <1>2, <1>3, <1>4, <1>5 DEF Answers
----------------------------------------------------------------------------
(* The other steps.                                                         *)

LEMMA UpgradeServed ==
  ASSUME UpgradeInv, NEW j \in jobs, Serve(j)
  PROVE  UpgradeInv'
<1>1. UNCHANGED upg /\ \E r, g : Answered(j, r, g)
  BY Zenon DEF Serve, Effect
<1>. QED
  BY <1>1, AnsweredSame, QuietStep

LEMMA UpgradeRetried ==
  ASSUME UpgradeInv, NEW j \in jobs, Retry(j)
  PROVE  UpgradeInv'
<1>. DEFINE a == [j EXCEPT !.reply = "none"]
            b == [j EXCEPT !.reply = "none", !.got = None]
            c == [j EXCEPT !.reply = "none", !.got = None, !.tok = sess.token]
<1>1. IsJob(a) /\ a.kind = j.kind
  BY JobExcept DEF UpgradeInv, JobsInv
<1>2. IsJob(b) /\ b.kind = j.kind
  BY <1>1, JobExcept
<1>3. IsJob(c) /\ c.kind = j.kind
  BY <1>2, JobExcept
<1>4. jobs' = (jobs \ {j}) \cup {c} /\ UNCHANGED upg
  BY DEF Retry
<1>. HIDE DEF c
<1>. QED
  BY <1>3, <1>4, ReplaceSame, QuietStep DEF UpgradeInv

(* One more request, but for an installation.                               *)
LEMMA UpgradeAsked ==
  ASSUME UpgradeInv, UNCHANGED upg, NEW kind, kind # "install", NEW then, NEW who, NEW tok, NEW right,
         jobs' = Asked(kind, then, who, tok, right, jobs)
  PROVE  UpgradeInv'
BY AskedSame, QuietStep DEF UpgradeInv

LEMMA UpgradeTimers ==
  ASSUME UpgradeInv, PollTick \/ UpgradeTimeout \/ PagePolls \/ HourlyCheck
  PROVE  UpgradeInv'
<1>1. CASE PollTick
  BY <1>1, UpgradeAsked DEF PollTick, RawFetch
<1>2. CASE UpgradeTimeout
  <2>1. upg' = Cleared([upg EXCEPT !.state = "error"]) /\ UNCHANGED jobs /\ upg.state = "restarting"
    BY <1>2 DEF UpgradeTimeout, session
  <2>2. IsOverlay(upg') /\ upg'.state = "error"
        /\ upg'.poll = FALSE /\ upg'.timeout = FALSE /\ upg'.reload = FALSE
    BY <2>1 DEF UpgradeInv, IsOverlay, Cleared
  <2>. QED
    BY <2>1, <2>2 DEF UpgradeInv
<1>3. CASE PagePolls
  BY <1>3, UpgradeAsked DEF PagePolls, Ask
<1>4. CASE HourlyCheck
  BY <1>4, UpgradeAsked DEF HourlyCheck, Ask
<1>. QED
  BY <1>1, <1>2, <1>3, <1>4

LEMMA UpgradeUser ==
  ASSUME UpgradeInv, User
  PROVE  UpgradeInv'
<1>1. ASSUME NEW right \in BOOLEAN, HandleLogin(right) PROVE UpgradeInv'
  BY <1>1, UpgradeAsked DEF HandleLogin, Ask
<1>2. CASE StartSetup \/ Dismiss \/ ForceReload
  BY <1>2, SameStays, QuietStep DEF StartSetup, Dismiss, ForceReload, session
<1>3. CASE HandleSetup
  <2>1. UNCHANGED upg /\ \E kind, then : kind # "install"
                             /\ jobs' = Asked(kind, then, "wizard", sess.token, TRUE, jobs)
    BY <1>3, Zenon DEF HandleSetup, Ask
  <2>. QED
    BY <2>1, UpgradeAsked
<1>4. CASE Logout
  <2>1. UNCHANGED upg /\ Show(LoggedOut(sess), jobs, login, wizard)
    BY <1>4 DEF Logout
  <2>. QED
    BY <2>1, ShowSame, QuietStep DEF UpgradeInv
<1>5. CASE OpenSettings \/ CheckNow
  <2>1. UNCHANGED upg /\ \E then : jobs' = Asked("update", then, "none", sess.token, TRUE, jobs)
    BY <1>5, Zenon DEF OpenSettings, CheckNow, Ask
  <2>. QED
    BY <2>1, UpgradeAsked
<1>6. CASE StartUpgrade
  <2>1. /\ upg.state = "idle" /\ upd.check # None
        /\ upg' = Started(upd.check)
        /\ jobs' = Asked("install", "none", "none", sess.token, TRUE, jobs)
    BY <1>6 DEF StartUpgrade, OverlayShown, UpgradeOffered, Ask
  <2>2. JobsInv(jobs') /\ Installs(jobs')
    BY <2>1, AskedInstall DEF UpgradeInv
  <2>3. IsOverlay(upg') /\ upg'.state = "starting" /\ upg'.target = upd.check
        /\ upg'.poll = FALSE /\ upg'.timeout = FALSE /\ upg'.reload = FALSE
    BY <2>1 DEF IsOverlay, Started, Idle
  <2>. QED
    BY <2>1, <2>2, <2>3 DEF UpgradeInv
<1>7. CASE CloseError
  <2>1. upg.state = "error" /\ upg' = Idle /\ UNCHANGED jobs
    BY <1>7 DEF CloseError, session
  <2>. QED
    BY <2>1 DEF UpgradeInv, IsOverlay, Idle
<1>8. ASSUME NEW v \in Versions, Reload(v) PROVE UpgradeInv'
  BY <1>8, UpgradeOpened DEF Reload
<1>. QED
  BY <1>1, <1>2, <1>3, <1>4, <1>5, <1>6, <1>7, <1>8 DEF User

LEMMA UpgradeNext == UpgradeInv /\ [Next]_vars => UpgradeInv'
<1>. SUFFICES ASSUME UpgradeInv, [Next]_vars PROVE UpgradeInv'
  OBVIOUS
<1>1. CASE UNCHANGED vars
  BY <1>1, SameStays, QuietStep DEF vars, session
<1>2. ASSUME NEW j \in jobs, Serve(j) \/ Retry(j) \/ Answers(j) PROVE UpgradeInv'
  BY <1>2, UpgradeServed, UpgradeRetried, UpgradeAnswered
<1>3. CASE (\E t \in Tokens : Expire(t)) \/ Swap \/ InstallEnds
  <2>1. UNCHANGED <<jobs, upg>>
    BY <1>3, Zenon DEF Expire, Swap, InstallEnds, session
  <2>. QED
    BY <2>1, SameStays, QuietStep
<1>4. CASE PollTick \/ UpgradeTimeout \/ PagePolls \/ HourlyCheck
  BY <1>4, UpgradeTimers
<1>5. CASE User
  BY <1>5, UpgradeUser
<1>. QED
  BY <1>1, <1>2, <1>3, <1>4, <1>5 DEF Next

(* The overlay that covers everything is always on its way to another       *)
(* state, for any versions, sessions, failures and retries.                 *)
THEOREM OverlayAlwaysDriven == Spec => []OverlayIsDriven
<1>1. UpgradeInv => OverlayIsDriven
  BY DEF UpgradeInv, OverlayIsDriven, Installs
<1>. QED
  BY <1>1, UpgradeInit, UpgradeNext, PTL DEF Spec
LEMMA GivenUpStep ==
  ASSUME UpgradeInv, [Next]_vars
  PROVE  [/\ upg.state = "error" => upg'.state \in {"error", "idle"}
          /\ upg.state = "idle" => upg'.state \in {"idle", "starting"}]_vars
<1>. DEFINE Onward == /\ upg.state = "error" => upg'.state \in {"error", "idle"}
                      /\ upg.state = "idle" => upg'.state \in {"idle", "starting"}
<1>1. CASE UNCHANGED upg
  BY <1>1 DEF UpgradeInv
<1>2. ASSUME NEW j \in jobs, GotInstall(j) PROVE Onward
  BY <1>2, Zenon DEF GotInstall, UpgradeInv, Installs
<1>3. ASSUME NEW j \in jobs, GotPoll(j) PROVE Onward
  BY <1>3 DEF GotPoll, Polled
<1>4. ASSUME UpgradeTimeout PROVE Onward
  BY <1>4 DEF UpgradeTimeout
<1>5. ASSUME StartUpgrade PROVE Onward
  BY <1>5 DEF StartUpgrade, OverlayShown, Started, Idle
<1>6. ASSUME CloseError PROVE Onward
  BY <1>6 DEF CloseError, Idle
<1>7. ASSUME NEW v \in Versions, Reload(v) PROVE Onward
  BY <1>7 DEF Reload, Opened, Idle
<1>8. ASSUME NEW j \in jobs, Serve(j) \/ Retry(j) \/ Deliver(j) \/ GotVersion(j) \/ GotUpdate(j) PROVE UNCHANGED upg
  BY <1>8, Zenon DEF Serve, Retry, Deliver, GotVersion, GotUpdate
<1>9. ASSUME NEW t \in Tokens, Expire(t) PROVE UNCHANGED upg
  BY <1>9 DEF Expire
<1>10. ASSUME Swap \/ InstallEnds \/ PollTick \/ PagePolls \/ HourlyCheck PROVE UNCHANGED upg
  BY <1>10 DEF Swap, InstallEnds, PollTick, PagePolls, HourlyCheck
<1>11. ASSUME NEW right \in BOOLEAN, HandleLogin(right) PROVE UNCHANGED upg
  BY <1>11 DEF HandleLogin
<1>12. ASSUME StartSetup \/ HandleSetup \/ Logout \/ OpenSettings \/ CheckNow \/ Dismiss \/ ForceReload
       PROVE  UNCHANGED upg
  BY <1>12 DEF StartSetup, HandleSetup, Logout, OpenSettings, CheckNow, Dismiss, ForceReload
<1>13. UNCHANGED vars => UNCHANGED upg
  BY DEF vars
<1>. HIDE DEF Onward
<1>14. ASSUME NEW j \in jobs, Answers(j) PROVE Onward \/ UNCHANGED upg
  BY <1>2, <1>3, <1>8, <1>14 DEF Answers
<1>15. ASSUME User PROVE Onward \/ UNCHANGED upg
  BY <1>5, <1>6, <1>7, <1>11, <1>12, <1>15 DEF User
<1>16. Onward \/ UNCHANGED upg
  BY <1>4, <1>8, <1>9, <1>10, <1>13, <1>14, <1>15 DEF Next
<1>. QED
  BY <1>1, <1>16 DEF Onward

(* An upgrade that was given up is never announced as a success later, and  *)
(* none begins by itself, whatever is still in flight.                      *)
THEOREM GivenUpForGood == Spec => GivenUpStays
<1>1. UpgradeInv /\ [Next]_vars
        => [/\ upg.state = "error" => upg'.state \in {"error", "idle"}
            /\ upg.state = "idle" => upg'.state \in {"idle", "starting"}]_vars
  BY GivenUpStep
<1>. QED
  BY <1>1, UpgradeInit, UpgradeNext, PTL DEF Spec, GivenUpStays

----------------------------------------------------------------------------
(* The session.                                                             *)

IsSess(s) ==
    s \in [token : {s.token}, stored : {s.stored}, authed : BOOLEAN, inited : {s.inited}, key : {s.key}]

Sound(s) == IsSess(s) /\ s.token = s.stored

(* The inductive invariant: the warning is spent only once the session is.  *)
SessionInv ==
    /\ Sound(sess) /\ warned \in {0, 1}
    /\ sess.authed => warned = 0

LEMMA BootSound == ASSUME NEW tok PROVE Sound(Boot(tok))
BY DEF Boot, Sound, IsSess

LEMMA LogSound ==
  ASSUME NEW s, Sound(s), NEW tok
  PROVE  /\ Sound(LoggedOut(s)) /\ LoggedOut(s).authed = FALSE
         /\ Sound(LoggedIn(s, tok)) /\ LoggedIn(s, tok).authed = TRUE
BY DEF LoggedOut, LoggedIn, SetAuthToken, Sound, IsSess

LEMMA StatusSound ==
  ASSUME NEW s, Sound(s), NEW r
  PROVE  Sound(StatusKnown(s, r)) /\ StatusKnown(s, r).authed = s.authed
BY DEF StatusKnown, Sound, IsSess

LEMMA CheckSound ==
  ASSUME NEW s, Sound(s)
  PROVE  Sound(SessionChecked(s)) /\ (SessionChecked(s).authed => s.authed)
BY DEF SessionChecked, SetAuthToken, Sound, IsSess

LEMMA AuthErrorSound ==
  ASSUME NEW s, Sound(s), NEW r
  PROVE  LET e == OnAuthError(s, r) IN
         /\ Sound(e.out)
         /\ e.warn => s.authed /\ ~e.out.authed /\ r = "401"
         /\ ~e.warn => e.out = s
BY LogSound DEF OnAuthError

(* After an answer the tab is signed in only if it was, or by a good answer. *)
LEMMA DeliveredSound ==
  ASSUME NEW j, NEW r, NEW s, Sound(s),
         \/ GotStatus(j, r, s) \/ GotCurrent(j, r, s) \/ GotRegister(j, r, s) \/ GotLogin(j, r, s)
         \/ Elsewhere(j, s)
  PROVE  Sound(sess') /\ (sess'.authed => s.authed \/ r = "ok")
<1>1. CASE GotStatus(j, r, s)
  <2>1. sess' = StatusKnown(s, r) \/ sess' = SessionChecked(StatusKnown(s, r))
    BY <1>1, Zenon DEF GotStatus, SetupFails, Show
  <2>. QED
    BY <2>1, StatusSound, CheckSound
<1>2. CASE GotCurrent(j, r, s)
  <2>1. sess' = IF r = "ok" THEN [s EXCEPT !.authed = TRUE] ELSE LoggedOut(s)
    BY <1>2 DEF GotCurrent, Show
  <2>2. Sound([s EXCEPT !.authed = TRUE])
    BY DEF Sound, IsSess
  <2>. QED
    BY <2>1, <2>2, LogSound
<1>3. CASE GotRegister(j, r, s)
  BY <1>3 DEF GotRegister, SetupFails, Show
<1>4. CASE GotLogin(j, r, s)
  <2>1. sess' = s \/ (r = "ok" /\ sess' = LoggedIn(s, j.got))
    BY <1>4, Zenon DEF GotLogin, SetupFails, Show
  <2>. QED
    BY <2>1, LogSound
<1>5. CASE Elsewhere(j, s)
  BY <1>5 DEF Elsewhere, Show
<1>. QED
  BY <1>1, <1>2, <1>3, <1>4, <1>5

LEMMA SessionDelivered ==
  ASSUME SessionInv, NEW j, NEW r,
         LET e == OnAuthError(sess, r) IN
         /\ \/ GotStatus(j, r, e.out) \/ GotCurrent(j, r, e.out)
            \/ GotRegister(j, r, e.out) \/ GotLogin(j, r, e.out) \/ Elsewhere(j, e.out)
         /\ Warn(sess', e.warn)
  PROVE  SessionInv'
<1>. DEFINE e == OnAuthError(sess, r)
<1>1. /\ Sound(e.out)
      /\ e.warn => sess.authed /\ ~e.out.authed /\ r = "401"
      /\ ~e.warn => e.out = sess
  BY AuthErrorSound DEF SessionInv
<1>2. \/ GotStatus(j, r, e.out) \/ GotCurrent(j, r, e.out)
      \/ GotRegister(j, r, e.out) \/ GotLogin(j, r, e.out) \/ Elsewhere(j, e.out)
  OBVIOUS
<1>3. warned' = IF sess'.authed /\ ~sess.authed THEN 0 ELSE IF e.warn THEN warned + 1 ELSE warned
  BY DEF Warn
<1>. HIDE DEF e
<1>4. Sound(sess') /\ (sess'.authed => e.out.authed \/ r = "ok")
  BY <1>1, <1>2, DeliveredSound
<1>. QED
  BY <1>1, <1>3, <1>4 DEF SessionInv

LEMMA SessionNext == SessionInv /\ [Next]_vars => SessionInv'
<1>. SUFFICES ASSUME SessionInv, [Next]_vars PROVE SessionInv'
  OBVIOUS
<1>1. UNCHANGED <<sess, warned>> => SessionInv'
  BY DEF SessionInv
<1>2. ASSUME NEW j \in jobs, Deliver(j) PROVE SessionInv'
  BY <1>2, SessionDelivered DEF Deliver
<1>3. ASSUME NEW j \in jobs, GotInstall(j) \/ GotUpdate(j) PROVE SessionInv'
  BY <1>3, SessionDelivered DEF GotInstall, GotUpdate
<1>4. ASSUME NEW j \in jobs, Serve(j) \/ Retry(j) \/ GotVersion(j) \/ GotPoll(j) PROVE SessionInv'
  BY <1>1, <1>4, Zenon DEF Serve, Retry, GotVersion, GotPoll
<1>5. CASE (\E t \in Tokens : Expire(t)) \/ Swap \/ InstallEnds
  BY <1>1, <1>5, Zenon DEF Expire, Swap, InstallEnds, session
<1>6. CASE PollTick \/ UpgradeTimeout \/ PagePolls \/ HourlyCheck
  BY <1>1, <1>6 DEF PollTick, UpgradeTimeout, PagePolls, HourlyCheck, session
<1>7. CASE StartSetup \/ HandleSetup \/ OpenSettings \/ CheckNow \/ StartUpgrade
           \/ CloseError \/ Dismiss \/ ForceReload
  BY <1>1, <1>7 DEF StartSetup, HandleSetup, OpenSettings, CheckNow, StartUpgrade,
                    CloseError, Dismiss, ForceReload, session
<1>8. ASSUME NEW right \in BOOLEAN, HandleLogin(right) PROVE SessionInv'
  BY <1>1, <1>8 DEF HandleLogin
<1>9. CASE Logout
  <2>1. sess' = LoggedOut(sess) /\ UNCHANGED warned
    BY <1>9 DEF Logout, Show
  <2>. QED
    BY <2>1, LogSound DEF SessionInv
<1>10. ASSUME NEW v \in Versions, Reload(v) PROVE SessionInv'
  <2>1. sess' = Boot(sess.stored) /\ warned' = 0
    BY <1>10 DEF Reload, Opened
  <2>. QED
    BY <2>1, BootSound DEF SessionInv
<1>11. CASE UNCHANGED vars
  BY <1>1, <1>11 DEF vars, session
<1>. QED
  BY <1>2, <1>3, <1>4, <1>5, <1>6, <1>7, <1>8, <1>9, <1>10, <1>11 DEF Next, Answers, User

(* In whatever order sign-ins, checks, 401s and a logout are answered, the  *)
(* token in memory is the stored one and the loss of a session is told at   *)
(* most once.                                                               *)
THEOREM SessionsAgree == Spec => [](TokensAgree /\ OneWarning)
<1>1. Init => SessionInv
  <2>. SUFFICES ASSUME Init PROVE SessionInv
    OBVIOUS
  <2>1. warned = 0 /\ \E tok : sess = Boot(tok)
    BY DEF Init
  <2>. QED
    BY <2>1, BootSound DEF SessionInv
<1>2. SessionInv => TokensAgree /\ OneWarning
  BY DEF SessionInv, Sound, TokensAgree, OneWarning
<1>. QED
  BY <1>1, <1>2, SessionNext, PTL DEF Spec

----------------------------------------------------------------------------
(* The requests in flight: typed, numbered apart, and asked by the screen   *)
(* that may ask them.                                                       *)

Thens == {"none", "mount", "session", "register", "auto", "manual"}
Whos == {"none", "login", "wizard", "gone"}
Replies == {"none", "ok", "bad", "401", "yes", "no"}
Waiting == {"login", "wizard"}

(* A screen waits for what it asked itself.                                 *)
Fits(kind, then, who) ==
    /\ kind = "status" => then \in {"mount", "session", "register"}
    /\ kind = "login" => then \in {"none", "register"}
    /\ who = "login" => kind = "login" /\ then = "none"
    /\ who = "wizard" => \/ kind = "register"
                         \/ kind \in {"status", "login"} /\ then = "register"

(* What a good answer holds: a version that ran, or a session's token.      *)
Holds(kind, reply, got, r) ==
    reply = "ok" => /\ kind \in {"version", "poll"} => got \in r
                    /\ kind = "login" => got \in Tokens

JobOK(j, r) == j \in JobType /\ Fits(j.kind, j.then, j.who) /\ Holds(j.kind, j.reply, j.got, r)

Apart(js) == \A j, k \in js : j.kind = k.kind /\ j.n = k.n => j = k

Requests(js, r) == IsFiniteSet(js) /\ (\A j \in js : JobOK(j, r)) /\ Apart(js)

(* Every nonempty set of numbers has a least one.                           *)
LEMMA LeastNumber ==
  ASSUME NEW T \in SUBSET Nat, T # {}
  PROVE  \E x \in T : \A y \in T : x <= y
<1>. DEFINE U == {0..n : n \in T}
            R == StrictSubsetOrdering(Nat)
<1>0. \A n \in Nat : 0..n \in FiniteSubsetsOf(Nat)
  <2>. TAKE n \in Nat
  <2>1. IsFiniteSet(0..n)
    BY FS_Interval
  <2>. QED
    BY <2>1 DEF FiniteSubsetsOf
<1>1. U \subseteq FiniteSubsetsOf(Nat) /\ U # {}
  BY <1>0
<1>2. IsWellFoundedOn(R, FiniteSubsetsOf(Nat))
  BY FS_StrictSubsetOrderingWellFounded
<1>. HIDE DEF U, R
<1>3. PICK I \in U : \A J \in U : ~(<<J, I>> \in R)
  BY <1>1, <1>2, WFMin
<1>4. PICK x \in T : I = 0..x
  BY DEF U
<1>5. ASSUME NEW y \in T, y < x PROVE FALSE
  <2>1. 0..y \in U
    BY DEF U
  <2>2. 0..y \subseteq 0..x /\ x \in 0..x /\ x \notin 0..y
    BY <1>5
  <2>3. <<0..y, 0..x>> \in R
    BY <2>2 DEF R, StrictSubsetOrdering
  <2>. QED
    BY <1>3, <1>4, <2>1, <2>3
<1>. QED
  BY <1>5

(* Of one more number than there are requests, one is free.                 *)
LEMMA FreeNumber ==
  ASSUME NEW js, IsFiniteSet(js), NEW kind
  PROVE  \E n \in 1..(Cardinality(js) + 1) : \A j \in js : j.kind = kind => j.n # n
<1>. DEFINE c == Cardinality(js)
            ks == {j \in js : j.kind = kind}
            used == {j.n : j \in ks}
            f == [j \in ks |-> j.n]
<1>1. c \in Nat
  BY FS_CardinalityType
<1>2. IsFiniteSet(ks) /\ Cardinality(ks) <= c
  BY FS_Subset
<1>3. f \in Surjection(ks, used)
  BY DEF Surjection
<1>4. IsFiniteSet(used) /\ Cardinality(used) <= Cardinality(ks)
  BY <1>2, <1>3, FS_Surjection
<1>5. Cardinality(ks) \in Nat /\ Cardinality(used) \in Nat
  BY <1>2, <1>4, FS_CardinalityType
<1>6. IsFiniteSet(1..(c + 1)) /\ Cardinality(1..(c + 1)) = c + 1
  BY <1>1, FS_Interval
<1>7. ASSUME 1..(c + 1) \subseteq used PROVE FALSE
  <2>1. Cardinality(1..(c + 1)) <= Cardinality(used)
    BY <1>4, <1>7, FS_Subset
  <2>. QED
    BY <1>1, <1>2, <1>4, <1>5, <1>6, <2>1
<1>8. PICK n \in 1..(c + 1) : n \notin used
  BY <1>7
<1>. QED
  BY <1>8

LEMMA FreshNumber ==
  ASSUME NEW js, IsFiniteSet(js), NEW kind
  PROVE  /\ Fresh(kind, js) \in Nat
         /\ \A j \in js : j.kind = kind => j.n # Fresh(kind, js)
<1>. DEFINE Free(n) == \A j \in js : j.kind = kind => j.n # n
            T == {n \in 1..(Cardinality(js) + 1) : Free(n)}
<1>1. Cardinality(js) \in Nat
  BY FS_CardinalityType
<1>2. T \in SUBSET Nat /\ T # {}
  BY <1>1, FreeNumber
<1>3. PICK x \in T : \A y \in T : x <= y
  BY <1>2, LeastNumber
<1>4. x \in 1..(Cardinality(js) + 1) /\ Free(x)
  OBVIOUS
<1>5. \A m \in 1..(x - 1) : \E j \in js : j.kind = kind /\ j.n = m
  <2>. TAKE m \in 1..(x - 1)
  <2>1. m \in 1..(Cardinality(js) + 1) /\ ~(x <= m)
    BY <1>1, <1>4
  <2>2. m \notin T
    BY <1>3, <2>1
  <2>. QED
    BY <2>1, <2>2
<1>6. \E n \in 1..(Cardinality(js) + 1) :
          /\ \A j \in js : j.kind = kind => j.n # n
          /\ \A m \in 1..(n - 1) : \E j \in js : j.kind = kind /\ j.n = m
  BY <1>4, <1>5
<1>7. Fresh(kind, js) \in 1..(Cardinality(js) + 1) /\ \A j \in js : j.kind = kind => j.n # Fresh(kind, js)
  BY <1>6 DEF Fresh
<1>. QED
  BY <1>1, <1>7

LEMMA NewJob ==
  ASSUME NEW r, NEW n \in Nat, NEW kind \in Kinds, NEW then \in Thens, NEW who \in Whos,
         NEW tok \in Tokens \cup {None}, NEW right \in BOOLEAN, Fits(kind, then, who)
  PROVE  LET j == Job(n, kind, then, who, tok, right) IN
         JobOK(j, r) /\ j.kind = kind /\ j.n = n /\ j.who = who
BY DEF Job, JobOK, JobType, Thens, Whos, Holds, None

(* What may be asked, and the requests with one more.                       *)
MayAsk(kind, then, who, tok, right) ==
    /\ kind \in Kinds /\ then \in Thens /\ who \in Whos
    /\ tok \in Tokens \cup {None} /\ right \in BOOLEAN /\ Fits(kind, then, who)

OneMore(js, ks, kind, who, r) ==
    \E x : ks = js \cup {x} /\ x.kind = kind /\ x.who = who /\ Requests(ks, r)

LEMMA AskedOne ==
  ASSUME NEW r, NEW js, Requests(js, r), NEW kind, NEW then, NEW who, NEW tok, NEW right,
         MayAsk(kind, then, who, tok, right)
  PROVE  OneMore(js, Asked(kind, then, who, tok, right, js), kind, who, r)
<1>. DEFINE x == Job(Fresh(kind, js), kind, then, who, tok, right)
<1>1. Fresh(kind, js) \in Nat /\ \A j \in js : j.kind = kind => j.n # Fresh(kind, js)
  BY FreshNumber DEF Requests
<1>2. JobOK(x, r) /\ x.kind = kind /\ x.n = Fresh(kind, js) /\ x.who = who
  BY <1>1, NewJob DEF MayAsk
<1>3. Asked(kind, then, who, tok, right, js) = js \cup {x}
  BY DEF Asked
<1>. HIDE DEF x
<1>4. IsFiniteSet(js \cup {x})
  BY FS_AddElement DEF Requests
<1>5. Apart(js \cup {x})
  BY <1>1, <1>2 DEF Requests, Apart
<1>6. Requests(js \cup {x}, r)
  BY <1>2, <1>4, <1>5 DEF Requests
<1>. QED
  BY <1>2, <1>3, <1>6 DEF OneMore

LEMMA DropRequest ==
  ASSUME NEW r, NEW js, Requests(js, r), NEW j
  PROVE  Requests(js \ {j}, r)
<1>1. IsFiniteSet(js \ {j})
  BY FS_RemoveElement DEF Requests
<1>. QED
  BY <1>1 DEF Requests, Apart

LEMMA ReplaceRequest ==
  ASSUME NEW r, NEW q, Requests(jobs, r), r \subseteq q, NEW j \in jobs,
         NEW k, JobOK(k, q), k.kind = j.kind, k.n = j.n
  PROVE  Requests((jobs \ {j}) \cup {k}, q)
<1>1. IsFiniteSet((jobs \ {j}) \cup {k})
  BY FS_RemoveElement, FS_AddElement DEF Requests
<1>2. \A i \in jobs : JobOK(i, q)
  BY DEF Requests, JobOK, Holds
<1>3. Apart((jobs \ {j}) \cup {k})
  BY DEF Requests, Apart
<1>. QED
  BY <1>1, <1>2, <1>3 DEF Requests

----------------------------------------------------------------------------
(* The screens: what they are before Show takes away the one that leaves.   *)

LoginType == [loading : BOOLEAN, error : {"none", "invalid", "offline"}]
WizardType == [step : {1, 2}, loading : BOOLEAN, error : BOOLEAN]

(* A disabled button waits for a request of its own; the wizard has one     *)
(* request at most, and only while its button is disabled.                  *)
Waits(lg, wz, js, lv) ==
    /\ lg.loading => \E j \in js : j.kind = "login" /\ j.who = "login"
    /\ wz.loading => lv \/ \E j \in js : j.who = "wizard"
    /\ \A j \in js : j.who = "wizard" => wz.loading
    /\ \A j, k \in js : j.who = "wizard" /\ k.who = "wizard" => j = k

Ready(gate, lg, wz, js, lv) ==
    /\ lg \in LoginType /\ wz \in WizardType /\ lv \in BOOLEAN
    /\ \A j \in js : j.who \in Waiting => gate = j.who
    /\ Waits(lg, wz, js, lv)

ScreensInv ==
    /\ Ready(Gate(sess), login, wizard, jobs, leaving)
    /\ Gate(sess) # "login" => login = FreshLogin
    /\ Gate(sess) # "wizard" => wizard = FreshWizard

LEMMA ShownJob ==
  ASSUME NEW r, NEW j, JobOK(j, r)
  PROVE  LET k == [j EXCEPT !.who = "gone"] IN
         JobOK(k, r) /\ k.kind = j.kind /\ k.n = j.n /\ k.who = "gone"
BY DEF JobOK, JobType, Fits, Holds

LEMMA ShowRequests ==
  ASSUME NEW r, NEW s, NEW js, NEW lg, NEW wz, Requests(js, r), Show(s, js, lg, wz)
  PROVE  /\ Requests(jobs', r)
         /\ \A k \in jobs' : k.who \in Waiting => k \in js /\ Stays(k.who, s)
         /\ \A j \in js : j.who \in Waiting /\ Stays(j.who, s) => j \in jobs'
<1>. DEFINE f(j) == IF j.who \in Waiting /\ ~Stays(j.who, s) THEN [j EXCEPT !.who = "gone"] ELSE j
            g == [j \in js |-> f(j)]
<1>1. jobs' = {f(j) : j \in js}
  BY DEF Show, Waiting
<1>2. \A j \in js : JobOK(f(j), r) /\ f(j).kind = j.kind /\ f(j).n = j.n
  BY ShownJob DEF Requests
<1>3. \A j \in js : f(j).who \in Waiting => f(j) = j /\ Stays(j.who, s)
  BY ShownJob DEF Requests, Waiting
<1>4. \A j \in js : j.who \in Waiting /\ Stays(j.who, s) => f(j) = j
  OBVIOUS
<1>5. g \in Surjection(js, jobs')
  BY <1>1 DEF Surjection
<1>6. IsFiniteSet(jobs')
  BY <1>5, FS_Surjection DEF Requests
<1>. HIDE DEF f, g
<1>7. \A k \in jobs' : \E j \in js : k = f(j)
  BY <1>1
<1>8. \A j \in js : f(j) \in jobs'
  BY <1>1
<1>9. Apart(jobs')
  BY <1>2, <1>7 DEF Requests, Apart
<1>10. \A k \in jobs' : JobOK(k, r)
  BY <1>2, <1>7
<1>11. Requests(jobs', r)
  BY <1>6, <1>9, <1>10 DEF Requests
<1>. QED
  BY <1>3, <1>4, <1>7, <1>8, <1>11

LEMMA ShowScreens ==
  ASSUME NEW r, NEW s, NEW js, NEW lg, NEW wz, Requests(js, r), Show(s, js, lg, wz),
         Ready(Gate(sess), lg, wz, js, leaving')
  PROVE  ScreensInv'
<1>1. /\ \A k \in jobs' : k.who \in Waiting => k \in js /\ Stays(k.who, s)
      /\ \A j \in js : j.who \in Waiting /\ Stays(j.who, s) => j \in jobs'
  BY ShowRequests
<1>2. /\ sess' = s
      /\ login' = IF Stays("login", s) THEN lg ELSE FreshLogin
      /\ wizard' = IF Stays("wizard", s) THEN wz ELSE FreshWizard
  BY DEF Show
<1>3. lg \in LoginType /\ wz \in WizardType /\ leaving' \in BOOLEAN /\ Waits(lg, wz, js, leaving')
  BY DEF Ready
<1>4. FreshLogin \in LoginType /\ ~FreshLogin.loading /\ FreshWizard \in WizardType /\ ~FreshWizard.loading
  BY DEF FreshLogin, FreshWizard, LoginType, WizardType
<1>5. login' \in LoginType /\ wizard' \in WizardType
  BY <1>2, <1>3, <1>4
<1>6. \A k \in jobs' : k.who \in Waiting => Gate(s) = k.who
  BY <1>1 DEF Stays
<1>7. login'.loading => \E j \in jobs' : j.kind = "login" /\ j.who = "login"
  BY <1>1, <1>2, <1>3, <1>4 DEF Waits, Waiting
<1>8. wizard'.loading => leaving' \/ \E j \in jobs' : j.who = "wizard"
  BY <1>1, <1>2, <1>3, <1>4 DEF Waits, Waiting
<1>9. \A j \in jobs' : j.who = "wizard" => wizard'.loading
  BY <1>1, <1>2, <1>3 DEF Waits, Waiting
<1>10. \A j, k \in jobs' : j.who = "wizard" /\ k.who = "wizard" => j = k
  BY <1>1, <1>3 DEF Waits, Waiting
<1>11. Waits(login', wizard', jobs', leaving')
  BY <1>7, <1>8, <1>9, <1>10 DEF Waits
<1>12. Ready(Gate(s), login', wizard', jobs', leaving')
  BY <1>3, <1>5, <1>6, <1>11 DEF Ready
<1>13. /\ Gate(s) # "login" => login' = FreshLogin
       /\ Gate(s) # "wizard" => wizard' = FreshWizard
  BY <1>2 DEF Stays
<1>. QED
  BY <1>2, <1>12, <1>13 DEF ScreensInv

(* A request nobody waits for comes or goes; one is replaced by its like.   *)
LEMMA DropOther ==
  ASSUME NEW g, NEW lg, NEW wz, NEW js, NEW lv, Ready(g, lg, wz, js, lv), NEW j, j.who \notin Waiting
  PROVE  Ready(g, lg, wz, js \ {j}, lv)
BY DEF Ready, Waits, Waiting

LEMMA AddOther ==
  ASSUME NEW g, NEW lg, NEW wz, NEW js, NEW lv, Ready(g, lg, wz, js, lv), NEW j, j.who \notin Waiting
  PROVE  Ready(g, lg, wz, js \cup {j}, lv)
BY DEF Ready, Waits, Waiting

LEMMA ReplaceReady ==
  ASSUME NEW g, NEW lg, NEW wz, NEW js, NEW lv, Ready(g, lg, wz, js, lv), NEW j \in js,
         NEW k, k.who = j.who, k.kind = j.kind \/ j.who # "login"
  PROVE  Ready(g, lg, wz, (js \ {j}) \cup {k}, lv)
BY DEF Ready, Waits, Waiting

----------------------------------------------------------------------------
(* The answers.                                                             *)

SessType ==
    [token : Tokens \cup {None}, stored : Tokens \cup {None}, authed : BOOLEAN, inited : BOOLEAN, key : BOOLEAN]

(* What every answer does to the tab.                                       *)
Lands ==
    \E s \in SessType : \E js, lg, wz :
        /\ Show(s, js, lg, wz) /\ Requests(js, ran)
        /\ Ready(Gate(sess), lg, wz, js, leaving')

LEMMA LandsSound ==
  ASSUME Lands, UNCHANGED ran
  PROVE  Requests(jobs', ran') /\ ScreensInv' /\ sess' \in SessType
<1>1. PICK s \in SessType : \E js, lg, wz :
          Show(s, js, lg, wz) /\ Requests(js, ran) /\ Ready(Gate(sess), lg, wz, js, leaving')
  BY DEF Lands
<1>2. PICK js, lg, wz : Show(s, js, lg, wz) /\ Requests(js, ran) /\ Ready(Gate(sess), lg, wz, js, leaving')
  BY <1>1
<1>3. sess' = s
  BY <1>2 DEF Show
<1>4. Requests(jobs', ran) /\ ScreensInv'
  BY <1>2, ShowRequests, ShowScreens
<1>. QED
  BY <1>3, <1>4

LEMMA LandsIf ==
  ASSUME NEW s \in SessType, NEW js, NEW lg, NEW wz, Show(s, js, lg, wz), Requests(js, ran),
         Ready(Gate(sess), lg, wz, js, leaving')
  PROVE  Lands
BY DEF Lands

LEMMA SessTyped ==
  ASSUME NEW s \in SessType
  PROVE  /\ LoggedOut(s) \in SessType
         /\ \A tok \in Tokens : LoggedIn(s, tok) \in SessType
         /\ \A r : StatusKnown(s, r) \in SessType /\ OnAuthError(s, r).out \in SessType
         /\ SessionChecked(s) \in SessType
         /\ [s EXCEPT !.authed = TRUE] \in SessType
<1>1. LoggedOut(s) \in SessType
  BY DEF SessType, LoggedOut, SetAuthToken
<1>2. \A tok \in Tokens : LoggedIn(s, tok) \in SessType
  BY DEF SessType, LoggedIn, SetAuthToken
<1>3. \A r : StatusKnown(s, r) \in SessType
  BY DEF SessType, StatusKnown
<1>4. \A r : OnAuthError(s, r).out \in SessType
  BY <1>1 DEF OnAuthError
<1>5. SessionChecked(s) \in SessType
  BY DEF SessType, SessionChecked, SetAuthToken
<1>6. [s EXCEPT !.authed = TRUE] \in SessType
  BY DEF SessType
<1>. QED
  BY <1>1, <1>2, <1>3, <1>4, <1>5, <1>6

LEMMA WhoMayWait ==
  ASSUME NEW r, NEW j, JobOK(j, r)
  PROVE  /\ j.kind \notin {"status", "register", "login"} => j.who \notin Waiting
         /\ j.kind # "login" => j.who # "login"
         /\ j.then # "none" => j.who # "login"
         /\ j.kind = "login" /\ j.then = "none" => j.who # "wizard"
         /\ j.kind = "status" /\ j.then # "register" => j.who \notin Waiting
         /\ j.who \in Whos
BY DEF JobOK, Fits, Waiting, JobType, Whos

(* The tab while a request in flight is dropped, or followed by another for *)
(* the same screen.                                                         *)
LEMMA DropLands ==
  ASSUME Requests(jobs, ran), ScreensInv, NEW j \in jobs, j.who \notin Waiting, UNCHANGED leaving,
         NEW s \in SessType, Show(s, jobs \ {j}, login, wizard)
  PROVE  Lands
<1>1. Requests(jobs \ {j}, ran)
  BY DropRequest
<1>2. Ready(Gate(sess), login, wizard, jobs \ {j}, leaving)
  BY DropOther DEF ScreensInv
<1>. QED
  BY <1>1, <1>2, LandsIf

LEMMA FollowUpLands ==
  ASSUME Requests(jobs, ran), ScreensInv, NEW j \in jobs, j.who # "login", UNCHANGED leaving,
         NEW kind, NEW then, NEW tok, MayAsk(kind, then, j.who, tok, TRUE),
         NEW s \in SessType, Show(s, Call(kind, then, j.who, tok, jobs \ {j}), login, wizard)
  PROVE  Lands
<1>. DEFINE js == jobs \ {j}
            ks == Call(kind, then, j.who, tok, js)
<1>1. Requests(js, ran)
  BY DropRequest
<1>2. OneMore(js, ks, kind, j.who, ran)
  BY <1>1, AskedOne, Zenon DEF Call
<1>. HIDE DEF ks
<1>3. PICK x : ks = js \cup {x} /\ x.kind = kind /\ x.who = j.who /\ Requests(ks, ran)
  BY <1>2 DEF OneMore
<1>4. Ready(Gate(sess), login, wizard, ks, leaving)
  BY <1>3, ReplaceReady DEF ScreensInv
<1>. QED
  BY <1>3, <1>4, LandsIf DEF ks

LEMMA CheckLands ==
  ASSUME Requests(jobs, ran), ScreensInv, NEW j \in jobs, j.who \notin Waiting, UNCHANGED leaving,
         NEW tok \in Tokens \cup {None},
         NEW s \in SessType, Show(s, Call("current", "none", "none", tok, jobs \ {j}), login, wizard)
  PROVE  Lands
<1>. DEFINE js == jobs \ {j}
            ks == Call("current", "none", "none", tok, js)
<1>0. MayAsk("current", "none", "none", tok, TRUE)
  BY DEF MayAsk, Kinds, Thens, Whos, Fits
<1>1. Requests(js, ran)
  BY DropRequest
<1>2. OneMore(js, ks, "current", "none", ran)
  BY <1>0, <1>1, AskedOne, Zenon DEF Call
<1>. HIDE DEF ks
<1>3. PICK x : ks = js \cup {x} /\ x.who = "none" /\ Requests(ks, ran)
  BY <1>2 DEF OneMore
<1>4. Ready(Gate(sess), login, wizard, ks, leaving)
  BY <1>3, DropOther, AddOther DEF ScreensInv, Waiting
<1>. QED
  BY <1>3, <1>4, LandsIf DEF ks

LEMMA SetupFailsLands ==
  ASSUME Requests(jobs, ran), ScreensInv, NEW j \in jobs, j.who # "login", NEW s \in SessType, SetupFails(j, s)
  PROVE  Lands
<1>. DEFINE wz == IF j.who # "wizard" \/ s.authed THEN wizard ELSE [wizard EXCEPT !.loading = FALSE, !.error = TRUE]
<1>1. Requests(jobs \ {j}, ran)
  BY DropRequest
<1>2. /\ leaving' = (leaving \/ (j.who = "wizard" /\ s.authed))
      /\ Show(s, jobs \ {j}, login, wz)
  BY DEF SetupFails
<1>3. Ready(Gate(sess), login, wizard, jobs, leaving) /\ s.authed \in BOOLEAN
  BY DEF ScreensInv, SessType
<1>4. wz \in WizardType /\ (wz = wizard \/ (j.who = "wizard" /\ ~wz.loading))
  BY <1>3 DEF Ready, WizardType
<1>5. wz = wizard => (j.who # "wizard" \/ s.authed \/ ~wizard.loading)
  BY <1>3 DEF Ready, WizardType
<1>. HIDE DEF wz
<1>6. leaving' \in BOOLEAN
  BY <1>2, <1>3 DEF Ready
<1>7. Waits(login, wz, jobs \ {j}, leaving')
  BY <1>2, <1>3, <1>4, <1>5 DEF Ready, Waits
<1>8. Ready(Gate(sess), login, wz, jobs \ {j}, leaving')
  BY <1>3, <1>4, <1>6, <1>7 DEF Ready
<1>. QED
  BY <1>1, <1>2, <1>8, LandsIf

LEMMA GoodAnswer ==
  ASSUME NEW r, NEW j, JobOK(j, r), j.kind \in {"version", "poll", "login"}, "ok" \in Outcomes(j)
  PROVE  /\ j.kind \in {"version", "poll"} => j.got \in r
         /\ j.kind = "login" => j.got \in Tokens
<1>1. j.reply = "ok"
  BY DEF Outcomes, Later
<1>. QED
  BY <1>1 DEF JobOK, Holds

LEMMA StatusLands ==
  ASSUME Requests(jobs, ran), ScreensInv, NEW j \in jobs, NEW r, NEW s \in SessType, GotStatus(j, r, s)
  PROVE  Lands
<1>. DEFINE k == StatusKnown(s, r)
<1>1. k \in SessType /\ SessionChecked(k) \in SessType
  BY SessTyped
<1>2. /\ j.then # "register" => j.who \notin Waiting
      /\ j.who # "login" /\ j.who \in Whos
  BY WhoMayWait DEF GotStatus, Requests
<1>3. k.stored \in Tokens \cup {None} /\ k.token \in Tokens \cup {None}
  BY <1>1 DEF SessType
<1>. HIDE DEF k
<1>4. CASE j.then = "mount" /\ Show(k, jobs \ {j}, login, wizard) /\ UNCHANGED leaving
  BY <1>1, <1>2, <1>4, DropLands
<1>5. CASE /\ j.then = "session" /\ UNCHANGED leaving
           /\ Show(SessionChecked(k),
                   IF k.stored = None THEN jobs \ {j} ELSE Call("current", "none", "none", k.stored, jobs \ {j}),
                   login, wizard)
  <2>1. CASE k.stored = None
    BY <1>1, <1>2, <1>5, <2>1, DropLands
  <2>2. CASE k.stored # None
    BY <1>1, <1>2, <1>3, <1>5, <2>2, CheckLands
  <2>. QED
    BY <2>1, <2>2
<1>6. CASE /\ j.then = "register" /\ UNCHANGED leaving
           /\ Show(k, Call("register", "none", j.who, k.token, jobs \ {j}), login, wizard)
  <2>1. MayAsk("register", "none", j.who, k.token, TRUE)
    BY <1>2, <1>3 DEF MayAsk, Kinds, Thens, Fits
  <2>. QED
    BY <1>1, <1>2, <1>6, <2>1, FollowUpLands
<1>7. CASE SetupFails(j, k)
  BY <1>1, <1>2, <1>7, SetupFailsLands
<1>. QED
  BY <1>4, <1>5, <1>6, <1>7, Zenon DEF GotStatus, k

LEMMA LoginLands ==
  ASSUME Requests(jobs, ran), ScreensInv, NEW j \in jobs, NEW r \in Outcomes(j), NEW s \in SessType,
         GotLogin(j, r, s)
  PROVE  Lands
<1>0. Requests(jobs \ {j}, ran) /\ JobOK(j, ran) /\ j.kind = "login"
  BY DropRequest DEF GotLogin, Requests
<1>1. CASE /\ r = "ok" /\ UNCHANGED leaving
           /\ Show(LoggedIn(s, j.got), jobs \ {j}, FreshLogin,
                   IF j.who = "wizard" THEN [wizard EXCEPT !.loading = FALSE] ELSE wizard)
  <2>. DEFINE wz == IF j.who = "wizard" THEN [wizard EXCEPT !.loading = FALSE] ELSE wizard
  <2>1. LoggedIn(s, j.got) \in SessType
    BY <1>0, <1>1, GoodAnswer, SessTyped
  <2>2. wz \in WizardType /\ (wz = wizard \/ (j.who = "wizard" /\ ~wz.loading)) /\ (wz = wizard => (j.who # "wizard" \/ ~wizard.loading))
    BY DEF ScreensInv, Ready, WizardType
  <2>3. FreshLogin \in LoginType /\ ~FreshLogin.loading
    BY DEF FreshLogin, LoginType
  <2>. HIDE DEF wz
  <2>4. Waits(FreshLogin, wz, jobs \ {j}, leaving')
    BY <1>1, <2>2, <2>3 DEF ScreensInv, Ready, Waits
  <2>5. Ready(Gate(sess), FreshLogin, wz, jobs \ {j}, leaving')
    BY <1>1, <2>2, <2>3, <2>4 DEF ScreensInv, Ready
  <2>. QED
    BY <1>0, <1>1, <2>1, <2>5, LandsIf DEF wz
<1>2. CASE r # "ok" /\ j.then = "register" /\ SetupFails(j, s)
  BY <1>0, <1>2, WhoMayWait, SetupFailsLands
<1>3. CASE /\ r # "ok" /\ j.then = "none" /\ UNCHANGED leaving
           /\ Show(s, jobs \ {j}, IF j.who = "login" THEN LoginOutcome(r) ELSE login, wizard)
  <2>. DEFINE lg == IF j.who = "login" THEN LoginOutcome(r) ELSE login
  <2>1. lg \in LoginType /\ ((lg = login /\ j.who # "login") \/ ~lg.loading)
    BY DEF ScreensInv, Ready, LoginType, LoginOutcome
  <2>2. j.who # "wizard"
    BY <1>0, <1>3, WhoMayWait
  <2>. HIDE DEF lg
  <2>3. Waits(lg, wizard, jobs \ {j}, leaving')
    BY <1>3, <2>1, <2>2 DEF ScreensInv, Ready, Waits
  <2>4. Ready(Gate(sess), lg, wizard, jobs \ {j}, leaving')
    BY <1>3, <2>1, <2>3 DEF ScreensInv, Ready
  <2>. QED
    BY <1>0, <1>3, <2>4, LandsIf DEF lg
<1>. QED
  BY <1>1, <1>2, <1>3, Zenon DEF GotLogin

LEMMA RegisterLands ==
  ASSUME Requests(jobs, ran), ScreensInv, NEW j \in jobs, NEW r, NEW s \in SessType, GotRegister(j, r, s)
  PROVE  Lands
<1>1. j.who # "login" /\ j.who \in Whos
  BY WhoMayWait DEF GotRegister, Requests
<1>2. CASE r = "ok"
  <2>1. MayAsk("login", "register", j.who, s.token, TRUE)
    BY <1>1 DEF MayAsk, Kinds, Thens, Fits, SessType
  <2>. QED
    BY <1>1, <1>2, <2>1, FollowUpLands DEF GotRegister
<1>3. CASE r # "ok"
  BY <1>1, <1>3, SetupFailsLands DEF GotRegister
<1>. QED
  BY <1>2, <1>3

LEMMA ElsewhereLands ==
  ASSUME Requests(jobs, ran), ScreensInv, NEW j \in jobs, j.kind \notin {"status", "register", "login"},
         NEW s \in SessType, Elsewhere(j, s)
  PROVE  Lands
<1>1. j.who \notin Waiting
  BY WhoMayWait DEF Requests
<1>. QED
  BY <1>1, DropLands DEF Elsewhere

LEMMA DeliverLands ==
  ASSUME Requests(jobs, ran), ScreensInv, sess \in SessType, NEW j \in jobs,
         Deliver(j) \/ GotInstall(j) \/ GotUpdate(j)
  PROVE  Lands
<1>1. PICK r \in Outcomes(j) :
         LET s == OnAuthError(sess, r).out IN
         \/ GotStatus(j, r, s) \/ GotCurrent(j, r, s) \/ GotRegister(j, r, s) \/ GotLogin(j, r, s)
         \/ j.kind \in {"data", "install", "update"} /\ Elsewhere(j, s)
  BY Zenon DEF Deliver, GotInstall, GotUpdate
<1>. DEFINE s == OnAuthError(sess, r).out
<1>2. s \in SessType
  BY SessTyped
<1>. HIDE DEF s
<1>3. CASE GotStatus(j, r, s)
  BY <1>2, <1>3, StatusLands
<1>4. CASE GotCurrent(j, r, s)
  <2>1. j.who \notin Waiting
    BY <1>4, WhoMayWait DEF GotCurrent, Requests
  <2>2. \E t \in SessType : Show(t, jobs \ {j}, login, wizard)
    BY <1>2, <1>4, SessTyped DEF GotCurrent
  <2>. QED
    BY <1>4, <2>1, <2>2, DropLands DEF GotCurrent
<1>5. CASE GotRegister(j, r, s)
  BY <1>2, <1>5, RegisterLands
<1>6. CASE GotLogin(j, r, s)
  BY <1>2, <1>6, LoginLands
<1>7. CASE j.kind \in {"data", "install", "update"} /\ Elsewhere(j, s)
  BY <1>2, <1>7, ElsewhereLands
<1>. QED
  BY <1>1, <1>3, <1>4, <1>5, <1>6, <1>7 DEF s

----------------------------------------------------------------------------
(* The server: it runs what it has run before, or the newest version.       *)

SrvType == [inited : BOOLEAN, live : SUBSET Tokens, issued : Tokens, ver : Versions, upgrading : BOOLEAN]

ServerInv ==
    /\ srv \in SrvType
    /\ ran \subseteq Versions /\ srv.ver \in ran

LEMMA ServerSteps ==
  ASSUME NEW s \in SrvType
  PROVE  /\ [s EXCEPT !.inited = TRUE] \in SrvType /\ [s EXCEPT !.inited = TRUE].ver = s.ver
         /\ [s EXCEPT !.upgrading = TRUE] \in SrvType /\ [s EXCEPT !.upgrading = TRUE].ver = s.ver
BY DEF SrvType

LEMMA ServerOpens ==
  ASSUME NEW s \in SrvType, NEW n \in Tokens
  PROVE  LET t == [s EXCEPT !.issued = n, !.live = @ \cup {n}] IN t \in SrvType /\ t.ver = s.ver
BY DEF SrvType

LEMMA ServerNext ==
  ASSUME ServerInv, [Next]_vars
  PROVE  ServerInv' /\ ran \subseteq ran'
<1>0. Newest \in Versions /\ MaxTokens \in Nat
  BY ConstantsOK DEF Versions
<1>1. CASE UNCHANGED server
  BY <1>1 DEF ServerInv, server
<1>2. ASSUME NEW j \in jobs, Serve(j) PROVE ServerInv' /\ UNCHANGED ran
  <2>1. \/ UNCHANGED srv
        \/ srv' = [srv EXCEPT !.inited = TRUE]
        \/ srv.issued < MaxTokens /\ srv' = [srv EXCEPT !.issued = @ + 1, !.live = @ \cup {srv.issued + 1}]
        \/ srv' = [srv EXCEPT !.upgrading = TRUE]
    BY <1>2, Zenon DEF Serve, Effect
  <2>2. UNCHANGED ran
    BY <1>2 DEF Serve
  <2>3. srv.issued < MaxTokens => srv.issued + 1 \in Tokens
    BY <1>0 DEF ServerInv, SrvType, Tokens
  <2>. srv \in SrvType
    BY DEF ServerInv
  <2>4. CASE srv.issued < MaxTokens /\ srv' = [srv EXCEPT !.issued = @ + 1, !.live = @ \cup {srv.issued + 1}]
    <3>1. srv' \in SrvType /\ srv'.ver = srv.ver
      BY <2>3, <2>4, ServerOpens, Zenon
    <3>. QED
      BY <2>2, <3>1 DEF ServerInv
  <2>5. CASE srv' \in SrvType /\ srv'.ver = srv.ver
    BY <2>2, <2>5 DEF ServerInv
  <2>. QED
    BY <2>1, <2>2, <2>4, <2>5, ServerSteps, Zenon
<1>3. ASSUME NEW t \in Tokens, Expire(t) PROVE ServerInv' /\ UNCHANGED ran
  BY <1>3 DEF Expire, ServerInv, SrvType
<1>4. CASE Swap
  BY <1>0, <1>4 DEF Swap, ServerInv, SrvType
<1>5. CASE InstallEnds
  BY <1>5 DEF InstallEnds, ServerInv, SrvType
<1>6. ASSUME NEW j \in jobs, Retry(j) \/ Answers(j) PROVE UNCHANGED server
  BY <1>6, Zenon DEF Retry, Answers, Deliver, GotVersion, GotInstall, GotPoll, GotUpdate
<1>7. CASE PollTick \/ UpgradeTimeout \/ PagePolls \/ HourlyCheck
  BY <1>1, <1>7, Zenon DEF PollTick, UpgradeTimeout, PagePolls, HourlyCheck
<1>8. ASSUME User PROVE UNCHANGED server
  BY <1>8, Zenon DEF User, HandleLogin, StartSetup, HandleSetup, Logout, OpenSettings, CheckNow, StartUpgrade,
                     CloseError, Dismiss, ForceReload, Reload
<1>9. CASE UNCHANGED vars
  BY <1>1, <1>9 DEF vars
<1>. QED
  BY <1>1, <1>2, <1>3, <1>4, <1>5, <1>6, <1>7, <1>8, <1>9 DEF Next

----------------------------------------------------------------------------
(* The tab: its requests, its screens and its session.                      *)

TabInv == Requests(jobs, ran) /\ ScreensInv /\ sess \in SessType

LEMMA TabLands ==
  ASSUME TabInv, Lands, UNCHANGED ran
  PROVE  TabInv'
BY LandsSound DEF TabInv

(* A step that leaves the screens where they are.                           *)
LEMMA TabStays ==
  ASSUME TabInv, UNCHANGED <<sess, login, wizard>>, Requests(jobs', ran'),
         Ready(Gate(sess), login, wizard, jobs', leaving')
  PROVE  TabInv'
BY DEF TabInv, ScreensInv

LEMMA TabReplaced ==
  ASSUME TabInv, UNCHANGED <<sess, login, wizard, leaving, ran>>, NEW j \in jobs,
         NEW k, JobOK(k, ran), k.kind = j.kind, k.n = j.n, k.who = j.who,
         jobs' = (jobs \ {j}) \cup {k}
  PROVE  TabInv'
<1>1. Requests(jobs', ran')
  BY ReplaceRequest DEF TabInv
<1>2. Ready(Gate(sess), login, wizard, jobs', leaving')
  BY ReplaceReady DEF TabInv, ScreensInv
<1>. QED
  BY <1>1, <1>2, TabStays

LEMMA TabServed ==
  ASSUME ServerInv, TabInv, NEW j \in jobs, Serve(j)
  PROVE  TabInv'
<1>0. JobOK(j, ran)
  BY DEF TabInv, Requests
<1>1. \E reply \in Replies, got \in Nat : Holds(j.kind, reply, got, ran) /\ Answered(j, reply, got)
  <2>1. srv.ver \in Nat /\ srv.ver \in ran /\ srv.issued + 1 \in Nat
    BY DEF ServerInv, SrvType, Versions, Tokens
  <2>2. srv.issued < MaxTokens => srv.issued + 1 \in Tokens
    BY ConstantsOK DEF ServerInv, SrvType, Tokens
  <2>3. None \in Nat /\ {"ok", "bad", "401", "yes", "no"} \subseteq Replies
    BY DEF None, Replies
  <2>4. CASE Answered(j, Refusal(j), None)
    BY <2>3, <2>4 DEF Refusal, Holds
  <2>5. CASE j.kind = "status" /\ Answered(j, IF srv.inited THEN "yes" ELSE "no", None)
    BY <2>3, <2>5 DEF Holds
  <2>6. CASE j.kind \in {"version", "poll"} /\ Answered(j, "ok", srv.ver)
    BY <2>1, <2>3, <2>6 DEF Holds
  <2>7. CASE j.kind \in {"register", "install"} /\ Answered(j, "ok", None)
    BY <2>3, <2>7 DEF Holds
  <2>8. CASE j.kind = "login" /\ srv.issued < MaxTokens /\ Answered(j, "ok", srv.issued + 1)
    BY <2>1, <2>2, <2>3, <2>8 DEF Holds
  <2>. QED
    BY <2>4, <2>5, <2>6, <2>7, <2>8 DEF Serve, Effect
<1>2. PICK reply \in Replies, got \in Nat : Holds(j.kind, reply, got, ran) /\ Answered(j, reply, got)
  BY <1>1
<1>. DEFINE k == [j EXCEPT !.reply = reply, !.got = got]
<1>3. JobOK(k, ran) /\ k.kind = j.kind /\ k.n = j.n /\ k.who = j.who
  BY <1>0, <1>2 DEF JobOK, JobType, Replies
<1>4. jobs' = (jobs \ {j}) \cup {k} /\ UNCHANGED <<sess, login, wizard, leaving, ran>>
  BY <1>2 DEF Answered, Serve, screens
<1>. HIDE DEF k
<1>. QED
  BY <1>3, <1>4, TabReplaced

LEMMA TabRetried ==
  ASSUME TabInv, NEW j \in jobs, Retry(j)
  PROVE  TabInv'
<1>. DEFINE k == [j EXCEPT !.reply = "none", !.got = None, !.tok = sess.token]
<1>0. JobOK(j, ran) /\ sess.token \in Tokens \cup {None}
  BY DEF TabInv, Requests, SessType
<1>1. JobOK(k, ran) /\ k.kind = j.kind /\ k.n = j.n /\ k.who = j.who
  BY <1>0 DEF JobOK, JobType, Holds, None
<1>2. jobs' = (jobs \ {j}) \cup {k} /\ UNCHANGED <<sess, login, wizard, leaving, ran>>
  BY DEF Retry, screens, server
<1>. HIDE DEF k
<1>. QED
  BY <1>1, <1>2, TabReplaced

LEMMA TabDropped ==
  ASSUME TabInv, NEW j \in jobs, GotVersion(j) \/ GotPoll(j)
  PROVE  TabInv'
<1>1. UNCHANGED <<sess, login, wizard, leaving, ran>> /\ jobs' = jobs \ {j} /\ j.kind \in {"version", "poll"}
  BY Zenon DEF GotVersion, GotPoll, screens, server
<1>2. j.who \notin Waiting
  BY <1>1, WhoMayWait DEF TabInv, Requests
<1>. QED
  BY <1>1, <1>2, DropOther, DropRequest, TabStays DEF TabInv, ScreensInv

(* One more request of nobody's screen.                                     *)
LEMMA TabAsked ==
  ASSUME TabInv, UNCHANGED <<sess, login, wizard, leaving, ran>>,
         NEW kind, NEW then, NEW tok, MayAsk(kind, then, "none", tok, TRUE),
         jobs' = Call(kind, then, "none", tok, jobs)
  PROVE  TabInv'
<1>. Requests(jobs, ran)
  BY DEF TabInv
<1>1. OneMore(jobs, jobs', kind, "none", ran)
  BY AskedOne, Zenon DEF Call
<1>2. PICK x : jobs' = jobs \cup {x} /\ x.who = "none" /\ Requests(jobs', ran)
  BY <1>1 DEF OneMore
<1>3. Ready(Gate(sess), login, wizard, jobs', leaving)
  BY <1>2, AddOther DEF TabInv, ScreensInv, Waiting
<1>. QED
  BY <1>2, <1>3, TabStays

(* The login screen and the wizard ask.                                     *)
LEMMA TabSignsIn ==
  ASSUME TabInv, NEW right \in BOOLEAN, HandleLogin(right)
  PROVE  TabInv'
<1>1. /\ UNCHANGED <<sess, wizard, leaving, ran>>
      /\ login' = [loading |-> TRUE, error |-> "none"]
      /\ Gate(sess) = "login"
      /\ jobs' = Asked("login", "none", "login", sess.token, right, jobs)
  BY DEF HandleLogin, SignInOffered, Ask, server
<1>2. MayAsk("login", "none", "login", sess.token, right)
  BY DEF MayAsk, Kinds, Thens, Whos, Fits, TabInv, SessType
<1>. Requests(jobs, ran)
  BY DEF TabInv
<1>3. OneMore(jobs, jobs', "login", "login", ran)
  BY <1>1, <1>2, AskedOne, Zenon
<1>4. PICK x : jobs' = jobs \cup {x} /\ x.kind = "login" /\ x.who = "login" /\ Requests(jobs', ran)
  BY <1>3 DEF OneMore
<1>5. login' \in LoginType
  BY <1>1 DEF LoginType
<1>6. Waits(login', wizard, jobs', leaving)
  BY <1>4 DEF TabInv, ScreensInv, Ready, Waits
<1>7. Ready(Gate(sess), login', wizard, jobs', leaving)
  BY <1>1, <1>4, <1>5, <1>6 DEF TabInv, ScreensInv, Ready
<1>. QED
  BY <1>1, <1>4, <1>7 DEF TabInv, ScreensInv

LEMMA TabWizardAsks ==
  ASSUME TabInv, HandleSetup, NEW kind, NEW then,
         MayAsk(kind, then, "wizard", sess.token, TRUE), jobs' = Call(kind, then, "wizard", sess.token, jobs)
  PROVE  TabInv'
<1>1. /\ UNCHANGED <<sess, login, leaving, ran>>
      /\ wizard' = [wizard EXCEPT !.loading = TRUE, !.error = FALSE]
      /\ Gate(sess) = "wizard" /\ ~wizard.loading
  BY DEF HandleSetup, FinishOffered, server
<1>. Requests(jobs, ran)
  BY DEF TabInv
<1>4. OneMore(jobs, jobs', kind, "wizard", ran)
  BY AskedOne, Zenon DEF Call
<1>5. PICK x : jobs' = jobs \cup {x} /\ x.kind = kind /\ x.who = "wizard" /\ Requests(jobs', ran)
  BY <1>4 DEF OneMore
<1>6. wizard' \in WizardType /\ wizard'.loading
  BY <1>1 DEF TabInv, ScreensInv, Ready, WizardType
<1>7. \A j \in jobs : j.who # "wizard"
  BY <1>1 DEF TabInv, ScreensInv, Ready, Waits
<1>8. Waits(login, wizard', jobs', leaving)
  BY <1>5, <1>6, <1>7 DEF TabInv, ScreensInv, Ready, Waits
<1>9. Ready(Gate(sess), login, wizard', jobs', leaving)
  BY <1>1, <1>5, <1>6, <1>8 DEF TabInv, ScreensInv, Ready
<1>. QED
  BY <1>1, <1>5, <1>9 DEF TabInv, ScreensInv

LEMMA TabSetsUp ==
  ASSUME TabInv, HandleSetup
  PROVE  TabInv'
<1>1. \/ jobs' = Call("register", "none", "wizard", sess.token, jobs)
      \/ jobs' = Call("status", "register", "wizard", sess.token, jobs)
  BY DEF HandleSetup, Ask, Call
<1>2. /\ MayAsk("register", "none", "wizard", sess.token, TRUE)
      /\ MayAsk("status", "register", "wizard", sess.token, TRUE)
  BY DEF MayAsk, Kinds, Thens, Whos, Fits, TabInv, SessType
<1>. QED
  BY <1>1, <1>2, TabWizardAsks, Zenon

Idles(js, r) == Requests(js, r) /\ \A j \in js : j.who = "none"

LEMMA OneMoreIdles ==
  ASSUME NEW r, NEW js, Idles(js, r), NEW kind, NEW then, NEW tok, MayAsk(kind, then, "none", tok, TRUE)
  PROVE  Idles(Call(kind, then, "none", tok, js), r)
<1>1. OneMore(js, Call(kind, then, "none", tok, js), kind, "none", r)
  BY AskedOne, Zenon DEF Call, Idles
<1>. QED
  BY <1>1 DEF OneMore, Idles

LEMMA TabBooted ==
  ASSUME NEW tok \in Tokens \cup {None}, NEW r
  PROVE  Boot(tok) \in SessType /\ Idles(BootJobs(tok), r)
<1>1. Boot(tok) \in SessType
  BY DEF Boot, SessType, None
<1>2. /\ MayAsk("status", "mount", "none", tok, TRUE) /\ MayAsk("status", "session", "none", tok, TRUE)
      /\ MayAsk("version", "none", "none", None, TRUE)
  BY DEF MayAsk, Kinds, Thens, Whos, Fits
<1>3. Idles({}, r)
  BY FS_EmptySet DEF Idles, Requests, Apart
<1>4. Idles(BootJobs(tok), r)
  BY <1>2, <1>3, OneMoreIdles, Zenon DEF BootJobs, RawFetch, Call
<1>. QED
  BY <1>1, <1>4

(* A page that is opened waits for nothing.                                 *)
LEMMA FreshReady ==
  ASSUME NEW g, NEW js, NEW lv \in BOOLEAN, \A j \in js : j.who = "none"
  PROVE  Ready(g, FreshLogin, FreshWizard, js, lv)
BY DEF Ready, Waits, Waiting, FreshLogin, FreshWizard, LoginType, WizardType

LEMMA TabOpened ==
  ASSUME NEW tok \in Tokens \cup {None}, NEW bundle, Opened(tok, bundle)
  PROVE  TabInv'
<1>1. sess' = Boot(tok) /\ jobs' = BootJobs(tok) /\ login' = FreshLogin /\ wizard' = FreshWizard /\ leaving' = FALSE
  BY DEF Opened
<1>2. sess' \in SessType /\ Requests(jobs', ran') /\ \A j \in jobs' : j.who = "none"
  BY <1>1, TabBooted DEF Idles
<1>3. Ready(Gate(sess'), login', wizard', jobs', leaving')
  BY <1>1, <1>2, FreshReady
<1>. QED
  BY <1>1, <1>2, <1>3 DEF TabInv, ScreensInv

LEMMA TabUser ==
  ASSUME TabInv, User
  PROVE  TabInv'
<1>1. ASSUME NEW right \in BOOLEAN, HandleLogin(right) PROVE TabInv'
  BY <1>1, TabSignsIn
<1>2. CASE HandleSetup
  BY <1>2, TabSetsUp
<1>3. CASE StartSetup
  <2>1. /\ UNCHANGED <<sess, login, jobs, leaving, ran>> /\ Gate(sess) = "wizard"
        /\ wizard' = [wizard EXCEPT !.step = 2]
    BY <1>3 DEF StartSetup, server
  <2>2. wizard' \in WizardType /\ wizard'.loading = wizard.loading
    BY <2>1 DEF TabInv, ScreensInv, Ready, WizardType
  <2>3. Ready(Gate(sess), login, wizard', jobs, leaving)
    BY <2>1, <2>2 DEF TabInv, ScreensInv, Ready, Waits
  <2>. QED
    BY <2>1, <2>3 DEF TabInv, ScreensInv
<1>4. CASE Logout
  <2>1. UNCHANGED <<ran, leaving>> /\ Show(LoggedOut(sess), jobs, login, wizard)
    BY <1>4 DEF Logout, server
  <2>2. LoggedOut(sess) \in SessType
    BY SessTyped DEF TabInv
  <2>3. Lands
    BY <2>1, <2>2, LandsIf DEF TabInv, ScreensInv
  <2>. QED
    BY <2>1, <2>3, TabLands
<1>5. CASE OpenSettings \/ CheckNow \/ StartUpgrade
  <2>1. /\ UNCHANGED <<sess, login, wizard, leaving, ran>>
        /\ \/ jobs' = Call("update", "auto", "none", sess.token, jobs)
           \/ jobs' = Call("update", "manual", "none", sess.token, jobs)
           \/ jobs' = Call("install", "none", "none", sess.token, jobs)
    BY <1>5, Zenon DEF OpenSettings, CheckNow, StartUpgrade, Ask, Call, screens, server
  <2>2. /\ MayAsk("update", "auto", "none", sess.token, TRUE)
        /\ MayAsk("update", "manual", "none", sess.token, TRUE)
        /\ MayAsk("install", "none", "none", sess.token, TRUE)
    BY DEF MayAsk, Kinds, Thens, Whos, Fits, TabInv, SessType
  <2>. QED
    BY <2>1, <2>2, TabAsked, Zenon
<1>6. CASE CloseError \/ Dismiss
  <2>1. UNCHANGED <<sess, login, wizard, jobs, leaving, ran>>
    BY <1>6, Zenon DEF CloseError, Dismiss, session, screens, server
  <2>. QED
    BY <2>1 DEF TabInv, ScreensInv
<1>7. CASE ForceReload
  <2>1. UNCHANGED <<sess, login, wizard, jobs, ran>> /\ leaving' = TRUE
    BY <1>7 DEF ForceReload, session, screens, server
  <2>. QED
    BY <2>1 DEF TabInv, ScreensInv, Ready, Waits
<1>8. ASSUME NEW v \in Versions, Reload(v) PROVE TabInv'
  <2>1. Opened(sess.stored, v) /\ sess.stored \in Tokens \cup {None}
    BY <1>8 DEF Reload, TabInv, SessType
  <2>. QED
    BY <2>1, TabOpened
<1>. QED
  BY <1>1, <1>2, <1>3, <1>4, <1>5, <1>6, <1>7, <1>8 DEF User

LEMMA TabNext ==
  ASSUME ServerInv, TabInv, [Next]_vars
  PROVE  TabInv'
<1>1. ASSUME NEW j \in jobs, Answers(j) PROVE TabInv'
  <2>1. CASE Deliver(j) \/ GotInstall(j) \/ GotUpdate(j)
    <3>1. UNCHANGED ran
      BY <2>1, Zenon DEF Deliver, GotInstall, GotUpdate, server
    <3>2. Lands
      BY <2>1, DeliverLands DEF TabInv
    <3>. QED
      BY <3>1, <3>2, TabLands
  <2>2. CASE GotVersion(j) \/ GotPoll(j)
    BY <2>2, TabDropped
  <2>. QED
    BY <1>1, <2>1, <2>2 DEF Answers
<1>2. CASE (\E t \in Tokens : Expire(t)) \/ Swap \/ InstallEnds \/ UpgradeTimeout \/ UNCHANGED vars
  <2>1. UNCHANGED <<sess, login, wizard, jobs, leaving>>
    BY <1>2, Zenon DEF Expire, Swap, InstallEnds, UpgradeTimeout, vars, session, screens
  <2>2. Requests(jobs, ran')
    BY ServerNext DEF TabInv, Requests, JobOK, Holds
  <2>. QED
    BY <2>1, <2>2 DEF TabInv, ScreensInv
<1>3. CASE PollTick \/ PagePolls \/ HourlyCheck
  <2>1. /\ UNCHANGED <<sess, login, wizard, leaving, ran>>
        /\ \/ jobs' = Call("poll", "none", "none", None, jobs)
           \/ jobs' = Call("data", "none", "none", sess.token, jobs)
           \/ jobs' = Call("update", "auto", "none", sess.token, jobs)
    BY <1>3, Zenon DEF PollTick, PagePolls, HourlyCheck, Ask, Call, RawFetch, screens, server
  <2>2. /\ MayAsk("poll", "none", "none", None, TRUE)
        /\ MayAsk("data", "none", "none", sess.token, TRUE)
        /\ MayAsk("update", "auto", "none", sess.token, TRUE)
    BY DEF MayAsk, Kinds, Thens, Whos, Fits, TabInv, SessType
  <2>. QED
    BY <2>1, <2>2, TabAsked, Zenon
<1>. QED
  BY <1>1, <1>2, <1>3, TabServed, TabRetried, TabUser DEF Next

----------------------------------------------------------------------------
(* The rest of the page: the handshake, the update check, the overlay's     *)
(* target and the counters.                                                 *)

HsType == [bundle : Versions, backend : Versions \cup {None}, mismatch : BOOLEAN, dismissed : BOOLEAN]
UpdType == [check : Versions \cup {None}, loading : BOOLEAN, failing : BOOLEAN, manual : BOOLEAN, polling : BOOLEAN]

PageInv ==
    /\ attempts \in Nat /\ acts \in 0..MaxActs
    /\ hs \in HsType /\ upd \in UpdType
    /\ upg.target \in Versions \cup {None}
    /\ upg.state = "success" => upg.target \in ran

LEMMA HandshakeChecked ==
  ASSUME ServerInv, TabInv, PageInv, NEW j \in jobs, GotVersion(j)
  PROVE  hs' \in HsType /\ attempts' \in Nat
<1>1. PICK r \in Outcomes(j) : Checked(r, j.got)
  BY DEF GotVersion
<1>2. r = "ok" => j.got \in ran
  BY GoodAnswer DEF GotVersion, TabInv, Requests
<1>3. r = "ok" => j.got \in Versions
  BY <1>2 DEF ServerInv
<1>4. hs' \in HsType
  BY <1>1, <1>3 DEF Checked, PageInv, HsType
<1>5. attempts' \in Nat
  BY <1>1 DEF Checked, PageInv
<1>. QED
  BY <1>4, <1>5

LEMMA UpdateChecked ==
  ASSUME PageInv, NEW j, GotUpdate(j)
  PROVE  upd' \in UpdType
<1>1. PICK r, manual : manual \in BOOLEAN /\ upd' = Refreshed(upd, r, Newest, manual)
  BY Zenon DEF GotUpdate
<1>2. Newest \in Versions
  BY ConstantsOK DEF Versions
<1>. QED
  BY <1>1, <1>2 DEF Refreshed, RecordCheck, PageInv, UpdType

LEMMA RefreshingTyped ==
  ASSUME PageInv
  PROVE  Refreshing(upd) \in UpdType /\ [Refreshing(upd) EXCEPT !.polling = TRUE] \in UpdType
BY DEF PageInv, Refreshing, UpdType

(* The overlay's target is what the update check found, and a success is    *)
(* announced on an answer with that version only.                           *)
LEMMA TargetKept ==
  ASSUME UpgradeInv, TabInv, PageInv, ran \subseteq ran', NEW j \in jobs, GotInstall(j) \/ GotPoll(j)
  PROVE  upg'.target \in Versions \cup {None} /\ (upg'.state = "success" => upg'.target \in ran')
<1>1. IsOverlay(upg)
  BY DEF UpgradeInv
<1>2. CASE GotInstall(j)
  <2>1. \/ upg' = BeginPolling([upg EXCEPT !.state = "restarting"])
        \/ upg' = [upg EXCEPT !.state = "error"]
    BY <1>2, Zenon DEF GotInstall
  <2>2. upg'.target = upg.target /\ upg'.state \in {"restarting", "error"}
    BY <1>1, <2>1 DEF IsOverlay, BeginPolling, Cleared
  <2>. QED
    BY <2>2 DEF PageInv
<1>3. CASE GotPoll(j)
  <2>1. PICK r \in Outcomes(j) : Polled(r, j.got)
    BY <1>3 DEF GotPoll
  <2>2. r = "ok" => j.got \in ran
    BY <1>3, GoodAnswer DEF GotPoll, TabInv, Requests
  <2>3. CASE UNCHANGED upg
    BY <2>3 DEF PageInv
  <2>4. CASE /\ r = "ok" /\ j.got = upg.target
             /\ upg' = [Cleared(upg) EXCEPT !.state = "success", !.reload = TRUE]
    <3>1. upg'.target = upg.target
      BY <1>1, <2>4 DEF IsOverlay, Cleared
    <3>. QED
      BY <2>2, <2>4, <3>1 DEF PageInv
  <2>. QED
    BY <2>1, <2>3, <2>4 DEF Polled
<1>. QED
  BY <1>2, <1>3

LEMMA TargetNext ==
  ASSUME UpgradeInv, TabInv, PageInv, ran \subseteq ran', [Next]_vars
  PROVE  upg'.target \in Versions \cup {None} /\ (upg'.state = "success" => upg'.target \in ran')
<1>. DEFINE Kept == upg'.target \in Versions \cup {None} /\ (upg'.state = "success" => upg'.target \in ran')
<1>1. UNCHANGED upg => Kept
  BY DEF PageInv
<1>2. ASSUME NEW j \in jobs, GotInstall(j) \/ GotPoll(j) PROVE Kept
  BY <1>2, TargetKept
<1>3. UpgradeTimeout => Kept
  BY DEF UpgradeTimeout, Cleared, UpgradeInv, IsOverlay, PageInv
<1>4. StartUpgrade => Kept
  BY DEF StartUpgrade, Started, Idle, PageInv, UpdType
<1>5. upg' = Idle => Kept
  BY DEF Idle
<1>6. CloseError => Kept
  BY <1>5 DEF CloseError
<1>7. \A v \in Versions : Reload(v) => Kept
  BY <1>5 DEF Reload, Opened
<1>. HIDE DEF Kept
<1>8. ASSUME NEW j \in jobs, Serve(j) \/ Retry(j) \/ Deliver(j) \/ GotVersion(j) \/ GotUpdate(j) PROVE Kept
  BY <1>1, <1>8, Zenon DEF Serve, Retry, Deliver, GotVersion, GotUpdate
<1>9. ASSUME (\E t \in Tokens : Expire(t)) \/ Swap \/ InstallEnds \/ PollTick \/ PagePolls \/ HourlyCheck PROVE Kept
  BY <1>1, <1>9, Zenon DEF Expire, Swap, InstallEnds, PollTick, PagePolls, HourlyCheck
<1>10. ASSUME \/ \E right \in BOOLEAN : HandleLogin(right)
              \/ StartSetup \/ HandleSetup \/ Logout \/ OpenSettings \/ CheckNow \/ Dismiss \/ ForceReload
       PROVE  Kept
  BY <1>1, <1>10, Zenon DEF HandleLogin, StartSetup, HandleSetup, Logout, OpenSettings, CheckNow, Dismiss, ForceReload
<1>11. UNCHANGED vars => Kept
  BY <1>1 DEF vars
<1>12. Kept
  BY <1>2, <1>3, <1>4, <1>6, <1>7, <1>8, <1>9, <1>10, <1>11 DEF Next, Answers, User
<1>. QED
  BY <1>12 DEF Kept

LEMMA HandshakeNext ==
  ASSUME ServerInv, TabInv, PageInv, [Next]_vars
  PROVE  hs' \in HsType
<1>1. UNCHANGED hs => hs' \in HsType
  BY DEF PageInv
<1>2. ASSUME NEW j \in jobs, Serve(j) \/ Retry(j) \/ Answers(j) PROVE hs' \in HsType
  BY <1>1, <1>2, HandshakeChecked, Zenon DEF Serve, Retry, Answers, Deliver, GotInstall, GotPoll, GotUpdate
<1>3. Dismiss => hs' \in HsType
  BY DEF Dismiss, PageInv, HsType
<1>4. \A v \in Versions : Reload(v) => hs' \in HsType
  BY DEF Reload, Opened, HsType, None
<1>5. ASSUME (\E t \in Tokens : Expire(t)) \/ Swap \/ InstallEnds \/ PollTick \/ UpgradeTimeout \/ PagePolls \/ HourlyCheck
      PROVE  hs' \in HsType
  BY <1>1, <1>5, Zenon DEF Expire, Swap, InstallEnds, PollTick, UpgradeTimeout, PagePolls, HourlyCheck
<1>6. ASSUME \/ \E right \in BOOLEAN : HandleLogin(right)
             \/ StartSetup \/ HandleSetup \/ Logout \/ OpenSettings \/ CheckNow \/ StartUpgrade \/ CloseError \/ ForceReload
      PROVE  hs' \in HsType
  BY <1>1, <1>6, Zenon DEF HandleLogin, StartSetup, HandleSetup, Logout, OpenSettings, CheckNow, StartUpgrade, CloseError, ForceReload
<1>7. UNCHANGED vars => hs' \in HsType
  BY <1>1 DEF vars
<1>. QED
  BY <1>2, <1>3, <1>4, <1>5, <1>6, <1>7 DEF Next, User

LEMMA UpdateNext ==
  ASSUME PageInv, [Next]_vars
  PROVE  upd' \in UpdType
<1>1. UNCHANGED upd => upd' \in UpdType
  BY DEF PageInv
<1>2. ASSUME NEW j \in jobs, Serve(j) \/ Retry(j) \/ Answers(j) PROVE upd' \in UpdType
  BY <1>1, <1>2, UpdateChecked, Zenon DEF Serve, Retry, Answers, Deliver, GotVersion, GotInstall, GotPoll
<1>3. OpenSettings \/ CheckNow \/ HourlyCheck => upd' \in UpdType
  BY RefreshingTyped, Zenon DEF OpenSettings, CheckNow, HourlyCheck
<1>4. \A v \in Versions : Reload(v) => upd' \in UpdType
  BY DEF Reload, Opened, UpdType, None
<1>5. ASSUME (\E t \in Tokens : Expire(t)) \/ Swap \/ InstallEnds \/ PollTick \/ UpgradeTimeout \/ PagePolls
      PROVE  upd' \in UpdType
  BY <1>1, <1>5, Zenon DEF Expire, Swap, InstallEnds, PollTick, UpgradeTimeout, PagePolls
<1>6. ASSUME \/ \E right \in BOOLEAN : HandleLogin(right)
             \/ StartSetup \/ HandleSetup \/ Logout \/ StartUpgrade \/ CloseError \/ Dismiss \/ ForceReload
      PROVE  upd' \in UpdType
  BY <1>1, <1>6, Zenon DEF HandleLogin, StartSetup, HandleSetup, Logout, StartUpgrade, CloseError, Dismiss, ForceReload
<1>7. UNCHANGED vars => upd' \in UpdType
  BY <1>1 DEF vars
<1>. QED
  BY <1>2, <1>3, <1>4, <1>5, <1>6, <1>7 DEF Next, User

LEMMA CountsNext ==
  ASSUME ServerInv, TabInv, PageInv, [Next]_vars
  PROVE  attempts' \in Nat /\ acts' \in 0..MaxActs
<1>1. UNCHANGED acts \/ Act => acts' \in 0..MaxActs
  BY ConstantsOK DEF Act, PageInv
<1>2. UNCHANGED attempts \/ attempts' = attempts + 1 => attempts' \in Nat
  BY DEF PageInv
<1>3. ASSUME NEW j \in jobs, Serve(j) \/ Retry(j) \/ Answers(j) PROVE attempts' \in Nat /\ UNCHANGED acts
  BY <1>2, <1>3, HandshakeChecked, Zenon DEF Serve, Retry, Answers, Deliver, GotVersion, GotInstall, GotPoll, GotUpdate
<1>4. ASSUME (\E t \in Tokens : Expire(t)) \/ Swap \/ InstallEnds \/ PollTick \/ UpgradeTimeout \/ PagePolls \/ HourlyCheck
      PROVE  UNCHANGED attempts /\ (UNCHANGED acts \/ Act)
  BY <1>4, Zenon DEF Expire, Swap, InstallEnds, PollTick, UpgradeTimeout, PagePolls, HourlyCheck
<1>5. ASSUME User
      PROVE  (UNCHANGED attempts \/ attempts' = attempts + 1) /\ (UNCHANGED acts \/ Act)
  BY <1>5, Zenon DEF User, HandleLogin, StartSetup, HandleSetup, Logout, OpenSettings, CheckNow, StartUpgrade,
                     CloseError, Dismiss, ForceReload, Reload
<1>6. UNCHANGED vars => UNCHANGED <<attempts, acts>>
  BY DEF vars
<1>. QED
  BY <1>1, <1>2, <1>3, <1>4, <1>5, <1>6 DEF Next

LEMMA PageNext ==
  ASSUME ServerInv, UpgradeInv, TabInv, PageInv, [Next]_vars
  PROVE  PageInv'
BY ServerNext, TargetNext, HandshakeNext, UpdateNext, CountsNext DEF PageInv

----------------------------------------------------------------------------
(* The inductive invariant of the whole shell.                              *)

ShellInv == ServerInv /\ UpgradeInv /\ SessionInv /\ TabInv /\ PageInv

LEMMA ShellInit == Init => ShellInv
<1>. SUFFICES ASSUME Init PROVE ShellInv
  OBVIOUS
<1>1. 1 \in Tokens /\ 1 \in Versions /\ MaxActs \in Nat
  BY ConstantsOK DEF Tokens, Versions
<1>2. srv \in SrvType /\ srv.ver = 1 /\ ran = {1}
  BY <1>1 DEF Init, SrvType
<1>3. PICK tok \in {None, 1} : sess = Boot(tok) /\ jobs = BootJobs(tok)
  BY DEF Init
<1>4. /\ attempts = 0 /\ warned = 0 /\ acts = 0 /\ leaving = FALSE
      /\ login = FreshLogin /\ wizard = FreshWizard /\ upg = Idle
  BY DEF Init
<1>5. hs \in HsType /\ upd \in UpdType
  BY DEF Init, HsType, UpdType, None
<1>6. ServerInv
  BY <1>1, <1>2 DEF ServerInv
<1>7. sess \in SessType /\ Idles(jobs, ran)
  BY <1>1, <1>3, TabBooted
<1>8. Ready(Gate(sess), login, wizard, jobs, leaving)
  BY <1>4, <1>7, FreshReady DEF Idles
<1>9. TabInv
  BY <1>4, <1>7, <1>8 DEF TabInv, ScreensInv, Idles
<1>10. PageInv
  BY <1>1, <1>4, <1>5 DEF PageInv, Idle, None
<1>11. SessionInv
  BY <1>3, <1>4, BootSound DEF SessionInv
<1>. QED
  BY <1>6, <1>9, <1>10, <1>11, UpgradeInit DEF ShellInv

LEMMA ShellNext == ShellInv /\ [Next]_vars => ShellInv'
BY ServerNext, UpgradeNext, SessionNext, TabNext, PageNext DEF ShellInv

LEMMA ShellTyped == ShellInv => TypeOK
<1>. SUFFICES ASSUME ShellInv PROVE TypeOK
  OBVIOUS
<1>1. /\ srv \in SrvType
      /\ ran \subseteq Versions /\ attempts \in Nat /\ acts \in 0..MaxActs
  BY DEF ShellInv, ServerInv, PageInv
<1>2. /\ warned \in Nat /\ leaving \in BOOLEAN
      /\ login \in LoginType /\ wizard \in WizardType /\ sess \in SessType
  BY DEF ShellInv, SessionInv, TabInv, ScreensInv, Ready
<1>3. hs \in HsType /\ upd \in UpdType
  BY DEF ShellInv, PageInv
<1>4. upg \in [state : {"idle", "starting", "restarting", "success", "error"}, target : Versions \cup {None},
               poll : BOOLEAN, timeout : BOOLEAN, reload : BOOLEAN]
  BY DEF ShellInv, UpgradeInv, IsOverlay, PageInv
<1>5. jobs \subseteq JobType /\ \A j, k \in jobs : j.kind = k.kind /\ j.n = k.n => j = k
  BY DEF ShellInv, TabInv, Requests, JobOK, Apart
<1>6. /\ Gate(sess) # "login" => login = FreshLogin
      /\ Gate(sess) # "wizard" => wizard = FreshWizard
      /\ \A j \in jobs : j.who \in {"login", "wizard"} => Gate(sess) = j.who
  BY DEF ShellInv, TabInv, ScreensInv, Ready, Waiting
<1>. QED
  BY <1>1, <1>2, <1>3, <1>4, <1>5, <1>6 DEF TypeOK, SrvType, LoginType, WizardType, SessType, HsType, UpdType

(* For any number of sessions, requests, retries and versions: the session  *)
(* is the same in memory, in storage and on screen, no screen that left     *)
(* keeps its state, and every disabled button waits for a request of its    *)
(* own or for the page to be gone.                                          *)
THEOREM SessionSound == Spec => []SessionIsSound
<1>1. ShellInv => ButtonsComeBack
  BY DEF ShellInv, TabInv, ScreensInv, Ready, Waits, ButtonsComeBack
<1>2. ShellInv => TokensAgree /\ OneWarning
  BY DEF ShellInv, SessionInv, Sound, TokensAgree, OneWarning
<1>3. ShellInv => SessionIsSound
  BY <1>1, <1>2, ShellTyped DEF SessionIsSound
<1>. QED
  BY <1>3, ShellInit, ShellNext, PTL DEF Spec

(* An upgrade is announced as done only when the server has answered with   *)
(* the version that was asked for, however late or lost the polls.          *)
THEOREM SuccessIsTrue == Spec => []SuccessIsTheTarget
<1>1. ShellInv => SuccessIsTheTarget
  BY DEF ShellInv, PageInv, SuccessIsTheTarget
<1>. QED
  BY <1>1, ShellInit, ShellNext, PTL DEF Spec
=============================================================================

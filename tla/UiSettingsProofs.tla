-------------------------- MODULE UiSettingsProofs --------------------------
(***************************************************************************)
(* Proofs about UiSettings, for any ports, services, restarts, authorities *)
(* and numbers of user actions.                                            *)
(***************************************************************************)
EXTENDS UiSettings, FiniteSetTheorems, WellFoundedInduction, TLAPS

(***************************************************************************)
(* Requests: numbered apart from the others of their kind, and addressed   *)
(* to the pane that makes requests of that kind or to one that is gone.    *)
(***************************************************************************)
Kinds == Dialogs \cup Reads \cup {"reset", "port", "restart", "preflight", "remove"}
PageKinds == {"rotate", "reset", "port"}
CatalogKinds == {"add", "sources", "status", "enable", "disable", "remove"}
Home(kind) == IF kind \in PageKinds THEN "page" ELSE IF kind \in CatalogKinds THEN "catalog" ELSE "power"

Args == Services \cup Ports \cup {0, 1}
Fits(kind, arg, for) ==
    /\ for \in {Home(kind), "gone"}
    /\ kind = "port" => arg \in Ports
    /\ kind \in {"restart", "wait"} => arg \in Services

JobOK(j) == j \in JobType /\ Fits(j.kind, j.arg, j.for)
Apart(js) == \A j, k \in js : j.kind = k.kind /\ j.n = k.n => j = k
Requests(js) == IsFiniteSet(js) /\ (\A j \in js : JobOK(j)) /\ Apart(js)

MayAsk(kind, arg, prev, for) ==
    kind \in Kinds /\ arg \in Args /\ prev \in 0..MaxPid /\ Fits(kind, arg, for)

LEMMA HomeIs ==
  /\ \A kind : Home(kind) \in {"page", "power", "catalog"}
  /\ \A d \in Dialogs : Home(d) = PaneOf(d)
BY DEF Home, PageKinds, CatalogKinds, Dialogs, PaneOf

LEMMA NothingIs ==
  Nothing \in [pids : [Services -> 0..MaxPid], sources : SUBSET {0, 1}, on : BOOLEAN]
BY ConstantsOK DEF Nothing, NoPower, None

(* Every nonempty set of numbers has a least one.                           *)
LEMMA LeastNumber ==
  ASSUME NEW T, T \subseteq Nat, T # {}
  PROVE  \E x \in T : \A y \in T : x <= y
<1>1. IsWellFoundedOn(OpToRel(<, Nat), Nat)
  BY NatLessThanWellFounded
<1>2. PICK n \in T : \A y \in T : ~(<<y, n>> \in OpToRel(<, Nat))
  BY <1>1, WFMin
<1>3. ASSUME NEW m \in T PROVE n <= m
  <2>1. m \in Nat /\ n \in Nat
    OBVIOUS
  <2>2. m < n => <<m, n>> \in OpToRel(<, Nat)
    BY <2>1 DEF OpToRel
  <2>3. ~(m < n)
    BY <1>2, <2>2
  <2>. QED
    BY <2>1, <2>3
<1>. QED
  BY <1>3

(* Of more numbers than a finite set has elements, one is not among those   *)
(* its elements are given.                                                  *)
LEMMA OneLeft ==
  ASSUME NEW S, IsFiniteSet(S), NEW f, f \in [S -> Nat], NEW c \in Nat, c > Cardinality(S)
  PROVE  \E n \in 1..c : \A x \in S : f[x] # n
<1>. DEFINE used == {f[x] : x \in S}
<1>1. Cardinality(S) \in Nat
  BY FS_CardinalityType
<1>2. f \in Surjection(S, used)
  BY DEF Surjection
<1>3. IsFiniteSet(used) /\ Cardinality(used) <= Cardinality(S) /\ Cardinality(used) \in Nat
  BY <1>2, FS_Surjection, FS_CardinalityType
<1>4. IsFiniteSet(1..c) /\ Cardinality(1..c) = c
  BY FS_Interval
<1>5. ASSUME 1..c \subseteq used PROVE FALSE
  <2>1. Cardinality(1..c) <= Cardinality(used)
    BY <1>3, <1>5, FS_Subset
  <2>. QED
    BY <1>1, <1>3, <1>4, <2>1
<1>6. PICK n \in 1..c : n \notin used
  BY <1>5
<1>. QED
  BY <1>6

(* A number is found that no request of the kind has.                       *)
LEMMA NumberedIs ==
  ASSUME Requests(jobs), NEW kind, NEW arg, NEW prev, NEW for, MayAsk(kind, arg, prev, for)
  PROVE  LET x == Numbered(Job(kind, arg, prev, for)) IN
         /\ JobOK(x) /\ x.kind = kind /\ x.arg = arg /\ x.for = for /\ x.state = "sent"
         /\ \A k \in jobs : k.kind = kind => k.n # x.n
<1>. DEFINE q == Job(kind, arg, prev, for)
            c == Cardinality(jobs) + 1
            Free(n) == \A k \in jobs : k.kind = kind => k.n # n
            Low(n) == Free(n) /\ \A m \in 1..(n - 1) : \E k \in jobs : k.kind = kind /\ k.n = m
            T == {n \in 1..c : Free(n)}
<1>1. q.kind = kind
  BY DEF Job
<1>2. IsFiniteSet(jobs) /\ Cardinality(jobs) \in Nat /\ c \in Nat
  BY FS_CardinalityType DEF Requests
<1>3. T \subseteq Nat /\ T # {}
  <2>. DEFINE f == [k \in jobs |-> k.n]
  <2>1. f \in [jobs -> Nat]
    BY DEF Requests, JobOK, JobType
  <2>2. c > Cardinality(jobs)
    BY <1>2
  <2>3. \E n \in 1..c : \A k \in jobs : f[k] # n
    <3>. HIDE DEF f, c
    <3>. QED
      BY <1>2, <2>1, <2>2, OneLeft
  <2>. QED
    BY <1>2, <2>3
<1>4. PICK x \in T : \A y \in T : x <= y
  BY <1>3, LeastNumber
<1>5. \A m \in 1..(x - 1) : \E k \in jobs : k.kind = kind /\ k.n = m
  <2>. TAKE m \in 1..(x - 1)
  <2>1. m \in 1..c /\ ~(x <= m)
    BY <1>2, <1>4
  <2>2. m \notin T
    BY <1>4, <2>1
  <2>. QED
    BY <2>1, <2>2
<1>6. \E n \in 1..c : Low(n)
  BY <1>4, <1>5
<1>. DEFINE a == CHOOSE n \in 1..c : Low(n)
<1>7. a \in 1..c /\ Low(a)
  BY <1>6
<1>8. Numbered(q) = [q EXCEPT !.n = a]
  BY <1>1 DEF Numbered
<1>9. a \in Nat
  BY <1>2, <1>7
<1>. HIDE DEF a
<1>10. [q EXCEPT !.n = a] = [n |-> a, kind |-> kind, arg |-> arg, prev |-> prev, for |-> for,
                             state |-> "sent", got |-> Nothing]
  BY DEF Job
<1>11. [q EXCEPT !.n = a] \in JobType
  <2>1. for \in Panes \cup {"page", "gone"}
    BY HomeIs DEF MayAsk, Fits, Panes
  <2>. QED
    BY <1>9, <1>10, <2>1, NothingIs DEF JobType, MayAsk, Kinds, Args
<1>12. PICK y : y = Numbered(q)
  OBVIOUS
<1>13. /\ y \in JobType /\ y.kind = kind /\ y.arg = arg /\ y.for = for /\ y.state = "sent"
       /\ \A k \in jobs : k.kind = kind => k.n # y.n
  BY <1>7, <1>8, <1>10, <1>11, <1>12
<1>14. JobOK(y)
  BY <1>13 DEF JobOK, MayAsk
<1>. QED
  BY <1>12, <1>13, <1>14

LEMMA OneMore ==
  ASSUME NEW js, Requests(js), NEW x, JobOK(x), \A k \in js : k.kind = x.kind => k.n # x.n
  PROVE  Requests(js \cup {x})
<1>1. IsFiniteSet(js \cup {x})
  BY FS_AddElement DEF Requests
<1>2. Apart(js \cup {x})
  BY DEF Requests, Apart
<1>. QED
  BY <1>1, <1>2 DEF Requests

LEMMA Fewer ==
  ASSUME NEW js, Requests(js), NEW ks, ks \subseteq js
  PROVE  Requests(ks)
<1>1. IsFiniteSet(ks)
  BY FS_Subset DEF Requests
<1>. QED
  BY <1>1 DEF Requests, Apart

Sent(js, ks, kind, arg, for) ==
    /\ Requests(ks)
    /\ \E x : ks = js \cup {x} /\ x.kind = kind /\ x.arg = arg /\ x.for = for

LEMMA AskedIs ==
  ASSUME Requests(jobs), NEW kind, NEW arg, NEW prev, NEW for, MayAsk(kind, arg, prev, for),
         Ask(kind, arg, prev, for)
  PROVE  Sent(jobs, jobs', kind, arg, for)
<1>1. PICK x : x = Numbered(Job(kind, arg, prev, for))
  OBVIOUS
<1>2. JobOK(x) /\ x.kind = kind /\ x.arg = arg /\ x.for = for /\ \A k \in jobs : k.kind = kind => k.n # x.n
  BY <1>1, NumberedIs
<1>3. jobs' = jobs \cup {x}
  BY <1>1 DEF Ask
<1>4. Requests(jobs \cup {x})
  BY <1>2, OneMore
<1>. QED
  BY <1>2, <1>3, <1>4 DEF Sent

AnswerOf(x, j) ==
    \E st \in {"ok", "bad"}, got \in [pids : [Services -> 0..MaxPid], sources : SUBSET {0, 1}, on : BOOLEAN] :
        x = [j EXCEPT !.state = st, !.got = got]

LEMMA ServedIs ==
  ASSUME Requests(jobs), NEW j \in jobs, NEW x, AnswerOf(x, j)
  PROVE  /\ Requests((jobs \ {j}) \cup {x})
         /\ x.kind = j.kind /\ x.arg = j.arg /\ x.for = j.for
<1>1. x \in JobType /\ x.kind = j.kind /\ x.arg = j.arg /\ x.for = j.for /\ x.n = j.n
  BY DEF Requests, JobOK, JobType, AnswerOf
<1>2. JobOK(x)
  BY <1>1 DEF Requests, JobOK
<1>3. Requests(jobs \ {j})
  BY Fewer
<1>4. \A k \in jobs \ {j} : k.kind = x.kind => k.n # x.n
  BY <1>1 DEF Requests, Apart
<1>. QED
  BY <1>1, <1>2, <1>3, <1>4, OneMore

(* What a caller asks next goes back to where it was asked.                 *)
Continues(j, late) ==
    \/ j.state = "ok" /\ j.kind \in {"sources", "remove", "restart"}
    \/ j.kind = "wait" /\ ~late /\ ~Cycled(j)
NextKind(j) ==
    IF j.kind = "sources" THEN "status" ELSE IF j.kind = "remove" THEN "sources" ELSE "wait"
NextArg(j) == IF j.kind \in {"sources", "remove"} THEN None ELSE j.arg

LEMMA FollowIs ==
  ASSUME NEW j, JobOK(j), NEW late
  PROVE  /\ ~Continues(j, late) => Follow(j, late) = {}
         /\ Continues(j, late) => \E prev : /\ Follow(j, late) = {Job(NextKind(j), NextArg(j), prev, j.for)}
                                       /\ MayAsk(NextKind(j), NextArg(j), prev, j.for)
<1>1. ~Continues(j, late) => Follow(j, late) = {}
  BY DEF Continues, Follow
<1>2. MaxPid \in Nat /\ 0 \in 0..MaxPid
  BY ConstantsOK
<1>. DEFINE Goes(k, a) == \E prev : /\ Follow(j, late) = {Job(k, a, prev, j.for)}
                                    /\ MayAsk(k, a, prev, j.for)
<1>3. ASSUME Continues(j, late) PROVE Goes(NextKind(j), NextArg(j))
  <2>1. CASE j.kind = "sources"
    <3>1. Follow(j, late) = {Job("status", None, None, j.for)}
      BY <1>3, <2>1 DEF Continues, Follow
    <3>2. MayAsk("status", None, None, j.for)
      BY <1>2, <2>1 DEF MayAsk, Fits, JobOK, Home, PageKinds, CatalogKinds, Kinds, Reads, Args, None
    <3>3. NextKind(j) = "status" /\ NextArg(j) = None
      BY <2>1 DEF NextKind, NextArg
    <3>. QED
      BY <3>1, <3>2, <3>3
  <2>2. CASE j.kind = "remove"
    <3>1. Follow(j, late) = {Job("sources", None, None, j.for)}
      BY <1>3, <2>2 DEF Continues, Follow
    <3>2. MayAsk("sources", None, None, j.for)
      BY <1>2, <2>2 DEF MayAsk, Fits, JobOK, Home, PageKinds, CatalogKinds, Kinds, Reads, Args, None
    <3>3. NextKind(j) = "sources" /\ NextArg(j) = None
      BY <2>2 DEF NextKind, NextArg
    <3>. QED
      BY <3>1, <3>2, <3>3
  <2>3. CASE j.kind \in {"restart", "wait"}
    <3>1. Follow(j, late) = {Job("wait", j.arg, j.prev, j.for)}
      BY <1>3, <2>3 DEF Continues, Follow
    <3>2. MayAsk("wait", j.arg, j.prev, j.for)
      BY <2>3 DEF MayAsk, Fits, JobOK, JobType, Home, PageKinds, CatalogKinds, Kinds, Reads, Args
    <3>3. NextKind(j) = "wait" /\ NextArg(j) = j.arg
      BY <2>3 DEF NextKind, NextArg
    <3>. QED
      BY <3>1, <3>2, <3>3
  <2>. QED
    BY <1>3, <2>1, <2>2, <2>3 DEF Continues
<1>. QED
  BY <1>1, <1>3

LEMMA DeliveredIs ==
  ASSUME Requests(jobs), NEW j \in jobs, NEW late,
         jobs' = (jobs \ {j}) \cup {Numbered(k) : k \in Follow(j, late)}
  PROVE  /\ Requests(jobs') /\ jobs \ {j} \subseteq jobs'
         /\ \A x \in jobs' \ jobs : x.for = j.for
         /\ Continues(j, late) => \E x \in jobs' : x.kind = NextKind(j) /\ x.arg = NextArg(j) /\ x.for = j.for
<1>1. JobOK(j)
  BY DEF Requests
<1>2. Requests(jobs \ {j})
  BY Fewer
<1>3. CASE ~Continues(j, late)
  <2>1. jobs' = jobs \ {j}
    BY <1>1, <1>3, FollowIs
  <2>. QED
    BY <1>2, <1>3, <2>1
<1>4. CASE Continues(j, late)
  <2>1. PICK prev : /\ Follow(j, late) = {Job(NextKind(j), NextArg(j), prev, j.for)}
                    /\ MayAsk(NextKind(j), NextArg(j), prev, j.for)
    BY <1>1, <1>4, FollowIs
  <2>2. PICK x : x = Numbered(Job(NextKind(j), NextArg(j), prev, j.for))
    OBVIOUS
  <2>3. /\ JobOK(x) /\ x.kind = NextKind(j) /\ x.arg = NextArg(j) /\ x.for = j.for
        /\ \A k \in jobs : k.kind = x.kind => k.n # x.n
    BY <2>1, <2>2, NumberedIs
  <2>4. jobs' = (jobs \ {j}) \cup {x}
    BY <2>1, <2>2
  <2>5. Requests((jobs \ {j}) \cup {x})
    BY <1>2, <2>3, OneMore
  <2>. QED
    BY <2>3, <2>4, <2>5
<1>. QED
  BY <1>3, <1>4

(* The requests of a pane that is left go back to nobody.                   *)
Leave(j, p) == IF j.for = p THEN [j EXCEPT !.for = "gone"] ELSE j
LeftBehind(p) == {Leave(j, p) : j \in jobs}

LEMMA LeaveIs ==
  ASSUME NEW j, JobOK(j), NEW p
  PROVE  /\ JobOK(Leave(j, p)) /\ Leave(j, p).kind = j.kind /\ Leave(j, p).n = j.n
         /\ Leave(j, p).for = IF j.for = p THEN "gone" ELSE j.for
         /\ j.for # p => Leave(j, p) = j
<1>1. [j EXCEPT !.for = "gone"] \in JobType
  BY DEF JobOK, JobType
<1>. QED
  BY <1>1 DEF Leave, JobOK, JobType, Fits

LEMMA LeftBehindIs ==
  ASSUME Requests(jobs), NEW p
  PROVE  Requests(LeftBehind(p))
<1>. DEFINE f == [j \in jobs |-> Leave(j, p)]
<1>1. f \in Surjection(jobs, LeftBehind(p))
  BY DEF Surjection, LeftBehind
<1>2. IsFiniteSet(LeftBehind(p))
  BY <1>1, FS_Surjection DEF Requests
<1>3. \A j \in jobs : /\ JobOK(Leave(j, p)) /\ Leave(j, p).kind = j.kind /\ Leave(j, p).n = j.n
  BY LeaveIs DEF Requests
<1>4. Apart(LeftBehind(p))
  BY <1>3 DEF LeftBehind, Requests, Apart
<1>. QED
  BY <1>2, <1>3, <1>4 DEF LeftBehind, Requests

(***************************************************************************)
(* The server, and what the page knows of it.                              *)
(***************************************************************************)
SrvType ==
    [fp : CAs, armed : BOOLEAN, port : Ports, closing : Ports \cup {None}, pids : [Services -> 1..MaxPid],
     cycling : SUBSET Services, enabled : BOOLEAN, sources : SUBSET {0, 1}]

(* Every fingerprint the page holds was trusted by the device, and a test   *)
(* that may redirect has had HSTS armed.                                    *)
WasTrusted(fp) == fp \in CAs \cup {None} /\ (fp # None => fp \in device.ever)
TrustInv ==
    /\ device \in [ca : CAs \cup {None}, ever : SUBSET CAs] /\ WasTrusted(device.ca)
    /\ kept \in [fp : CAs \cup {None}, dismissed : BOOLEAN] /\ WasTrusted(kept.fp)
    /\ banner \in [asked : CAs \cup {None}, mismatch : BOOLEAN]
    /\ test \in [pc : {"off", "tls", "spa", "arm", "read", "keep"}, can : BOOLEAN, armed : BOOLEAN, fp : CAs \cup {None}]
    /\ WasTrusted(test.fp)
    /\ test.pc \in {"read", "keep"} => test.armed
    /\ going \in BOOLEAN

(* The page has gone nowhere but to a port the gateway had.                 *)
LeftInv ==
    /\ left \in {"here", "https", "reloaded"} \cup Ports
    /\ left \in Ports => left \in {srv.port, srv.closing}
    /\ acts \in 0..MaxActs

LEMMA NumbersAre ==
  /\ MaxPid \in Nat /\ MaxPid > 0 /\ MaxCA \in Nat /\ MaxCA > 0
  /\ Seconds \in Nat /\ Seconds > 0 /\ Tries \in Nat /\ Tries > 0
  /\ MaxActs \in Nat /\ None \notin CAs /\ None \notin Ports
BY ConstantsOK DEF None, CAs

LEMMA Effects ==
  ASSUME srv \in SrvType, NEW j, JobOK(j), Effect(j)
  PROVE  srv' \in SrvType
<1>. USE DEF SrvType
<1>1. CASE j.kind = "rotate"
  <2>1. srv.fp \in 1..MaxCA /\ srv.fp < MaxCA /\ srv' = [srv EXCEPT !.fp = @ + 1, !.armed = FALSE]
    BY <1>1 DEF Effect, RotateCA, CAs
  <2>2. srv.fp + 1 \in CAs
    BY <2>1, NumbersAre DEF CAs
  <2>. QED
    BY <2>1, <2>2
<1>2. CASE j.kind = "reset"
  BY <1>2 DEF Effect, Disarm
<1>3. CASE j.kind = "port"
  <2>1. j.arg \in Ports
    BY <1>3 DEF JobOK, Fits
  <2>. QED
    BY <1>3, <2>1 DEF Effect, ChangePort
<1>4. CASE j.kind = "restart"
  <2>1. j.arg \in Services
    BY <1>4 DEF JobOK, Fits
  <2>. QED
    BY <1>4, <2>1 DEF Effect, RestartUnit
<1>5. CASE j.kind \in {"enable", "disable"}
  BY <1>5 DEF Effect, Enable
<1>6. CASE j.kind = "add"
  BY <1>6 DEF Effect, AddSource
<1>7. CASE j.kind = "remove"
  BY <1>7 DEF Effect, DropSource
<1>8. CASE j.kind \notin {"rotate", "reset", "port", "restart", "enable", "disable", "add", "remove"}
  BY <1>8 DEF Effect
<1>. QED
  BY <1>1, <1>2, <1>3, <1>4, <1>5, <1>6, <1>7, <1>8

(* What no answer changes, and what only one kind of answer does.           *)
Got(j, late) ==
    \/ GotReset(j) \/ GotRotate(j) \/ GotGateway(j) \/ GotReboot(j) \/ GotShutdown(j) \/ GotAdd(j)
    \/ GotPort(j) \/ GotLoad(j) \/ GotPreflight(j) \/ GotRestart(j)
    \/ GotWait(j, late) \/ GotSources(j) \/ GotCatalogStatus(j) \/ GotToggle(j) \/ GotRemove(j)

LEMMA DeliverIs ==
  ASSUME NEW j, Deliver(j)
  PROVE  /\ UNCHANGED <<srv, left, acts>>
         /\ \E late : Got(j, late) /\ jobs' = (jobs \ {j}) \cup {Numbered(k) : k \in Follow(j, late)}
BY Zenon DEF Deliver, Got

LEMMA SrvNext ==
  ASSUME srv \in SrvType, Requests(jobs), Next
  PROVE  srv' \in SrvType
<1>1. ASSUME NEW j \in jobs, NEW done \in BOOLEAN, NEW ok \in BOOLEAN, Serve(j, done, ok)
      PROVE  srv' \in SrvType
  <2>1. JobOK(j)
    BY DEF Requests
  <2>. QED
    BY <1>1, <2>1, Effects DEF Serve
<1>2. ASSUME NEW j \in jobs, Deliver(j) PROVE srv' \in SrvType
  BY <1>2, DeliverIs
<1>3. ASSUME NEW s \in Services, Cycle(s) PROVE srv' \in SrvType
  <2>1. srv.pids[s] \in 1..MaxPid /\ srv.pids[s] < MaxPid
    BY <1>3 DEF Cycle, SrvType
  <2>2. srv.pids[s] + 1 \in 1..MaxPid
    BY <2>1, NumbersAre
  <2>3. [srv.pids EXCEPT ![s] = @ + 1] \in [Services -> 1..MaxPid]
    BY <2>2 DEF SrvType
  <2>4. srv' = [srv EXCEPT !.pids = [srv.pids EXCEPT ![s] = @ + 1], !.cycling = @ \ {s}]
    BY <1>3 DEF Cycle, SrvType
  <2>. QED
    BY <2>3, <2>4 DEF SrvType
<1>4. CASE ClosePort
  BY <1>4 DEF ClosePort, SrvType
<1>5. CASE GuardArm
  BY <1>5 DEF GuardArm, SrvType
<1>6. CASE Trust /\ ~GuardArm
  BY <1>6 DEF Trust, CheckTrustState, DismissMismatch, GoToWalkthrough, InstallCA, TestHttps, TestFails,
              GuardTLS, GuardSPA, ReadFingerprint, KeepFingerprint, Redirect, ResetTrust, TestGoes
<1>7. CASE Dialog
  BY <1>7, Zenon DEF Dialog, ConfirmRotateCA, OpenRebootModal, OpenShutdownModal, OpenAddModal, Open, Acknowledge,
              CancelRotate, CancelAdd, CloseModal, Cancel, ExecuteRotateCA, ConfirmGatewayRestart,
              ConfirmReboot, ConfirmShutdown, ConfirmAdd, Confirm
<1>8. CASE Reload \/ PortEditor \/ PowerPane \/ CatalogPane \/ \E p \in Panes : OpenPane(p)
  BY <1>8, Zenon DEF Reload, PortEditor, EditPort, RequestPortChange, CancelPortChange, ExecutePortChange, Tick, Probe,
              PowerPane, LoadServices, RestartGateway, DoneFades, DoRestart,
              CatalogPane, LoadSources, ToggleCatalog, RemoveSource, OpenPane
<1>. QED
  BY <1>1, <1>2, <1>3, <1>4, <1>5, <1>6, <1>7, <1>8 DEF Next

LEMMA ForgetIs ==
  ASSUME TrustInv, Forget, UNCHANGED <<device, banner, test, going>>
  PROVE  TrustInv'
BY DEF TrustInv, Forget, WasTrusted

LEMMA TrustStays ==
  ASSUME TrustInv, UNCHANGED trust
  PROVE  TrustInv'
BY Zenon DEF TrustInv, WasTrusted, trust

LEMMA TrustAnswer ==
  ASSUME TrustInv, NEW j, Deliver(j)
  PROVE  TrustInv'
<1>1. PICK late : Got(j, late)
  BY DeliverIs
<1>2. CASE GotReset(j)
  BY <1>2, ForgetIs, TrustStays DEF GotReset, trust
<1>3. CASE GotRotate(j)
  BY <1>3, ForgetIs, TrustStays DEF GotRotate, trust
<1>4. CASE ~GotReset(j) /\ ~GotRotate(j)
  <2>1. UNCHANGED trust
    BY <1>1, <1>4, Zenon DEF Got, GotGateway, GotReboot, GotShutdown, GotAdd, GotPort, GotLoad, GotPreflight,
                      GotRestart, GotWait, GotSources, GotCatalogStatus, GotToggle, GotRemove
  <2>. QED
    BY <2>1, TrustStays
<1>. QED
  BY <1>2, <1>3, <1>4

LEMMA TrustTest ==
  ASSUME TrustInv, srv \in SrvType,
         TestHttps \/ TestFails \/ GuardTLS \/ GuardSPA \/ GuardArm \/ ReadFingerprint \/ KeepFingerprint
  PROVE  TrustInv'
<1>. USE DEF TrustInv, WasTrusted
<1>1. CASE TestHttps
  BY <1>1 DEF TestHttps, NoTest
<1>2. CASE TestFails
  BY <1>2 DEF TestFails, TestGoes
<1>3. CASE GuardTLS
  BY <1>3 DEF GuardTLS, TestGoes
<1>4. CASE GuardSPA
  <2>1. PICK can \in {FALSE, Trusted} : TestGoes([test EXCEPT !.pc = "arm", !.can = can])
    BY <1>4 DEF GuardSPA
  <2>2. can \in BOOLEAN
    BY DEF Trusted
  <2>. QED
    BY <1>4, <2>1, <2>2 DEF GuardSPA, TestGoes
<1>5. CASE GuardArm
  BY <1>5 DEF GuardArm
<1>6. CASE ReadFingerprint
  <2>1. PICK fp \in {None} \cup (IF Trusted THEN {srv.fp} ELSE {}) : TestGoes([test EXCEPT !.pc = "keep", !.fp = fp])
    BY <1>6 DEF ReadFingerprint
  <2>2. WasTrusted(fp)
    BY <2>1 DEF Trusted, SrvType
  <2>3. /\ test' = [test EXCEPT !.pc = "keep", !.fp = fp] /\ test.pc = "read"
        /\ UNCHANGED <<device, kept, banner, going>>
    BY <1>6, <2>1 DEF ReadFingerprint, TestGoes
  <2>. QED
    BY <2>2, <2>3
<1>7. CASE KeepFingerprint
  BY <1>7 DEF KeepFingerprint, TestGoes
<1>. QED
  BY <1>1, <1>2, <1>3, <1>4, <1>5, <1>6, <1>7

LEMMA TrustNext ==
  ASSUME TrustInv, srv \in SrvType, Next
  PROVE  TrustInv'
<1>1. ASSUME NEW j \in jobs, Deliver(j) PROVE TrustInv'
  BY <1>1, TrustAnswer
<1>2. CASE TestHttps \/ TestFails \/ GuardTLS \/ GuardSPA \/ GuardArm \/ ReadFingerprint \/ KeepFingerprint
  BY <1>2, TrustTest
<1>3. CASE CheckTrustState
  BY <1>3 DEF CheckTrustState, TrustInv, WasTrusted, SrvType
<1>4. CASE DismissMismatch
  BY <1>4 DEF DismissMismatch, TrustInv, WasTrusted
<1>5. CASE InstallCA
  BY <1>5 DEF InstallCA, TrustInv, WasTrusted, SrvType
<1>6. CASE GoToWalkthrough \/ Redirect \/ ResetTrust
  BY <1>6, TrustStays DEF GoToWalkthrough, Redirect, ResetTrust
<1>7. ASSUME NEW j \in jobs, NEW done, NEW ok, Serve(j, done, ok) PROVE TrustInv'
  BY <1>7, TrustStays DEF Serve
<1>8. CASE \E s \in Services : Cycle(s)
  BY <1>8, TrustStays DEF Cycle
<1>9. CASE Dialog
  <2>1. UNCHANGED trust
    BY <1>9, Zenon DEF Dialog, ConfirmRotateCA, OpenRebootModal, OpenShutdownModal, OpenAddModal, Open, Acknowledge,
              CancelRotate, CancelAdd, CloseModal, Cancel, ExecuteRotateCA, ConfirmGatewayRestart,
              ConfirmReboot, ConfirmShutdown, ConfirmAdd, Confirm
  <2>. QED
    BY <2>1, TrustStays
<1>10. CASE ClosePort \/ Reload \/ PortEditor \/ PowerPane \/ CatalogPane \/ \E p \in Panes : OpenPane(p)
  <2>1. UNCHANGED trust
    BY <1>10, Zenon DEF ClosePort, Reload, PortEditor, EditPort, RequestPortChange, CancelPortChange,
              ExecutePortChange, Tick, Probe, PowerPane, LoadServices, RestartGateway, DoneFades, DoRestart,
              CatalogPane, LoadSources, ToggleCatalog, RemoveSource, OpenPane
  <2>. QED
    BY <2>1, TrustStays
<1>. QED
  BY <1>1, <1>2, <1>3, <1>4, <1>5, <1>6, <1>7, <1>8, <1>9, <1>10 DEF Next, Trust

LEMMA LeftNext ==
  ASSUME LeftInv, Next, probes \subseteq [to : Ports, left : 1..Tries]
  PROVE  LeftInv'
<1>. DEFINE Spent == acts' \in 0..MaxActs
<1>1. ASSUME UNCHANGED left PROVE left' \in {"here", "https", "reloaded"} /\ left' \notin Ports
  BY <1>1, ConstantsOK DEF Next, LeftInv
<1>2. UNCHANGED acts => Spent
  BY DEF LeftInv
<1>3. Act => Spent
  BY NumbersAre DEF Act, LeftInv
<1>. HIDE DEF Spent
<1>4. ASSUME left' \notin Ports, left' \in {"here", "https", "reloaded"}, Spent PROVE LeftInv'
  BY <1>4 DEF LeftInv, Spent
<1>5. ASSUME NEW p \in probes, Probe(p) PROVE LeftInv'
  <2>1. Spent /\ UNCHANGED srv
    BY <1>2, <1>5 DEF Probe
  <2>2. CASE UNCHANGED left
    BY <1>1, <1>4, <2>1, <2>2
  <2>3. CASE left' = p.to /\ p.to \in {srv.port, srv.closing}
    <3>1. left' \in Ports
      BY <2>3
    <3>. QED
      BY <2>1, <2>3, <3>1 DEF LeftInv, Spent
  <2>. QED
    BY <1>5, <2>2, <2>3 DEF Probe
<1>6. CASE Redirect
  <2>1. left' = "https" /\ Spent
    BY <1>2, <1>6 DEF Redirect
  <2>2. left' \notin Ports
    BY <2>1, ConstantsOK
  <2>. QED
    BY <1>4, <2>1, <2>2
<1>7. CASE Reload
  <2>1. left' = "reloaded" /\ Spent
    BY <1>2, <1>7 DEF Reload
  <2>2. left' \notin Ports
    BY <2>1, ConstantsOK
  <2>. QED
    BY <1>4, <2>1, <2>2
<1>8. ASSUME UNCHANGED left, Spent PROVE LeftInv'
  BY <1>1, <1>4, <1>8
<1>9. CASE Trust /\ ~Redirect
  <2>1. UNCHANGED left /\ (UNCHANGED acts \/ Act)
    BY <1>9, Zenon DEF Trust, CheckTrustState, DismissMismatch, GoToWalkthrough, InstallCA, TestHttps, TestFails,
              GuardTLS, GuardSPA, GuardArm, ReadFingerprint, KeepFingerprint, ResetTrust, TestGoes
  <2>. QED
    BY <1>2, <1>3, <1>8, <2>1
<1>10. CASE Dialog
  <2>1. UNCHANGED left /\ (UNCHANGED acts \/ Act)
    BY <1>10, Zenon DEF Dialog, ConfirmRotateCA, OpenRebootModal, OpenShutdownModal, OpenAddModal, Open, Acknowledge,
              CancelRotate, CancelAdd, CloseModal, Cancel, ExecuteRotateCA, ConfirmGatewayRestart,
              ConfirmReboot, ConfirmShutdown, ConfirmAdd, Confirm
  <2>. QED
    BY <1>2, <1>3, <1>8, <2>1
<1>11. CASE PowerPane \/ CatalogPane \/ ClosePort \/ (\E p \in Panes : OpenPane(p)) \/ \E s \in Services : Cycle(s)
  <2>1. UNCHANGED left /\ (UNCHANGED acts \/ Act)
    BY <1>11, Zenon DEF PowerPane, LoadServices, RestartGateway, DoneFades, DoRestart, Cycle, ClosePort,
              CatalogPane, LoadSources, ToggleCatalog, RemoveSource, OpenPane
  <2>. QED
    BY <1>2, <1>3, <1>8, <2>1
<1>12. CASE PortEditor /\ ~\E p \in probes : Probe(p)
  <2>1. UNCHANGED left /\ (UNCHANGED acts \/ Act)
    BY <1>12, Zenon DEF PortEditor, EditPort, RequestPortChange, CancelPortChange, ExecutePortChange, Tick
  <2>. QED
    BY <1>2, <1>3, <1>8, <2>1
<1>13. ASSUME NEW j, Deliver(j) \/ \E done, ok \in BOOLEAN : Serve(j, done, ok) PROVE LeftInv'
  <2>1. UNCHANGED left /\ UNCHANGED acts
    BY <1>13, DeliverIs, Zenon DEF Serve
  <2>. QED
    BY <1>2, <1>8, <2>1
<1>. QED
  BY <1>5, <1>6, <1>7, <1>9, <1>10, <1>11, <1>12, <1>13, Zenon DEF Next

(***************************************************************************)
(* The port editor: the newest interval runs while the countdown does, and *)
(* a countdown below zero has an older one.                                *)
(***************************************************************************)
EditInv ==
    /\ port \in [current : Ports, input : Ports, confirming : BOOLEAN, seconds : -1..Seconds, handle : Nat]
    /\ clocks \subseteq Nat /\ IsFiniteSet(clocks) /\ probes \subseteq [to : Ports, left : 1..Tries]
    /\ port.seconds > 0 <=> port.handle \in clocks
    /\ port.seconds < 0 => clocks # {}

LEMMA NewClock ==
  ASSUME clocks \subseteq Nat, IsFiniteSet(clocks), NEW h
  PROVE  LET c == CHOOSE n \in 1..(Cardinality(clocks) + 2) : n \notin clocks \cup {h} IN
         c \in Nat /\ c \notin clocks
<1>. DEFINE S == clocks \cup {h}
            b == Cardinality(clocks) + 2
            f == [x \in S |-> IF x \in Nat THEN x ELSE 0]
<1>1. IsFiniteSet(S) /\ Cardinality(S) \in Nat /\ Cardinality(clocks) \in Nat
  BY FS_AddElement, FS_CardinalityType
<1>2. Cardinality(S) <= Cardinality(clocks) + 1
  BY <1>1, FS_AddElement
<1>3. b \in Nat /\ b > Cardinality(S)
  BY <1>1, <1>2
<1>4. f \in [S -> Nat]
  OBVIOUS
<1>5. \A n \in 1..b : n \in S => f[n] = n
  BY <1>3
<1>6. \E n \in 1..b : \A x \in S : f[x] # n
  <2>. HIDE DEF S, b, f
  <2>. QED
    BY <1>1, <1>3, <1>4, OneLeft
<1>7. \E n \in 1..b : n \notin S
  BY <1>5, <1>6
<1>8. (CHOOSE n \in 1..b : n \notin S) \in 1..b /\ (CHOOSE n \in 1..b : n \notin S) \notin S
  BY <1>7
<1>. QED
  BY <1>3, <1>8

LEMMA EditAnswer ==
  ASSUME EditInv, NEW j, Deliver(j)
  PROVE  EditInv'
<1>1. PICK late : Got(j, late)
  BY DeliverIs
<1>2. CASE GotPort(j)
  <2>1. PICK c : c = CHOOSE n \in 1..(Cardinality(clocks) + 2) : n \notin clocks \cup {port.handle}
    OBVIOUS
  <2>2. c \in Nat
    BY <2>1, NewClock DEF EditInv
  <2>3. probes' = probes
    BY <1>2 DEF GotPort
  <2>4. CASE clocks' = clocks \cup {c} /\ port' = [port EXCEPT !.seconds = Seconds, !.handle = c]
    <3>1. IsFiniteSet(clocks \cup {c})
      BY FS_AddElement DEF EditInv
    <3>2. Seconds \in -1..Seconds /\ Seconds > 0
      BY NumbersAre
    <3>3. port' \in [current : Ports, input : Ports, confirming : BOOLEAN, seconds : -1..Seconds, handle : Nat]
      BY <2>2, <2>4, <3>2 DEF EditInv
    <3>4. port'.seconds = Seconds /\ port'.handle = c
      BY <2>4 DEF EditInv
    <3>. QED
      BY <2>2, <2>3, <2>4, <3>1, <3>2, <3>3, <3>4 DEF EditInv
  <2>5. CASE UNCHANGED <<clocks, port>>
    BY <2>3, <2>5 DEF EditInv
  <2>. QED
    BY <1>2, <2>1, <2>4, <2>5 DEF GotPort
<1>3. CASE ~GotPort(j)
  <2>1. UNCHANGED editor
    BY <1>1, <1>3, Zenon DEF Got, GotReset, GotRotate, GotGateway, GotReboot, GotShutdown, GotAdd, GotLoad,
                      GotPreflight, GotRestart, GotWait, GotSources, GotCatalogStatus, GotToggle, GotRemove
  <2>. QED
    BY <2>1 DEF EditInv, editor
<1>. QED
  BY <1>2, <1>3

LEMMA EditPorts ==
  ASSUME EditInv, PortEditor
  PROVE  EditInv'
<1>. DEFINE PortT == [current : Ports, input : Ports, confirming : BOOLEAN, seconds : -1..Seconds, handle : Nat]
<1>1. port \in PortT /\ port.seconds \in -1..Seconds /\ Seconds \in Nat
  BY NumbersAre DEF EditInv
<1>2. ASSUME port' \in PortT, port'.seconds = port.seconds, port'.handle = port.handle, UNCHANGED <<clocks, probes>>
      PROVE  EditInv'
  BY <1>2 DEF EditInv
<1>3. ASSUME NEW p \in Ports, EditPort(p) PROVE EditInv'
  BY <1>1, <1>2, <1>3 DEF EditPort
<1>4. CASE RequestPortChange \/ CancelPortChange \/ ExecutePortChange
  BY <1>1, <1>2, <1>4 DEF RequestPortChange, CancelPortChange, ExecutePortChange
<1>5. ASSUME NEW c \in clocks, Tick(c) PROVE EditInv'
  <2>1. CASE port.seconds > 1 /\ port' = [port EXCEPT !.seconds = @ - 1] /\ UNCHANGED <<clocks, probes>>
    <3>1. port.seconds - 1 \in -1..Seconds /\ port.seconds - 1 > 0 /\ port.seconds > 0
      BY <1>1, <2>1
    <3>2. port' \in PortT /\ port'.seconds = port.seconds - 1 /\ port'.handle = port.handle
      BY <1>1, <2>1, <3>1
    <3>. QED
      BY <2>1, <3>1, <3>2 DEF EditInv
  <2>2. CASE /\ port.seconds <= 1
             /\ port' = [port EXCEPT !.seconds = IF @ = 1 THEN 0 ELSE -1] /\ clocks' = clocks \ {port.handle}
             /\ probes' = probes \cup {[to |-> port.input, left |-> Tries]}
    <3>1. (IF port.seconds = 1 THEN 0 ELSE -1) \in -1..Seconds
      BY <1>1
    <3>2. /\ port' \in PortT /\ port'.seconds = (IF port.seconds = 1 THEN 0 ELSE -1)
          /\ port'.handle = port.handle
      BY <1>1, <2>2, <3>1
    <3>3. probes' \subseteq [to : Ports, left : 1..Tries]
      BY <1>1, <2>2, NumbersAre DEF EditInv
    <3>4. clocks' \subseteq Nat /\ IsFiniteSet(clocks')
      BY <2>2, FS_RemoveElement DEF EditInv
    <3>5. ~(port'.seconds > 0) /\ port'.handle \notin clocks'
      BY <2>2, <3>2
    <3>6. port'.seconds < 0 => clocks' # {}
      <4>. SUFFICES ASSUME port'.seconds < 0 PROVE clocks' # {}
        OBVIOUS
      <4>1. ~(port.seconds > 0)
        BY <1>1, <2>2, <3>2
      <4>2. clocks' = clocks
        BY <2>2, <4>1 DEF EditInv
      <4>. QED
        BY <1>5, <4>2
    <3>. QED
      BY <3>2, <3>3, <3>4, <3>5, <3>6 DEF EditInv
  <2>. QED
    BY <1>5, <2>1, <2>2 DEF Tick
<1>6. ASSUME NEW p \in probes, Probe(p) PROVE EditInv'
  <2>1. UNCHANGED <<port, clocks>>
    BY <1>6 DEF Probe
  <2>2. probes' \subseteq [to : Ports, left : 1..Tries]
    <3>1. p \in [to : Ports, left : 1..Tries]
      BY DEF EditInv
    <3>2. p.left > 1 => [p EXCEPT !.left = @ - 1] \in [to : Ports, left : 1..Tries]
      <4>1. p.left > 1 => p.left - 1 \in 1..Tries
        BY <3>1, NumbersAre
      <4>. QED
        BY <3>1, <4>1
    <3>. QED
      BY <1>6, <3>1, <3>2 DEF Probe, EditInv
  <2>. QED
    BY <2>1, <2>2 DEF EditInv
<1>. QED
  BY <1>3, <1>4, <1>5, <1>6 DEF PortEditor

LEMMA EditNext ==
  ASSUME EditInv, Next
  PROVE  EditInv'
<1>1. ASSUME UNCHANGED editor PROVE EditInv'
  BY <1>1, Zenon DEF EditInv, editor
<1>2. ASSUME NEW j, Deliver(j) PROVE EditInv'
  BY <1>2, EditAnswer
<1>3. CASE PortEditor
  BY <1>3, EditPorts
<1>4. CASE Trust
  BY <1>1, <1>4, Zenon DEF Trust, CheckTrustState, DismissMismatch, GoToWalkthrough, InstallCA, TestHttps, TestFails,
              GuardTLS, GuardSPA, GuardArm, ReadFingerprint, KeepFingerprint, Redirect, ResetTrust, TestGoes
<1>5. CASE Dialog
  BY <1>1, <1>5, Zenon DEF Dialog, ConfirmRotateCA, OpenRebootModal, OpenShutdownModal, OpenAddModal, Open, Acknowledge,
              CancelRotate, CancelAdd, CloseModal, Cancel, ExecuteRotateCA, ConfirmGatewayRestart,
              ConfirmReboot, ConfirmShutdown, ConfirmAdd, Confirm
<1>6. CASE PowerPane \/ CatalogPane \/ ClosePort \/ Reload \/ (\E p \in Panes : OpenPane(p)) \/ \E s \in Services : Cycle(s)
  BY <1>1, <1>6, Zenon DEF PowerPane, LoadServices, RestartGateway, DoneFades, DoRestart, Cycle, ClosePort, Reload,
              CatalogPane, LoadSources, ToggleCatalog, RemoveSource, OpenPane
<1>7. ASSUME NEW j, NEW done, NEW ok, Serve(j, done, ok) PROVE EditInv'
  BY <1>1, <1>7 DEF Serve
<1>. QED
  BY <1>2, <1>3, <1>4, <1>5, <1>6, <1>7, Zenon DEF Next

(***************************************************************************)
(* The dialogs and the panes, and the requests they wait for.              *)
(***************************************************************************)
Modals == [open : BOOLEAN, ack : BOOLEAN, busy : BOOLEAN]
PowerType ==
    [pids : [Services -> 0..MaxPid], loading : BOOLEAN, busy : SUBSET Services, done : SUBSET Services,
     reconnecting : BOOLEAN]
CatalogType ==
    [enabled : BOOLEAN, sources : SUBSET {0, 1}, loading : BOOLEAN, toggling : BOOLEAN, due : BOOLEAN]

DialogsOK(dl, tk, p) ==
    /\ dl \in [Dialogs -> Modals] /\ tk \subseteq Dialogs
    /\ \A d \in Dialogs : /\ dl[d].ack => d \in tk
                          /\ PaneOf(d) \notin {"page", p} => dl[d] = Closed
PowerOK(pw, p, rl) ==
    pw \in PowerType /\ rl \in BOOLEAN /\ (p # "power" => pw = NoPower) /\ (pw.reconnecting => rl)
CatalogOK(ct, p) == ct \in CatalogType /\ (p # "catalog" => ct = NoCatalog)

Owned(js, kinds, for) == \E j \in js : j.kind \in kinds /\ j.for = for
DialogsWait(dl, js) == \A d \in Dialogs : dl[d].busy => Owned(js, {d}, PaneOf(d))
PowerWaits(pw, js) ==
    /\ pw.loading => Owned(js, {"load"}, "power")
    /\ \A s \in pw.busy : \E j \in js : j.kind \in {"restart", "wait"} /\ j.arg = s /\ j.for = "power"
CatalogWaits(ct, js) ==
    /\ ct.loading => Owned(js, {"sources", "status"}, "catalog")
    /\ ct.toggling => Owned(js, {"enable", "disable"}, "catalog")

Addressed(js, p) == Requests(js) /\ \A j \in js : j.for \in {"page", "gone", p}

ScreenInv ==
    /\ pane \in Panes /\ Addressed(jobs, pane)
    /\ DialogsOK(dlg, ticked, pane) /\ DialogsWait(dlg, jobs)
    /\ PowerOK(power, pane, reload) /\ PowerWaits(power, jobs)
    /\ CatalogOK(catalog, pane) /\ CatalogWaits(catalog, jobs)

(* Whoever waits for one of these requests waits for one of those.          *)
Carried(js, ks) == \A j \in js : \E k \in ks : k.kind = j.kind /\ k.arg = j.arg /\ k.for = j.for

LEMMA WaitsCarried ==
  ASSUME NEW js, NEW ks, Carried(js, ks)
  PROVE  /\ \A dl : DialogsWait(dl, js) => DialogsWait(dl, ks)
         /\ \A pw : PowerWaits(pw, js) => PowerWaits(pw, ks)
         /\ \A ct : CatalogWaits(ct, js) => CatalogWaits(ct, ks)
<1>1. \A K, f : Owned(js, K, f) => Owned(ks, K, f)
  BY DEF Carried, Owned
<1>2. \A pw : PowerWaits(pw, js) => PowerWaits(pw, ks)
  <2>. TAKE pw
  <2>. SUFFICES ASSUME PowerWaits(pw, js) PROVE PowerWaits(pw, ks)
    OBVIOUS
  <2>1. ASSUME NEW s \in pw.busy
        PROVE  \E j \in ks : j.kind \in {"restart", "wait"} /\ j.arg = s /\ j.for = "power"
    BY DEF PowerWaits, Carried
  <2>. QED
    BY <1>1, <2>1 DEF PowerWaits
<1>. QED
  BY <1>1, <1>2 DEF DialogsWait, CatalogWaits

LEMMA SentIs ==
  ASSUME ScreenInv, NEW kind, NEW arg, NEW for, Sent(jobs, jobs', kind, arg, for), for \in {"page", pane}
  PROVE  /\ Addressed(jobs', pane) /\ Carried(jobs, jobs')
         /\ \E x \in jobs' : x.kind = kind /\ x.arg = arg /\ x.for = for
BY DEF ScreenInv, Addressed, Sent, Carried

(* Steps that leave the screen as it is.                                    *)
LEMMA ScreenStays ==
  ASSUME ScreenInv, UNCHANGED <<dialogs, panes>>, Addressed(jobs', pane), Carried(jobs, jobs')
  PROVE  ScreenInv'
BY WaitsCarried DEF ScreenInv, dialogs, panes

LEMMA ScreenFrame ==
  ASSUME ScreenInv, UNCHANGED <<dialogs, panes, jobs>>
  PROVE  ScreenInv'
<1>1. Carried(jobs, jobs') /\ Addressed(jobs', pane)
  BY DEF Carried, ScreenInv
<1>. QED
  BY <1>1, ScreenStays

LEMMA ScreenServe ==
  ASSUME ScreenInv, srv \in SrvType, srv' \in SrvType, NEW j \in jobs, NEW done, NEW ok, Serve(j, done, ok)
  PROVE  ScreenInv'
<1>1. PICK st : st = IF ok THEN "ok" ELSE "bad"
  OBVIOUS
<1>2. PICK got : got = IF ok /\ j.kind \in Reads THEN Content ELSE Nothing
  OBVIOUS
<1>3. PICK x : x = [j EXCEPT !.state = st, !.got = got]
  OBVIOUS
<1>4. jobs' = (jobs \ {j}) \cup {x} /\ UNCHANGED <<dialogs, panes>>
  BY <1>1, <1>2, <1>3 DEF Serve
<1>5. Content \in [pids : [Services -> 0..MaxPid], sources : SUBSET {0, 1}, on : BOOLEAN]
  <2>1. srv.pids \in [Services -> 0..MaxPid]
    <3>1. srv.pids \in [Services -> 1..MaxPid]
      BY DEF SrvType
    <3>2. 1..MaxPid \subseteq 0..MaxPid
      BY NumbersAre
    <3>. QED
      BY <3>1, <3>2
  <2>. QED
    BY <2>1 DEF Content, SrvType
<1>6. AnswerOf(x, j)
  <2>1. st \in {"ok", "bad"} /\ got \in [pids : [Services -> 0..MaxPid], sources : SUBSET {0, 1}, on : BOOLEAN]
    BY <1>1, <1>2, <1>5, NothingIs
  <2>. QED
    BY <1>3, <2>1 DEF AnswerOf
<1>7. Requests((jobs \ {j}) \cup {x}) /\ x.kind = j.kind /\ x.arg = j.arg /\ x.for = j.for
  <2>1. Requests(jobs)
    BY DEF ScreenInv, Addressed
  <2>. QED
    BY <1>6, <2>1, ServedIs
<1>8. Addressed(jobs', pane) /\ Carried(jobs, jobs')
  BY <1>4, <1>7 DEF ScreenInv, Addressed, Carried
<1>. QED
  BY <1>4, <1>8, ScreenStays

(* One dialog is changed by the user.                                       *)
LEMMA DialogSet ==
  ASSUME ScreenInv, UNCHANGED panes, NEW d \in Dialogs, PaneOf(d) \in {"page", pane},
         NEW m \in Modals, dlg' = [dlg EXCEPT ![d] = m], m.ack => d \in ticked',
         ticked' \subseteq Dialogs, ticked \ {d} \subseteq ticked',
         Addressed(jobs', pane), Carried(jobs, jobs'),
         m.busy => dlg[d].busy \/ Owned(jobs', {d}, PaneOf(d))
  PROVE  ScreenInv'
<1>1. DialogsOK(dlg', ticked', pane)
  BY DEF ScreenInv, DialogsOK
<1>2. DialogsWait(dlg, jobs')
  BY WaitsCarried DEF ScreenInv
<1>3. DialogsWait(dlg', jobs')
  BY <1>2 DEF ScreenInv, DialogsOK, DialogsWait
<1>. QED
  BY <1>1, <1>3, WaitsCarried DEF ScreenInv, panes

LEMMA OpenAckSet ==
  ASSUME dlg \in [Dialogs -> Modals], NEW d \in Dialogs, NEW o, NEW a,
         NEW e, e = [dlg EXCEPT ![d].open = o, ![d].ack = a]
  PROVE  e = [dlg EXCEPT ![d] = [open |-> o, ack |-> a, busy |-> dlg[d].busy]]
<1>1. PICK m : m = [open |-> o, ack |-> a, busy |-> dlg[d].busy]
  OBVIOUS
<1>2. e[d] = m
  BY <1>1 DEF Modals
<1>3. DOMAIN e = Dialogs /\ \A x \in Dialogs : x # d => e[x] = dlg[x]
  OBVIOUS
<1>4. e = [x \in Dialogs |-> e[x]]
  OBVIOUS
<1>. QED
  BY <1>1, <1>2, <1>3, <1>4

LEMMA OpenIsHere ==
  ASSUME ScreenInv, NEW d \in Dialogs, dlg[d].open
  PROVE  PaneOf(d) \in {"page", pane}
BY DEF ScreenInv, DialogsOK, Closed

LEMMA SameJobs ==
  ASSUME ScreenInv, UNCHANGED jobs
  PROVE  Addressed(jobs', pane) /\ Carried(jobs, jobs')
BY DEF ScreenInv, Carried

LEMMA ScreenDialog ==
  ASSUME ScreenInv, Dialog
  PROVE  ScreenInv'
<1>1. dlg \in [Dialogs -> Modals] /\ ticked \subseteq Dialogs /\ \A d \in Dialogs : dlg[d].ack => d \in ticked
  BY DEF ScreenInv, DialogsOK
<1>2. ASSUME NEW d \in Dialogs, Open(d), PaneOf(d) \in {"page", pane} PROVE ScreenInv'
  <2>1. PICK m : m = [open |-> TRUE, ack |-> FALSE, busy |-> dlg[d].busy]
    OBVIOUS
  <2>2. m \in Modals /\ m.busy = dlg[d].busy /\ ~m.ack
    BY <1>1, <2>1 DEF Modals
  <2>3. dlg' = [dlg EXCEPT ![d] = m]
    BY <1>1, <1>2, <2>1, OpenAckSet DEF Open, Opened
  <2>4. ticked' = ticked \ {d} /\ UNCHANGED <<panes, jobs>>
    BY <1>2 DEF Open, Opened
  <2>. QED
    BY <1>1, <1>2, <2>2, <2>3, <2>4, SameJobs, DialogSet
<1>3. CASE ConfirmRotateCA \/ OpenRebootModal \/ OpenShutdownModal \/ OpenAddModal
  <2>1. \E d \in Dialogs : Open(d) /\ PaneOf(d) \in {"page", pane}
    BY <1>3 DEF ConfirmRotateCA, OpenRebootModal, OpenShutdownModal, OpenAddModal, PaneOf, HostShown, AddShown, Dialogs
  <2>. QED
    BY <1>2, <2>1
<1>4. ASSUME NEW d \in Dialogs, Acknowledge(d) PROVE ScreenInv'
  <2>1. PICK m : m = [dlg[d] EXCEPT !.ack = ~dlg[d].ack]
    OBVIOUS
  <2>2. m \in Modals /\ m.busy = dlg[d].busy /\ m.ack = ~dlg[d].ack
    BY <1>1, <2>1 DEF Modals
  <2>3. dlg' = [dlg EXCEPT ![d] = m]
    BY <1>1, <1>4, <2>1 DEF Acknowledge, Modals
  <2>4. /\ ticked' = (IF dlg[d].ack THEN ticked \ {d} ELSE ticked \cup {d}) /\ UNCHANGED <<panes, jobs>>
        /\ dlg[d].open
    BY <1>4 DEF Acknowledge
  <2>5. (m.ack => d \in ticked') /\ ticked' \subseteq Dialogs /\ ticked \ {d} \subseteq ticked'
    BY <1>1, <2>2, <2>4
  <2>. QED
    BY <2>2, <2>3, <2>4, <2>5, OpenIsHere, SameJobs, DialogSet
<1>5. ASSUME NEW d \in Dialogs, NEW ack, Cancel(d, ack), ack \in {FALSE, dlg[d].ack} PROVE ScreenInv'
  <2>1. PICK m : m = [open |-> FALSE, ack |-> ack, busy |-> dlg[d].busy]
    OBVIOUS
  <2>2. m \in Modals /\ m.busy = dlg[d].busy /\ (m.ack => dlg[d].ack)
    BY <1>1, <1>5, <2>1 DEF Modals
  <2>3. dlg' = [dlg EXCEPT ![d] = m]
    BY <1>1, <1>5, <2>1, OpenAckSet DEF Cancel
  <2>4. UNCHANGED <<ticked, panes, jobs>> /\ dlg[d].open
    BY <1>5 DEF Cancel
  <2>. QED
    BY <1>1, <2>2, <2>3, <2>4, OpenIsHere, SameJobs, DialogSet
<1>6. CASE CancelRotate \/ CancelAdd \/ CloseModal
  <2>1. \E d \in Dialogs : \E ack \in {FALSE, dlg[d].ack} : Cancel(d, ack)
    BY <1>6 DEF CancelRotate, CancelAdd, CloseModal, Dialogs
  <2>. QED
    BY <1>5, <2>1
<1>7. ASSUME NEW d \in Dialogs, Confirm(d) PROVE ScreenInv'
  <2>1. PICK m : m = [dlg[d] EXCEPT !.busy = TRUE]
    OBVIOUS
  <2>2. m \in Modals /\ m.busy /\ m.ack = dlg[d].ack
    BY <1>1, <2>1 DEF Modals
  <2>3. dlg' = [dlg EXCEPT ![d] = m]
    BY <1>1, <1>7, <2>1 DEF Confirm, Modals
  <2>4. UNCHANGED <<ticked, panes>> /\ dlg[d].open /\ Ask(d, None, None, PaneOf(d))
    BY <1>7 DEF Confirm
  <2>5. PaneOf(d) \in {"page", pane}
    BY <2>4, OpenIsHere
  <2>6. MayAsk(d, None, None, PaneOf(d))
    BY HomeIs, NumbersAre DEF MayAsk, Kinds, Fits, Args, None, Dialogs
  <2>7. Sent(jobs, jobs', d, None, PaneOf(d))
    BY <2>4, <2>6, AskedIs DEF ScreenInv, Addressed
  <2>8. Addressed(jobs', pane) /\ Carried(jobs, jobs') /\ Owned(jobs', {d}, PaneOf(d))
    BY <2>5, <2>7, SentIs DEF Owned
  <2>. QED
    BY <1>1, <2>2, <2>3, <2>4, <2>5, <2>8, DialogSet
<1>8. CASE ExecuteRotateCA \/ ConfirmGatewayRestart \/ ConfirmReboot \/ ConfirmShutdown \/ ConfirmAdd
  <2>1. \E d \in Dialogs : Confirm(d)
    BY <1>8 DEF ExecuteRotateCA, ConfirmGatewayRestart, ConfirmReboot, ConfirmShutdown, ConfirmAdd, Dialogs
  <2>. QED
    BY <1>7, <2>1
<1>. QED
  BY <1>3, <1>4, <1>6, <1>8 DEF Dialog

(***************************************************************************)
(* An answer: what was waited for has come or is asked for again.          *)
(***************************************************************************)
Told(j) == JobOK(j) /\ (j.for = "gone" \/ (j.for = Home(j.kind) /\ j.for \in {"page", pane}))

LEMMA AnswerIs ==
  ASSUME ScreenInv, NEW j \in jobs, NEW late, Got(j, late),
         jobs' = (jobs \ {j}) \cup {Numbered(k) : k \in Follow(j, late)}
  PROVE  /\ Told(j) /\ pane' = pane /\ jobs \ {j} \subseteq jobs' /\ Addressed(jobs', pane)
         /\ Continues(j, late) => \E x \in jobs' : x.kind = NextKind(j) /\ x.arg = NextArg(j) /\ x.for = j.for
<1>1. Requests(jobs) /\ j.for \in {"page", "gone", pane} /\ \A x \in jobs : x.for \in {"page", "gone", pane}
  BY DEF ScreenInv, Addressed
<1>2. Told(j)
  BY <1>1 DEF Told, Requests, JobOK, Fits
<1>3. pane' = pane
  BY Zenon DEF Got, GotReset, GotRotate, GotGateway, GotReboot, GotShutdown, GotAdd, GotPort, GotLoad, GotPreflight,
               GotRestart, GotWait, GotSources, GotCatalogStatus, GotToggle, GotRemove, panes
<1>4. /\ Requests(jobs') /\ jobs \ {j} \subseteq jobs'
      /\ \A x \in jobs' \ jobs : x.for = j.for
      /\ Continues(j, late) => \E x \in jobs' : x.kind = NextKind(j) /\ x.arg = NextArg(j) /\ x.for = j.for
  BY <1>1, DeliveredIs
<1>5. Addressed(jobs', pane)
  BY <1>1, <1>4 DEF Addressed
<1>. QED
  BY <1>2, <1>3, <1>4, <1>5

(* Only who waits for this request may wait in vain.                        *)
LEMMA OthersWait ==
  ASSUME NEW j, jobs \ {j} \subseteq jobs'
  PROVE  \A K, f : Owned(jobs, K, f) => Owned(jobs', K, f) \/ (j.kind \in K /\ j.for = f)
BY DEF Owned

LEMMA DialogsAnswered ==
  ASSUME ScreenInv, NEW j, Told(j), NEW late, Got(j, late), jobs \ {j} \subseteq jobs'
  PROVE  DialogsOK(dlg', ticked', pane) /\ DialogsWait(dlg', jobs')
<1>1. DialogsOK(dlg, ticked, pane) /\ DialogsWait(dlg, jobs) /\ dlg \in [Dialogs -> Modals]
  BY DEF ScreenInv, DialogsOK
<1>2. \A d \in Dialogs : dlg[d].busy => Owned(jobs', {d}, PaneOf(d)) \/ (j.kind = d /\ j.for = PaneOf(d))
  BY <1>1, OthersWait DEF DialogsWait
<1>3. \A d \in Dialogs : PaneOf(d) # "gone"
  BY DEF PaneOf
<1>4. CASE j.kind \in Dialogs
  <2>1. Answered(j) /\ ticked' = ticked
    BY <1>4, Zenon DEF Dialogs, Got, GotReset, GotRotate, GotGateway, GotReboot, GotShutdown, GotAdd, GotPort, GotLoad,
       GotPreflight, GotRestart, GotWait, GotSources, GotCatalogStatus, GotToggle, GotRemove, Reads, dialogs
  <2>2. CASE j.for = "gone"
    BY <1>1, <1>2, <1>3, <2>1, <2>2 DEF Answered, DialogsWait
  <2>3. CASE j.for # "gone"
    <3>1. PICK m : m = IF j.state = "ok" THEN Closed ELSE [dlg[j.kind] EXCEPT !.busy = FALSE]
      OBVIOUS
    <3>2. m \in Modals /\ ~m.busy /\ (m.ack => dlg[j.kind].ack)
      BY <1>1, <1>4, <3>1 DEF Modals, Closed
    <3>3. dlg' = [dlg EXCEPT ![j.kind] = m]
      BY <2>1, <2>3, <3>1 DEF Answered
    <3>4. PaneOf(j.kind) \in {"page", pane}
      BY <1>4, <2>3, HomeIs DEF Told
    <3>5. DialogsOK(dlg', ticked', pane)
      BY <1>1, <1>4, <2>1, <3>2, <3>3, <3>4 DEF DialogsOK
    <3>6. DialogsWait(dlg', jobs')
      BY <1>1, <1>2, <1>4, <3>2, <3>3 DEF DialogsWait
    <3>. QED
      BY <3>5, <3>6
  <2>. QED
    BY <2>2, <2>3
<1>5. CASE GotPreflight(j) /\ j.for # "gone"
  <2>1. j.kind = "preflight" /\ Opened("gateway")
    BY <1>5 DEF GotPreflight
  <2>2. PICK m : m = [open |-> TRUE, ack |-> FALSE, busy |-> dlg["gateway"].busy]
    OBVIOUS
  <2>3. "gateway" \in Dialogs /\ PaneOf("gateway") = "power"
    BY DEF Dialogs, PaneOf
  <2>4. dlg' = [dlg EXCEPT !["gateway"] = m] /\ ticked' = ticked \ {"gateway"}
    BY <1>1, <2>1, <2>2, <2>3, OpenAckSet DEF Opened
  <2>5. pane = "power"
    BY <1>5, <2>1 DEF Told, Home, PageKinds, CatalogKinds
  <2>6. m \in Modals /\ m.busy = dlg["gateway"].busy /\ ~m.ack
    BY <1>1, <2>2, <2>3 DEF Modals
  <2>7. DialogsOK(dlg', ticked', pane)
    BY <1>1, <2>3, <2>4, <2>5, <2>6 DEF DialogsOK
  <2>8. \A d \in Dialogs : dlg[d].busy => Owned(jobs', {d}, PaneOf(d))
    BY <1>2, <2>1 DEF Dialogs
  <2>9. DialogsWait(dlg', jobs')
    BY <1>1, <2>3, <2>4, <2>6, <2>8 DEF DialogsWait
  <2>. QED
    BY <2>7, <2>9
<1>6. CASE j.kind \notin Dialogs /\ ~(GotPreflight(j) /\ j.for # "gone")
  <2>1. UNCHANGED dialogs
    BY <1>6, Zenon DEF Dialogs, Got, GotReset, GotRotate, GotGateway, GotReboot, GotShutdown, GotAdd, GotPort, GotLoad,
       GotPreflight, GotRestart, GotWait, GotSources, GotCatalogStatus, GotToggle, GotRemove, Reads
  <2>2. dlg' = dlg /\ ticked' = ticked
    BY <2>1 DEF dialogs
  <2>3. \A d \in Dialogs : dlg[d].busy => Owned(jobs', {d}, PaneOf(d))
    BY <1>2, <1>6
  <2>. QED
    BY <1>1, <2>2, <2>3 DEF DialogsWait
<1>. QED
  BY <1>4, <1>5, <1>6

(* A restart that was begun is waited for, or asked for again.              *)
Restarting(s, js) == \E k \in js : k.kind \in {"restart", "wait"} /\ k.arg = s /\ k.for = "power"

LEMMA PowerAnswered ==
  ASSUME ScreenInv, NEW j \in jobs, Told(j), j.state \in {"ok", "bad"},
         NEW late, Got(j, late), jobs \ {j} \subseteq jobs',
         Continues(j, late) => \E x \in jobs' : x.kind = NextKind(j) /\ x.arg = NextArg(j) /\ x.for = j.for
  PROVE  PowerOK(power', pane, reload') /\ PowerWaits(power', jobs')
<1>1. /\ PowerOK(power, pane, reload) /\ PowerWaits(power, jobs) /\ power \in PowerType
      /\ power.busy \subseteq Services /\ reload \in BOOLEAN
  BY DEF ScreenInv, PowerOK, PowerType
<1>2. power.loading => Owned(jobs', {"load"}, "power") \/ (j.kind = "load" /\ j.for = "power")
  <2>1. Owned(jobs, {"load"}, "power") => Owned(jobs', {"load"}, "power") \/ (j.kind = "load" /\ j.for = "power")
    BY OthersWait
  <2>. QED
    BY <1>1, <2>1 DEF PowerWaits
<1>3. \A s \in power.busy : Restarting(s, jobs') \/ (j.kind \in {"restart", "wait"} /\ j.arg = s /\ j.for = "power")
  BY <1>1 DEF PowerWaits, Restarting
<1>4. j.kind \in {"restart", "wait"} /\ Continues(j, late) /\ j.for = "power" => Restarting(j.arg, jobs')
  BY DEF Restarting, NextKind, NextArg
<1>5. j.kind \in {"load", "restart", "wait", "gateway"} /\ j.for # "gone" => j.for = "power" /\ pane = "power"
  BY DEF Told, Home, PageKinds, CatalogKinds
<1>6. j.got.pids \in [Services -> 0..MaxPid]
  BY DEF Told, JobOK, JobType
<1>7. ASSUME power' = power, reload' \in BOOLEAN, reload => reload',
             j.for = "gone" \/ j.kind \notin {"load", "restart", "wait"}
      PROVE  PowerOK(power', pane, reload') /\ PowerWaits(power', jobs')
  <2>1. (power.loading => Owned(jobs', {"load"}, "power")) /\ \A s \in power.busy : Restarting(s, jobs')
    BY <1>2, <1>3, <1>7
  <2>. QED
    BY <1>1, <1>7, <2>1 DEF PowerOK, PowerWaits, Restarting
<1>8. CASE j.kind \notin {"load", "restart", "wait", "gateway"}
  <2>1. UNCHANGED <<power, reload>>
    BY <1>8, Zenon DEF Got, GotReset, GotRotate, GotGateway, GotReboot, GotShutdown, GotAdd, GotPort, GotLoad,
       GotPreflight, GotRestart, GotWait, GotSources, GotCatalogStatus, GotToggle, GotRemove, panes
  <2>. QED
    BY <1>1, <1>7, <1>8, <2>1
<1>9. CASE j.kind = "gateway"
  <2>1. GotGateway(j)
    BY <1>9 DEF Got, GotReset, GotRotate, GotReboot, GotShutdown, GotAdd, GotPort, GotLoad,
       GotPreflight, GotRestart, GotWait, GotSources, GotCatalogStatus, GotToggle, GotRemove
  <2>2. PICK r : r = (power.reconnecting \/ (j.state = "ok" /\ j.for # "gone"))
    OBVIOUS
  <2>3. r \in BOOLEAN /\ power' = [power EXCEPT !.reconnecting = r] /\ reload' = (reload \/ j.state = "ok")
    BY <2>1, <2>2 DEF GotGateway
  <2>4. CASE j.for = "gone"
    <3>1. power' = power
      BY <1>1, <2>2, <2>3, <2>4 DEF PowerType
    <3>. QED
      BY <1>1, <1>7, <2>3, <2>4, <3>1
  <2>5. CASE j.for # "gone"
    <3>1. /\ power' \in PowerType /\ power'.loading = power.loading /\ power'.busy = power.busy
          /\ power'.reconnecting = r
      BY <1>1, <2>3 DEF PowerType
    <3>2. reload' \in BOOLEAN /\ (r => reload')
      BY <1>1, <2>2, <2>3 DEF PowerOK
    <3>3. PowerOK(power', pane, reload')
      BY <1>5, <1>9, <2>5, <3>1, <3>2 DEF PowerOK
    <3>. QED
      BY <1>2, <1>3, <1>9, <3>1, <3>3 DEF PowerWaits, Restarting
  <2>. QED
    BY <2>4, <2>5
<1>10. CASE j.kind \in {"load", "restart", "wait"}
  <2>1. (GotLoad(j) \/ GotRestart(j) \/ GotWait(j, late)) /\ reload' = reload
    BY <1>10 DEF Got, GotReset, GotRotate, GotGateway, GotReboot, GotShutdown, GotAdd, GotPort, GotLoad,
       GotPreflight, GotRestart, GotWait, GotSources, GotCatalogStatus, GotToggle, GotRemove, Reads
  <2>2. CASE j.for = "gone"
    <3>1. power' = power
      BY <2>1, <2>2 DEF GotLoad, GotRestart, GotWait
    <3>. QED
      BY <1>1, <1>7, <2>1, <2>2, <3>1
  <2>3. CASE j.for # "gone"
    <3>1. j.for = "power" /\ pane = "power"
      BY <1>5, <1>10, <2>3
    <3>2. ASSUME power' \in PowerType, power'.reconnecting = power.reconnecting PROVE PowerOK(power', pane, reload')
      BY <1>1, <2>1, <3>1, <3>2 DEF PowerOK
    <3>3. CASE GotLoad(j)
      <4>1. PICK pids : pids = IF j.state = "ok" THEN j.got.pids ELSE power.pids
        OBVIOUS
      <4>2. pids \in [Services -> 0..MaxPid]
        BY <1>1, <1>6, <4>1 DEF PowerType
      <4>3. j.kind = "load" /\ power' = [power EXCEPT !.pids = pids, !.loading = FALSE]
        BY <2>3, <3>3, <4>1 DEF GotLoad
      <4>4. /\ power' \in PowerType /\ power'.reconnecting = power.reconnecting /\ ~power'.loading
            /\ power'.busy = power.busy
        BY <1>1, <4>2, <4>3 DEF PowerType
      <4>. QED
        BY <1>3, <3>2, <4>3, <4>4 DEF PowerWaits, Restarting
    <3>4. CASE GotRestart(j)
      <4>1. PICK b : b = IF j.state = "bad" THEN power.busy \ {j.arg} ELSE power.busy
        OBVIOUS
      <4>2. j.kind = "restart" /\ power' = [power EXCEPT !.busy = b]
        BY <1>1, <2>3, <3>4, <4>1 DEF GotRestart, PowerType
      <4>3. b \subseteq Services
        BY <1>1, <4>1
      <4>4. /\ power' \in PowerType /\ power'.reconnecting = power.reconnecting /\ power'.loading = power.loading
            /\ power'.busy = b
        BY <1>1, <4>2, <4>3 DEF PowerType
      <4>5. j.state = "bad" \/ Continues(j, late)
        BY <4>2 DEF Continues
      <4>6. \A s \in b : Restarting(s, jobs')
        BY <1>3, <1>4, <3>1, <4>1, <4>2, <4>5
      <4>. QED
        BY <1>2, <3>2, <4>2, <4>4, <4>6 DEF PowerWaits, Restarting
    <3>5. CASE GotWait(j, late)
      <4>1. PICK pids : pids = IF j.state = "ok" THEN j.got.pids ELSE power.pids
        OBVIOUS
      <4>2. PICK b : b = IF Cycled(j) \/ late THEN power.busy \ {j.arg} ELSE power.busy
        OBVIOUS
      <4>3. PICK dn : dn = IF Cycled(j) \/ late THEN power.done \cup {j.arg} ELSE power.done
        OBVIOUS
      <4>4. pids \in [Services -> 0..MaxPid] /\ b \subseteq Services
        BY <1>1, <1>6, <4>1, <4>2 DEF PowerType
      <4>5. j.kind = "wait" /\ j.arg \in Services
        BY <3>5 DEF GotWait, Told, JobOK, Fits
      <4>6. dn \subseteq Services
        BY <1>1, <4>3, <4>5 DEF PowerType
      <4>7. power' = [power EXCEPT !.pids = pids, !.busy = b, !.done = dn]
        <5>1. PICK seen : seen = IF j.state = "ok" THEN [power EXCEPT !.pids = j.got.pids] ELSE power
          OBVIOUS
        <5>2. seen = [power EXCEPT !.pids = pids]
          BY <1>1, <4>1, <5>1 DEF PowerType
        <5>3. seen.busy = power.busy /\ seen.done = power.done
          BY <1>1, <5>2 DEF PowerType
        <5>4. power' = IF Cycled(j) \/ late THEN [seen EXCEPT !.busy = @ \ {j.arg}, !.done = @ \cup {j.arg}] ELSE seen
          BY <2>3, <3>5, <5>1 DEF GotWait
        <5>. QED
          BY <1>1, <4>2, <4>3, <5>2, <5>3, <5>4 DEF PowerType
      <4>8. /\ power' \in PowerType /\ power'.reconnecting = power.reconnecting /\ power'.loading = power.loading
            /\ power'.busy = b
        BY <1>1, <4>4, <4>6, <4>7 DEF PowerType
      <4>9. (Cycled(j) \/ late) \/ Continues(j, late)
        BY <4>5 DEF Continues
      <4>10. \A s \in b : Restarting(s, jobs')
        BY <1>3, <1>4, <3>1, <4>2, <4>5, <4>9
      <4>. QED
        BY <1>2, <3>2, <4>5, <4>8, <4>10 DEF PowerWaits, Restarting
    <3>. QED
      BY <2>1, <3>3, <3>4, <3>5
  <2>. QED
    BY <2>2, <2>3
<1>. QED
  BY <1>8, <1>9, <1>10

LEMMA CatalogAnswered ==
  ASSUME ScreenInv, NEW j \in jobs, Told(j), j.state \in {"ok", "bad"},
         NEW late, Got(j, late), jobs \ {j} \subseteq jobs',
         Continues(j, late) => \E x \in jobs' : x.kind = NextKind(j) /\ x.arg = NextArg(j) /\ x.for = j.for
  PROVE  CatalogOK(catalog', pane) /\ CatalogWaits(catalog', jobs')
<1>. DEFINE Loads == {"sources", "status"}
            Toggles == {"enable", "disable"}
            Told1 == {"add", "sources", "status", "enable", "disable", "remove"}
<1>1. CatalogOK(catalog, pane) /\ CatalogWaits(catalog, jobs) /\ catalog \in CatalogType
  BY DEF ScreenInv, CatalogOK
<1>2. catalog.loading => Owned(jobs', Loads, "catalog") \/ (j.kind \in Loads /\ j.for = "catalog")
  <2>1. Owned(jobs, Loads, "catalog") => Owned(jobs', Loads, "catalog") \/ (j.kind \in Loads /\ j.for = "catalog")
    BY OthersWait
  <2>. QED
    BY <1>1, <2>1 DEF CatalogWaits
<1>3. catalog.toggling => Owned(jobs', Toggles, "catalog") \/ (j.kind \in Toggles /\ j.for = "catalog")
  <2>1. Owned(jobs, Toggles, "catalog") => Owned(jobs', Toggles, "catalog") \/ (j.kind \in Toggles /\ j.for = "catalog")
    BY OthersWait
  <2>. QED
    BY <1>1, <2>1 DEF CatalogWaits
<1>4. j.kind \in {"sources", "remove"} /\ j.state = "ok" /\ j.for = "catalog" => Owned(jobs', Loads, "catalog")
  BY DEF Owned, Continues, NextKind
<1>5. j.kind \in Told1 /\ j.for # "gone" => j.for = "catalog" /\ pane = "catalog"
  BY DEF Told, Home, PageKinds, CatalogKinds
<1>6. j.got.sources \in SUBSET {0, 1} /\ j.got.on \in BOOLEAN
  BY DEF Told, JobOK, JobType
<1>7. CASE j.for = "gone" \/ j.kind \notin Told1
  <2>1. catalog' = catalog
    <3>1. CASE j.kind = "add"
      <4>1. catalog' = [catalog EXCEPT !.due = catalog.due \/ FALSE] /\ catalog.due \in BOOLEAN
        BY <1>1, <1>7, <3>1 DEF Got, GotReset, GotRotate, GotGateway, GotReboot, GotShutdown, GotAdd, GotPort, GotLoad,
           GotPreflight, GotRestart, GotWait, GotSources, GotCatalogStatus, GotToggle, GotRemove, CatalogType
      <4>. QED
        BY <1>1, <4>1 DEF CatalogType
    <3>2. CASE j.kind # "add" /\ j.for = "gone"
      BY <3>2, Zenon DEF Got, GotReset, GotRotate, GotGateway, GotReboot, GotShutdown, GotAdd, GotPort, GotLoad,
         GotPreflight, GotRestart, GotWait, GotSources, GotCatalogStatus, GotToggle, GotRemove, panes
    <3>3. CASE j.kind \notin Told1
      BY <3>3, Zenon DEF Got, GotReset, GotRotate, GotGateway, GotReboot, GotShutdown, GotAdd, GotPort, GotLoad,
         GotPreflight, GotRestart, GotWait, GotSources, GotCatalogStatus, GotToggle, GotRemove, panes
    <3>. QED
      BY <1>7, <3>1, <3>2, <3>3
  <2>2. j.for # "catalog" \/ j.kind \notin Told1
    BY <1>7
  <2>3. (catalog.loading => Owned(jobs', Loads, "catalog")) /\ (catalog.toggling => Owned(jobs', Toggles, "catalog"))
    BY <1>2, <1>3, <2>2
  <2>. QED
    BY <1>1, <2>1, <2>3 DEF CatalogWaits
<1>8. CASE j.for # "gone" /\ j.kind \in Told1
  <2>1. j.for = "catalog" /\ pane = "catalog"
    BY <1>5, <1>8
  <2>2. ASSUME catalog' \in CatalogType, catalog'.loading => Owned(jobs', Loads, "catalog"),
               catalog'.toggling => Owned(jobs', Toggles, "catalog")
        PROVE  CatalogOK(catalog', pane) /\ CatalogWaits(catalog', jobs')
    BY <2>1, <2>2 DEF CatalogOK, CatalogWaits
  <2>3. CASE GotAdd(j)
    <3>1. PICK due : due = (catalog.due \/ (j.state = "ok" /\ j.for # "gone"))
      OBVIOUS
    <3>2. j.kind = "add" /\ catalog' = [catalog EXCEPT !.due = due] /\ due \in BOOLEAN
      BY <2>3, <3>1 DEF GotAdd
    <3>3. catalog' \in CatalogType /\ catalog'.loading = catalog.loading /\ catalog'.toggling = catalog.toggling
      BY <1>1, <3>2 DEF CatalogType
    <3>. QED
      BY <1>2, <1>3, <2>2, <3>2, <3>3
  <2>4. CASE GotSources(j)
    <3>1. /\ j.kind = "sources"
          /\ catalog' = IF j.state = "ok" THEN [catalog EXCEPT !.sources = j.got.sources] ELSE [catalog EXCEPT !.loading = FALSE]
      BY <1>8, <2>4 DEF GotSources
    <3>2. CASE j.state = "ok"
      <4>1. catalog' \in CatalogType /\ catalog'.loading = catalog.loading /\ catalog'.toggling = catalog.toggling
        BY <1>1, <1>6, <3>1, <3>2 DEF CatalogType
      <4>. QED
        BY <1>3, <1>4, <2>1, <2>2, <3>1, <3>2, <4>1
    <3>3. CASE j.state # "ok"
      <4>1. catalog' \in CatalogType /\ ~catalog'.loading /\ catalog'.toggling = catalog.toggling
        BY <1>1, <3>1, <3>3 DEF CatalogType
      <4>. QED
        BY <1>3, <2>2, <3>1, <4>1
    <3>. QED
      BY <3>2, <3>3
  <2>5. CASE GotCatalogStatus(j)
    <3>1. PICK on : on = IF j.state = "ok" THEN j.got.on ELSE catalog.enabled
      OBVIOUS
    <3>2. on \in BOOLEAN
      BY <1>1, <1>6, <3>1 DEF CatalogType
    <3>3. j.kind = "status" /\ catalog' = [catalog EXCEPT !.enabled = on, !.loading = FALSE]
      BY <1>8, <2>5, <3>1 DEF GotCatalogStatus
    <3>4. catalog' \in CatalogType /\ ~catalog'.loading /\ catalog'.toggling = catalog.toggling
      BY <1>1, <3>2, <3>3 DEF CatalogType
    <3>. QED
      BY <1>3, <2>2, <3>3, <3>4
  <2>6. CASE GotToggle(j)
    <3>1. PICK on : on = IF j.state = "ok" THEN j.got.on ELSE catalog.enabled
      OBVIOUS
    <3>2. on \in BOOLEAN
      BY <1>1, <1>6, <3>1 DEF CatalogType
    <3>3. j.kind \in Toggles /\ catalog' = [catalog EXCEPT !.enabled = on, !.toggling = FALSE]
      BY <1>8, <2>6, <3>1 DEF GotToggle
    <3>4. catalog' \in CatalogType /\ catalog'.loading = catalog.loading /\ ~catalog'.toggling
      BY <1>1, <3>2, <3>3 DEF CatalogType
    <3>. QED
      BY <1>2, <2>2, <3>3, <3>4
  <2>7. CASE GotRemove(j)
    <3>1. /\ j.kind = "remove"
          /\ catalog' = IF j.state = "ok" THEN [catalog EXCEPT !.loading = TRUE] ELSE catalog
      BY <1>8, <2>7 DEF GotRemove
    <3>2. CASE j.state = "ok"
      <4>1. catalog' \in CatalogType /\ catalog'.toggling = catalog.toggling
        BY <1>1, <3>1, <3>2 DEF CatalogType
      <4>. QED
        BY <1>3, <1>4, <2>1, <2>2, <3>1, <3>2, <4>1
    <3>3. CASE j.state # "ok"
      BY <1>1, <1>2, <1>3, <2>2, <3>1, <3>3
    <3>. QED
      BY <3>2, <3>3
  <2>. QED
    BY <1>8, <2>3, <2>4, <2>5, <2>6, <2>7, Zenon DEF Got, GotReset, GotRotate, GotGateway, GotReboot, GotShutdown, GotPort,
       GotLoad, GotPreflight, GotRestart, GotWait
<1>. QED
  BY <1>7, <1>8

LEMMA ScreenAnswer ==
  ASSUME ScreenInv, NEW j \in jobs, Deliver(j)
  PROVE  ScreenInv'
<1>1. PICK late : Got(j, late) /\ jobs' = (jobs \ {j}) \cup {Numbered(k) : k \in Follow(j, late)}
  BY DeliverIs
<1>2. j.state \in {"ok", "bad"}
  BY DEF Deliver
<1>3. /\ Told(j) /\ pane' = pane /\ jobs \ {j} \subseteq jobs' /\ Addressed(jobs', pane)
      /\ Continues(j, late) => \E x \in jobs' : x.kind = NextKind(j) /\ x.arg = NextArg(j) /\ x.for = j.for
  BY <1>1, AnswerIs
<1>4. DialogsOK(dlg', ticked', pane) /\ DialogsWait(dlg', jobs')
  BY <1>1, <1>3, DialogsAnswered
<1>5. PowerOK(power', pane, reload') /\ PowerWaits(power', jobs')
  BY <1>1, <1>2, <1>3, PowerAnswered
<1>6. CatalogOK(catalog', pane) /\ CatalogWaits(catalog', jobs')
  BY <1>1, <1>2, <1>3, CatalogAnswered
<1>7. pane' \in Panes
  BY <1>3 DEF ScreenInv
<1>. QED
  BY <1>3, <1>4, <1>5, <1>6, <1>7 DEF ScreenInv

(***************************************************************************)
(* What the user does in a pane.                                           *)
(***************************************************************************)
LEMMA Asks ==
  ASSUME ScreenInv, NEW kind, NEW arg, NEW prev, NEW for, MayAsk(kind, arg, prev, for),
         Ask(kind, arg, prev, for), for \in {"page", pane}
  PROVE  /\ Addressed(jobs', pane) /\ Carried(jobs, jobs')
         /\ \E x \in jobs' : x.kind = kind /\ x.arg = arg /\ x.for = for
<1>1. Requests(jobs)
  BY DEF ScreenInv, Addressed
<1>2. Sent(jobs, jobs', kind, arg, for)
  BY <1>1, AskedIs
<1>. QED
  BY <1>2, SentIs

LEMMA ScreenPower ==
  ASSUME ScreenInv, PowerPane
  PROVE  ScreenInv'
<1>1. /\ PowerOK(power, pane, reload) /\ PowerWaits(power, jobs) /\ power \in PowerType
      /\ power.busy \subseteq Services /\ None \in 0..MaxPid
  BY NumbersAre DEF ScreenInv, PowerOK, PowerType, None
<1>2. ASSUME UNCHANGED <<dialogs, pane, catalog, reload>>, pane = "power",
             Addressed(jobs', pane), Carried(jobs, jobs'), power' \in PowerType,
             power'.reconnecting = power.reconnecting, PowerWaits(power', jobs')
      PROVE  ScreenInv'
  <2>1. PowerOK(power', pane, reload')
    BY <1>1, <1>2 DEF PowerOK
  <2>. QED
    BY <1>2, <2>1, WaitsCarried DEF ScreenInv, dialogs
<1>3. Addressed(jobs', pane) /\ Carried(jobs, jobs') => PowerWaits(power, jobs')
  BY <1>1, WaitsCarried
<1>4. CASE LoadServices
  <2>1. /\ pane = "power" /\ Ask("load", None, None, "power") /\ power' = [power EXCEPT !.loading = TRUE]
        /\ UNCHANGED <<dialogs, pane, catalog, reload>>
    BY <1>4 DEF LoadServices
  <2>2. MayAsk("load", None, None, "power")
    BY <1>1 DEF MayAsk, Kinds, Reads, Args, Fits, Home, PageKinds, CatalogKinds, None
  <2>3. /\ Addressed(jobs', pane) /\ Carried(jobs, jobs')
        /\ \E x \in jobs' : x.kind = "load" /\ x.arg = None /\ x.for = "power"
    BY <2>1, <2>2, Asks
  <2>4. power' \in PowerType /\ power'.reconnecting = power.reconnecting /\ power'.busy = power.busy
    BY <1>1, <2>1 DEF PowerType
  <2>5. PowerWaits(power', jobs')
    BY <1>3, <2>3, <2>4 DEF PowerWaits, Owned
  <2>. QED
    BY <1>2, <2>1, <2>3, <2>4, <2>5
<1>5. CASE RestartGateway
  <2>1. pane = "power" /\ Ask("preflight", None, None, "power") /\ UNCHANGED <<dialogs, panes>>
    BY <1>5 DEF RestartGateway
  <2>2. MayAsk("preflight", None, None, "power")
    BY <1>1 DEF MayAsk, Kinds, Reads, Args, Fits, Home, PageKinds, CatalogKinds, None
  <2>3. Addressed(jobs', pane) /\ Carried(jobs, jobs')
    BY <2>1, <2>2, Asks
  <2>. QED
    BY <2>1, <2>3, ScreenStays
<1>6. CASE DoneFades
  <2>1. PICK s \in power.done : power' = [power EXCEPT !.done = @ \ {s}]
    BY <1>6 DEF DoneFades
  <2>2. UNCHANGED <<dialogs, pane, catalog, reload, jobs>>
    BY <1>6 DEF DoneFades
  <2>3. pane = "power"
    BY <1>1 DEF PowerOK, NoPower
  <2>4. /\ power' \in PowerType /\ power'.reconnecting = power.reconnecting /\ power'.busy = power.busy
        /\ power'.loading = power.loading
    BY <1>1, <2>1 DEF PowerType
  <2>5. Addressed(jobs', pane) /\ Carried(jobs, jobs')
    BY <2>2, SameJobs
  <2>6. PowerWaits(power', jobs')
    BY <1>3, <2>4, <2>5 DEF PowerWaits
  <2>. QED
    BY <1>2, <2>2, <2>3, <2>4, <2>5, <2>6
<1>7. ASSUME NEW s \in Services, DoRestart(s) PROVE ScreenInv'
  <2>1. /\ pane = "power" /\ Ask("restart", s, power.pids[s], "power") /\ power' = [power EXCEPT !.busy = @ \cup {s}]
        /\ UNCHANGED <<dialogs, pane, catalog, reload>>
    BY <1>7 DEF DoRestart, RestartOffered
  <2>2. MayAsk("restart", s, power.pids[s], "power")
    BY <1>1 DEF MayAsk, Kinds, Args, Fits, Home, PageKinds, CatalogKinds, PowerType
  <2>3. /\ Addressed(jobs', pane) /\ Carried(jobs, jobs')
        /\ \E x \in jobs' : x.kind = "restart" /\ x.arg = s /\ x.for = "power"
    BY <2>1, <2>2, Asks
  <2>4. /\ power' \in PowerType /\ power'.reconnecting = power.reconnecting /\ power'.busy = power.busy \cup {s}
        /\ power'.loading = power.loading
    BY <1>1, <2>1 DEF PowerType
  <2>5. PowerWaits(power', jobs')
    BY <1>3, <2>3, <2>4 DEF PowerWaits
  <2>. QED
    BY <1>2, <2>1, <2>3, <2>4, <2>5
<1>. QED
  BY <1>4, <1>5, <1>6, <1>7 DEF PowerPane

LEMMA ScreenCatalog ==
  ASSUME ScreenInv, CatalogPane
  PROVE  ScreenInv'
<1>1. CatalogOK(catalog, pane) /\ CatalogWaits(catalog, jobs) /\ catalog \in CatalogType /\ None \in 0..MaxPid
  BY NumbersAre DEF ScreenInv, CatalogOK, None
<1>2. ASSUME UNCHANGED <<dialogs, pane, power, reload>>, pane = "catalog",
             Addressed(jobs', pane), Carried(jobs, jobs'), catalog' \in CatalogType, CatalogWaits(catalog', jobs')
      PROVE  ScreenInv'
  <2>1. CatalogOK(catalog', pane)
    BY <1>2 DEF CatalogOK
  <2>. QED
    BY <1>2, <2>1, WaitsCarried DEF ScreenInv, dialogs
<1>3. Carried(jobs, jobs') => CatalogWaits(catalog, jobs')
  BY <1>1, WaitsCarried
<1>4. CASE LoadSources
  <2>1. /\ Ask("sources", None, None, "catalog") /\ catalog' = [catalog EXCEPT !.loading = TRUE, !.due = FALSE]
        /\ UNCHANGED <<dialogs, pane, power, reload>> /\ (pane = "catalog" \/ catalog.due)
    BY <1>4 DEF LoadSources, RefreshOffered
  <2>2. pane = "catalog"
    BY <1>1, <2>1 DEF CatalogOK, NoCatalog
  <2>3. MayAsk("sources", None, None, "catalog")
    BY <1>1 DEF MayAsk, Kinds, Reads, Args, Fits, Home, PageKinds, CatalogKinds, None
  <2>4. /\ Addressed(jobs', pane) /\ Carried(jobs, jobs')
        /\ \E x \in jobs' : x.kind = "sources" /\ x.arg = None /\ x.for = "catalog"
    BY <2>1, <2>2, <2>3, Asks
  <2>5. catalog' \in CatalogType /\ catalog'.toggling = catalog.toggling
    BY <1>1, <2>1 DEF CatalogType
  <2>6. CatalogWaits(catalog', jobs')
    BY <1>3, <2>4, <2>5 DEF CatalogWaits, Owned
  <2>. QED
    BY <1>2, <2>1, <2>2, <2>4, <2>5, <2>6
<1>5. CASE ToggleCatalog
  <2>1. PICK kind \in {"enable", "disable"} : Ask(kind, None, None, "catalog")
    BY <1>5 DEF ToggleCatalog
  <2>2. /\ catalog' = [catalog EXCEPT !.toggling = TRUE] /\ UNCHANGED <<dialogs, pane, power, reload>> /\ pane = "catalog"
    BY <1>5 DEF ToggleCatalog, ToggleOffered
  <2>3. MayAsk(kind, None, None, "catalog")
    BY <1>1 DEF MayAsk, Kinds, Reads, Args, Fits, Home, PageKinds, CatalogKinds, None
  <2>4. /\ Addressed(jobs', pane) /\ Carried(jobs, jobs')
        /\ \E x \in jobs' : x.kind = kind /\ x.arg = None /\ x.for = "catalog"
    BY <2>1, <2>2, <2>3, Asks
  <2>5. catalog' \in CatalogType /\ catalog'.loading = catalog.loading
    BY <1>1, <2>2 DEF CatalogType
  <2>6. CatalogWaits(catalog', jobs')
    BY <1>3, <2>4, <2>5 DEF CatalogWaits, Owned
  <2>. QED
    BY <1>2, <2>2, <2>4, <2>5, <2>6
<1>6. ASSUME NEW id \in catalog.sources, RemoveSource(id) PROVE ScreenInv'
  <2>1. pane = "catalog" /\ Ask("remove", id, None, "catalog") /\ UNCHANGED <<dialogs, panes>>
    BY <1>6 DEF RemoveSource, RemoveOffered
  <2>2. id \in {0, 1}
    BY <1>1 DEF CatalogType
  <2>3. MayAsk("remove", id, None, "catalog")
    BY <1>1, <2>2 DEF MayAsk, Kinds, Args, Fits, Home, PageKinds, CatalogKinds, None
  <2>4. Addressed(jobs', pane) /\ Carried(jobs, jobs')
    BY <2>1, <2>3, Asks
  <2>. QED
    BY <2>1, <2>4, ScreenStays
<1>. QED
  BY <1>4, <1>5, <1>6 DEF CatalogPane

(***************************************************************************)
(* Another section.                                                        *)
(***************************************************************************)
LEMMA BehindIs ==
  ASSUME ScreenInv
  PROVE  /\ Requests(LeftBehind(pane))
         /\ \A x \in LeftBehind(pane) : /\ x.for \in {"page", "gone"}
                                        /\ \E j \in jobs : x.kind = j.kind /\ x.n = j.n
         /\ \A K : Owned(jobs, K, "page") => Owned(LeftBehind(pane), K, "page")
<1>1. Requests(jobs) /\ pane \in Panes /\ \A j \in jobs : JobOK(j) /\ j.for \in {"page", "gone", pane}
  BY DEF ScreenInv, Addressed, Requests
<1>2. pane # "page" /\ pane # "gone"
  BY <1>1 DEF Panes
<1>3. \A j \in jobs : /\ Leave(j, pane).kind = j.kind /\ Leave(j, pane).n = j.n
                      /\ Leave(j, pane).for = (IF j.for = pane THEN "gone" ELSE j.for)
  BY <1>1, LeaveIs
<1>4. Requests(LeftBehind(pane))
  BY <1>1, LeftBehindIs
<1>5. \A x \in LeftBehind(pane) : /\ x.for \in {"page", "gone"}
                                  /\ \E j \in jobs : x.kind = j.kind /\ x.n = j.n
  BY <1>1, <1>3 DEF LeftBehind
<1>6. ASSUME NEW K, Owned(jobs, K, "page") PROVE Owned(LeftBehind(pane), K, "page")
  <2>1. PICK j \in jobs : j.kind \in K /\ j.for = "page"
    BY <1>6 DEF Owned
  <2>2. Leave(j, pane).kind = j.kind /\ Leave(j, pane).for = "page" /\ Leave(j, pane) \in LeftBehind(pane)
    BY <1>2, <1>3, <2>1 DEF LeftBehind
  <2>. QED
    BY <2>1, <2>2 DEF Owned
<1>. QED
  BY <1>4, <1>5, <1>6

LEMMA ScreenLeft ==
  ASSUME ScreenInv, pane' \in Panes, pane' # pane, UNCHANGED ticked,
         dlg' = [d \in Dialogs |-> IF PaneOf(d) = "page" THEN dlg[d] ELSE Closed],
         Addressed(jobs', pane'), LeftBehind(pane) \subseteq jobs',
         PowerOK(power', pane', reload'), PowerWaits(power', jobs'),
         CatalogOK(catalog', pane'), CatalogWaits(catalog', jobs')
  PROVE  ScreenInv'
<1>1. dlg \in [Dialogs -> Modals] /\ DialogsOK(dlg, ticked, pane) /\ DialogsWait(dlg, jobs)
  BY DEF ScreenInv, DialogsOK
<1>2. \A d \in Dialogs : dlg'[d] = (IF PaneOf(d) = "page" THEN dlg[d] ELSE Closed)
  OBVIOUS
<1>3. Closed \in Modals /\ ~Closed.ack /\ ~Closed.busy
  BY DEF Closed, Modals
<1>4. DialogsOK(dlg', ticked', pane')
  BY <1>1, <1>2, <1>3 DEF DialogsOK
<1>5. DialogsWait(dlg', jobs')
  <2>. SUFFICES ASSUME NEW d \in Dialogs, dlg'[d].busy PROVE Owned(jobs', {d}, PaneOf(d))
    BY DEF DialogsWait
  <2>1. PaneOf(d) = "page" /\ dlg[d].busy
    BY <1>2, <1>3
  <2>2. Owned(LeftBehind(pane), {d}, "page")
    BY <1>1, <2>1, BehindIs DEF DialogsWait
  <2>. QED
    BY <2>1, <2>2 DEF Owned
<1>. QED
  BY <1>4, <1>5 DEF ScreenInv

LEMMA NewPanes ==
  /\ \A p, r : r \in BOOLEAN => PowerOK(NoPower, p, r)
  /\ \A p : CatalogOK(NoCatalog, p)
  /\ \A js : PowerWaits(NoPower, js) /\ CatalogWaits(NoCatalog, js)
<1>1. NoPower.pids \in [Services -> 0..MaxPid]
  BY NumbersAre DEF NoPower, None
<1>2. NoPower \in PowerType /\ ~NoPower.loading /\ NoPower.busy = {} /\ ~NoPower.reconnecting
  BY <1>1 DEF NoPower, PowerType
<1>3. NoCatalog \in CatalogType /\ ~NoCatalog.loading /\ ~NoCatalog.toggling
  BY DEF NoCatalog, CatalogType
<1>. QED
  BY <1>2, <1>3 DEF PowerOK, PowerWaits, CatalogOK, CatalogWaits

LEMMA ScreenWalkthrough ==
  ASSUME ScreenInv, GoToWalkthrough
  PROVE  ScreenInv'
<1>1. /\ pane # "security" /\ pane' = "security" /\ power' = NoPower /\ catalog' = NoCatalog
      /\ dlg' = [d \in Dialogs |-> IF PaneOf(d) = "page" THEN dlg[d] ELSE Closed]
      /\ UNCHANGED <<ticked, reload>>
  BY DEF GoToWalkthrough
<1>2. jobs' = LeftBehind(pane)
  BY DEF GoToWalkthrough, LeftBehind, Leave
<1>3. pane' \in Panes /\ reload \in BOOLEAN
  BY <1>1 DEF Panes, ScreenInv, PowerOK
<1>4. Addressed(jobs', pane')
  BY <1>2, BehindIs DEF Addressed
<1>5. /\ PowerOK(power', pane', reload') /\ PowerWaits(power', jobs')
      /\ CatalogOK(catalog', pane') /\ CatalogWaits(catalog', jobs')
  BY <1>1, <1>3, NewPanes
<1>. QED
  BY <1>1, <1>2, <1>3, <1>4, <1>5, ScreenLeft

LEMMA ScreenOpened ==
  ASSUME ScreenInv, NEW p \in Panes, OpenPane(p)
  PROVE  ScreenInv'
<1>. DEFINE Asked == IF p = "power" THEN "load" ELSE "sources"
<1>1. /\ p # pane /\ pane' = p /\ power' = [NoPower EXCEPT !.loading = (p = "power")]
      /\ catalog' = [NoCatalog EXCEPT !.loading = (p = "catalog")]
      /\ dlg' = [d \in Dialogs |-> IF PaneOf(d) = "page" THEN dlg[d] ELSE Closed]
      /\ UNCHANGED <<ticked, reload>>
  BY DEF OpenPane
<1>2. jobs' = LeftBehind(pane) \cup (IF p = "power" THEN {Numbered(Job("load", None, None, p))}
                                      ELSE IF p = "catalog" THEN {Numbered(Job("sources", None, None, p))} ELSE {})
  BY Zenon DEF OpenPane, LeftBehind, Leave
<1>3. Requests(jobs) /\ reload \in BOOLEAN /\ None \in 0..MaxPid
  BY NumbersAre DEF ScreenInv, Addressed, PowerOK, None
<1>4. CASE p \in {"power", "catalog"}
  <2>1. MayAsk(Asked, None, None, p)
    BY <1>3, <1>4 DEF MayAsk, Kinds, Reads, Args, Fits, Home, PageKinds, CatalogKinds, None
  <2>2. PICK x : x = Numbered(Job(Asked, None, None, p))
    OBVIOUS
  <2>3. JobOK(x) /\ x.kind = Asked /\ x.for = p /\ \A k \in jobs : k.kind = x.kind => k.n # x.n
    BY <1>3, <2>1, <2>2, NumberedIs
  <2>4. jobs' = LeftBehind(pane) \cup {x}
    BY <1>2, <1>4, <2>2
  <2>5. \A k \in LeftBehind(pane) : k.kind = x.kind => k.n # x.n
    BY <2>3, BehindIs
  <2>6. Requests(LeftBehind(pane) \cup {x})
    BY <2>3, <2>5, BehindIs, OneMore
  <2>7. Addressed(jobs', pane')
    BY <1>1, <2>3, <2>4, <2>6, BehindIs DEF Addressed
  <2>8. Owned(jobs', {Asked}, p)
    BY <2>3, <2>4 DEF Owned
  <2>9. PowerOK(power', pane', reload') /\ PowerWaits(power', jobs')
    <3>1. CASE p = "power"
      <4>1. NoPower.pids \in [Services -> 0..MaxPid]
        BY <1>3 DEF NoPower
      <4>2. power' \in PowerType /\ power'.busy = {} /\ ~power'.reconnecting
        BY <1>1, <4>1 DEF NoPower, PowerType
      <4>. QED
        BY <1>1, <1>3, <2>8, <3>1, <4>2 DEF PowerOK, PowerWaits
    <3>2. CASE p # "power"
      <4>1. power' = NoPower
        BY <1>1, <3>2 DEF NoPower
      <4>. QED
        BY <1>1, <1>3, <4>1, NewPanes
    <3>. QED
      BY <3>1, <3>2
  <2>10. CatalogOK(catalog', pane') /\ CatalogWaits(catalog', jobs')
    <3>1. CASE p = "catalog"
      <4>1. catalog' \in CatalogType /\ ~catalog'.toggling
        BY <1>1 DEF NoCatalog, CatalogType
      <4>. QED
        BY <1>1, <2>8, <3>1, <4>1 DEF CatalogOK, CatalogWaits, Owned
    <3>2. CASE p # "catalog"
      <4>1. catalog' = NoCatalog
        BY <1>1, <3>2 DEF NoCatalog
      <4>. QED
        BY <4>1, NewPanes
    <3>. QED
      BY <3>1, <3>2
  <2>. QED
    BY <1>1, <2>4, <2>7, <2>9, <2>10, ScreenLeft
<1>5. CASE p \notin {"power", "catalog"}
  <2>1. jobs' = LeftBehind(pane)
    BY <1>2, <1>5
  <2>2. power' = NoPower /\ catalog' = NoCatalog
    BY <1>1, <1>5 DEF NoPower, NoCatalog
  <2>3. Addressed(jobs', pane')
    BY <2>1, BehindIs DEF Addressed
  <2>4. /\ PowerOK(power', pane', reload') /\ PowerWaits(power', jobs')
        /\ CatalogOK(catalog', pane') /\ CatalogWaits(catalog', jobs')
    BY <1>1, <1>3, <2>2, NewPanes
  <2>. QED
    BY <1>1, <2>1, <2>3, <2>4, ScreenLeft
<1>. QED
  BY <1>4, <1>5

LEMMA ScreenNext ==
  ASSUME ScreenInv, EditInv, srv \in SrvType, Next
  PROVE  ScreenInv'
<1>1. srv' \in SrvType
  BY SrvNext DEF ScreenInv, Addressed
<1>2. ASSUME NEW j \in jobs, NEW done \in BOOLEAN, NEW ok \in BOOLEAN, Serve(j, done, ok) PROVE ScreenInv'
  BY <1>1, <1>2, ScreenServe
<1>3. ASSUME NEW j \in jobs, Deliver(j) PROVE ScreenInv'
  BY <1>3, ScreenAnswer
<1>4. CASE Trust
  <2>1. CASE GoToWalkthrough
    BY <2>1, ScreenWalkthrough
  <2>2. CASE ResetTrust
    <3>1. Ask("reset", None, None, "page") /\ UNCHANGED <<dialogs, panes>>
      BY <2>2 DEF ResetTrust
    <3>2. MayAsk("reset", None, None, "page")
      BY NumbersAre DEF MayAsk, Kinds, Args, Fits, Home, PageKinds, None
    <3>3. Addressed(jobs', pane) /\ Carried(jobs, jobs')
      BY <3>1, <3>2, Asks
    <3>. QED
      BY <3>1, <3>3, ScreenStays
  <2>3. CASE ~GoToWalkthrough /\ ~ResetTrust
    <3>1. UNCHANGED <<dialogs, panes, jobs>>
      BY <1>4, <2>3, Zenon DEF Trust, CheckTrustState, DismissMismatch, InstallCA, TestHttps, TestFails,
              GuardTLS, GuardSPA, GuardArm, ReadFingerprint, KeepFingerprint, Redirect, TestGoes
    <3>. QED
      BY <3>1, ScreenFrame
  <2>. QED
    BY <2>1, <2>2, <2>3
<1>5. CASE PortEditor
  <2>1. CASE ExecutePortChange
    <3>1. Ask("port", port.input, None, "page") /\ UNCHANGED <<dialogs, panes>>
      BY <2>1 DEF ExecutePortChange
    <3>2. port.input \in Ports
      BY DEF EditInv
    <3>3. MayAsk("port", port.input, None, "page")
      BY <3>2, NumbersAre DEF MayAsk, Kinds, Args, Fits, Home, PageKinds, None
    <3>4. Addressed(jobs', pane) /\ Carried(jobs, jobs')
      BY <3>1, <3>3, Asks
    <3>. QED
      BY <3>1, <3>4, ScreenStays
  <2>2. CASE ~ExecutePortChange
    <3>1. UNCHANGED <<dialogs, panes, jobs>>
      BY <1>5, <2>2, Zenon DEF PortEditor, EditPort, RequestPortChange, CancelPortChange, Tick, Probe
    <3>. QED
      BY <3>1, ScreenFrame
  <2>. QED
    BY <2>1, <2>2
<1>6. CASE ClosePort \/ Reload \/ \E s \in Services : Cycle(s)
  <2>1. UNCHANGED <<dialogs, panes, jobs>>
    BY <1>6, Zenon DEF ClosePort, Reload, Cycle
  <2>. QED
    BY <2>1, ScreenFrame
<1>. QED
  BY <1>2, <1>3, <1>4, <1>5, <1>6, ScreenDialog, ScreenPower, ScreenCatalog, ScreenOpened DEF Next

(***************************************************************************)
(* The whole page.                                                         *)
(***************************************************************************)
SettingsInv == srv \in SrvType /\ TrustInv /\ LeftInv /\ EditInv /\ ScreenInv

LEMMA SettingsStart == Init => SettingsInv
<1>. SUFFICES ASSUME Init PROVE SettingsInv
  OBVIOUS
<1>1. PICK ca \in CAs \cup {None}, pin \in {None, 1}, fp \in CAs, dismissed \in BOOLEAN :
        /\ srv = [fp |-> fp, armed |-> FALSE, port |-> FirstPort, closing |-> None,
                  pids |-> [s \in Services |-> 1], cycling |-> {}, enabled |-> FALSE, sources |-> {0}]
        /\ device = [ca |-> ca, ever |-> {ca, pin} \ {None}]
        /\ kept = [fp |-> pin, dismissed |-> dismissed]
        /\ banner = [asked |-> IF dismissed THEN None ELSE pin, mismatch |-> FALSE]
  BY Zenon DEF Init
<1>2. /\ test = NoTest /\ going = FALSE
      /\ port = [current |-> FirstPort, input |-> FirstPort, confirming |-> FALSE, seconds |-> 0, handle |-> 0]
      /\ clocks = {} /\ probes = {}
      /\ dlg = [d \in Dialogs |-> Closed] /\ ticked = {}
      /\ pane = "general" /\ power = NoPower /\ catalog = NoCatalog /\ reload = FALSE
      /\ jobs = {} /\ left = "here" /\ acts = 0
  BY Zenon DEF Init
<1>3. 1 \in CAs /\ pin \in CAs \cup {None} /\ FirstPort \in Ports /\ 1 \in 1..MaxPid
  BY NumbersAre, ConstantsOK DEF CAs
<1>4. srv \in SrvType
  BY <1>1, <1>3 DEF SrvType
<1>5. TrustInv
  BY <1>1, <1>2, <1>3 DEF TrustInv, WasTrusted, NoTest
<1>6. LeftInv
  BY <1>2, NumbersAre, ConstantsOK DEF LeftInv
<1>7. EditInv
  BY <1>2, <1>3, NumbersAre, FS_EmptySet DEF EditInv
<1>8. Addressed(jobs, pane)
  BY <1>2, FS_EmptySet DEF Addressed, Requests, Apart
<1>9. DialogsOK(dlg, ticked, pane) /\ DialogsWait(dlg, jobs)
  BY <1>2 DEF DialogsOK, DialogsWait, Closed, Modals
<1>10. ScreenInv
  BY <1>2, <1>8, <1>9, NewPanes DEF ScreenInv, Panes
<1>. QED
  BY <1>4, <1>5, <1>6, <1>7, <1>10 DEF SettingsInv

LEMMA SettingsStep == SettingsInv /\ [Next]_vars => SettingsInv'
<1>. SUFFICES ASSUME SettingsInv, [Next]_vars PROVE SettingsInv'
  OBVIOUS
<1>1. CASE Next
  <2>1. Requests(jobs)
    BY DEF SettingsInv, ScreenInv, Addressed
  <2>2. probes \subseteq [to : Ports, left : 1..Tries]
    BY DEF SettingsInv, EditInv
  <2>3. srv' \in SrvType /\ TrustInv' /\ EditInv' /\ ScreenInv'
    BY <1>1, <2>1, SrvNext, TrustNext, EditNext, ScreenNext DEF SettingsInv
  <2>4. LeftInv'
    BY <1>1, <2>2, LeftNext DEF SettingsInv
  <2>. QED
    BY <2>3, <2>4 DEF SettingsInv
<1>2. CASE UNCHANGED vars
  <2>1. UNCHANGED <<srv, device, kept, banner, test, going, port, clocks, probes, left, acts>>
    BY <1>2 DEF vars, trust, editor
  <2>2. UNCHANGED <<dialogs, panes, jobs>>
    BY <1>2 DEF vars
  <2>3. srv' \in SrvType /\ TrustInv' /\ LeftInv' /\ EditInv'
    BY <2>1 DEF SettingsInv, TrustInv, WasTrusted, LeftInv, EditInv
  <2>4. ScreenInv'
    BY <2>2, ScreenFrame DEF SettingsInv
  <2>. QED
    BY <2>3, <2>4 DEF SettingsInv
<1>. QED
  BY <1>1, <1>2

LEMMA SettingsAlways == Spec => []SettingsInv
BY SettingsStart, SettingsStep, PTL DEF Spec

(* Type correctness; a pane that is not shown keeps no state and gets no    *)
(* answer, and no two requests of a kind share a number                     *)
(* (settings/+page.svelte:555-625).                                         *)
THEOREM SettingsTyped == Spec => []TypeOK
<1>1. SettingsInv => TypeOK
  <2>. SUFFICES ASSUME SettingsInv PROVE TypeOK
    OBVIOUS
  <2>1. jobs \subseteq JobType /\ (\A j \in jobs : j.for \in {"page", "gone", pane})
        /\ \A j, k \in jobs : j.kind = k.kind /\ j.n = k.n => j = k
    BY DEF SettingsInv, ScreenInv, Addressed, Requests, JobOK, Apart
  <2>2. /\ pane \in Panes /\ reload \in BOOLEAN /\ power \in PowerType /\ (pane # "power" => power = NoPower)
        /\ catalog \in CatalogType /\ (pane # "catalog" => catalog = NoCatalog)
    BY DEF SettingsInv, ScreenInv, PowerOK, CatalogOK
  <2>3. /\ dlg \in [Dialogs -> Modals] /\ ticked \subseteq Dialogs
        /\ \A d \in Dialogs : PaneOf(d) \notin {"page", pane} => dlg[d] = Closed
    BY DEF SettingsInv, ScreenInv, DialogsOK
  <2>4. /\ left \in {"here", "https", "reloaded"} \cup Ports /\ acts \in 0..MaxActs /\ srv \in SrvType
    BY DEF SettingsInv, LeftInv
  <2>5. /\ port \in [current : Ports, input : Ports, confirming : BOOLEAN, seconds : -1..Seconds, handle : Nat]
        /\ clocks \subseteq Nat /\ probes \subseteq [to : Ports, left : 1..Tries]
    BY DEF SettingsInv, EditInv
  <2>6. /\ device \in [ca : CAs \cup {None}, ever : SUBSET CAs] /\ kept \in [fp : CAs \cup {None}, dismissed : BOOLEAN]
        /\ banner \in [asked : CAs \cup {None}, mismatch : BOOLEAN]
        /\ test \in [pc : {"off", "tls", "spa", "arm", "read", "keep"}, can : BOOLEAN, armed : BOOLEAN, fp : CAs \cup {None}]
        /\ going \in BOOLEAN
    BY DEF SettingsInv, TrustInv
  <2>. QED
    BY <2>1, <2>2, <2>3, <2>4, <2>5, <2>6, Zenon DEF TypeOK, PowerType, CatalogType, SrvType, Modals
<1>. QED
  BY <1>1, SettingsAlways, PTL

(* What covers or disables the page ends: every busy dialog, spinner and    *)
(* restarting service on screen has a request of its own in flight, the     *)
(* page that reconnects its reload, and the countdown an interval           *)
(* (PowerPane.svelte:91-207, CatalogPane.svelte:52-115,                     *)
(* settings/+page.svelte:419-457).                                          *)
THEOREM WaitsHaveAnEnd == Spec => []WaitsEnd
<1>1. SettingsInv => WaitsEnd
  <2>. SUFFICES ASSUME SettingsInv PROVE WaitsEnd
    OBVIOUS
  <2>1. DialogsWait(dlg, jobs) /\ PowerWaits(power, jobs) /\ CatalogWaits(catalog, jobs)
    BY DEF SettingsInv, ScreenInv
  <2>2. \A K, f : Owned(jobs, K, f) /\ f # "gone" => Awaited(K)
    BY DEF Owned, Awaited
  <2>3. \A d \in Dialogs : dlg[d].busy => Awaited({d})
    BY <2>1, <2>2 DEF DialogsWait, PaneOf
  <2>4. /\ power.loading => Awaited({"load"})
        /\ catalog.loading => Awaited({"sources", "status"})
        /\ catalog.toggling => Awaited({"enable", "disable"})
    BY <2>1, <2>2 DEF PowerWaits, CatalogWaits
  <2>5. BusyWaits
    BY <2>1, <2>3, <2>4 DEF BusyWaits, PowerWaits
  <2>6. power.reconnecting => reload
    BY DEF SettingsInv, ScreenInv, PowerOK
  <2>7. port.seconds > 0 \/ (port.confirming /\ ~PortModal.confirm) => clocks # {}
    <3>1. (port.seconds > 0 <=> port.handle \in clocks) /\ (port.seconds < 0 => clocks # {}) /\ port.seconds \in Int
      BY NumbersAre DEF SettingsInv, EditInv
    <3>2. port.confirming /\ ~PortModal.confirm => port.seconds # 0
      BY DEF PortModal
    <3>. QED
      BY <3>1, <3>2
  <2>. QED
    BY <2>5, <2>6, <2>7 DEF WaitsEnd, OverlaysEnd
<1>. QED
  BY <1>1, SettingsAlways, PTL

(* What a dialog shows as ticked or typed was ticked or typed since it was  *)
(* last opened (PowerPane.svelte:167-207, settings/+page.svelte:317-325).   *)
THEOREM NoAckCarriedOver == Spec => []AcksAreFresh
<1>1. SettingsInv => AcksAreFresh
  BY DEF SettingsInv, ScreenInv, DialogsOK, AcksAreFresh
<1>. QED
  BY <1>1, SettingsAlways, PTL

(* The fingerprint kept as trusted is of a CA the device has trusted; the   *)
(* page goes to HTTPS only once HSTS is armed, and to a port the gateway    *)
(* listens on (settings/+page.svelte:64-160, 419-457).                      *)
THEOREM TrustStandsTested == Spec => []TrustIsTested
<1>1. SettingsInv => TrustIsTested
  BY DEF SettingsInv, TrustInv, WasTrusted, LeftInv, TrustIsTested, PinWasTrusted, LeavesForWhatAnswers
<1>. QED
  BY <1>1, SettingsAlways, PTL
=============================================================================

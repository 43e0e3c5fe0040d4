---------------------------- MODULE GatewayPort ----------------------------
(***************************************************************************)
(* The gateway's port: how it is chosen at boot, how PUT /v1/gateway/port  *)
(* moves the gateway to another one, and what is left of it after a crash. *)
(*                                                                         *)
(* A request runs two callbacks in reverse order of registration: reload   *)
(* the gateway (listen, serve, ping, take over from the old server), then  *)
(* write the configuration file; the in-memory port is stored last.  No    *)
(* lock is held, so two requests interleave at every step.  The old server *)
(* is shut down by a goroutine that sleeps for a second first.             *)
(***************************************************************************)
EXTENDS Integers, FiniteSets

CONSTANTS
  Requests,  \* PUT requests
  Ports,     \* the ports the boot probe tries, a set of numbers
  None,      \* no port, no server
  Boot,      \* the server started at boot; the others are named by their request
  MaxCrashes \* bound: crashes of the gateway

Servers == Requests \cup {Boot}

ASSUME Distinct ==
  /\ Ports \subseteq Nat \ {0} /\ Ports # {} /\ None \notin Servers /\ None \notin Ports
  /\ Boot \notin Requests
  /\ MaxCrashes \in Nat

VARIABLES
  up,        \* "down", "booting" (port known, not yet bound) or "up"
  foreign,   \* ports held by other programs
  bound,     \* server -> the port its listener is open on, or None
  gateway,   \* _gateway: the server that counts as the gateway
  stopping,  \* servers whose shutdown is scheduled
  port,      \* State.gatewayPort
  mem,       \* the port in the in-memory ini file
  conf,      \* the port in gateway.ini
  pc,        \* request -> step of its handler
  want,      \* request -> the port it asks for
  old,       \* request -> the server it found in _gateway
  crashes,
  clean,     \* history: since boot, no two requests overlapped, none failed after
             \* it had begun to serve and none was cut short
  acked      \* history: the port the last successful request, or boot, settled

vars == <<up, foreign, bound, gateway, stopping, port, mem, conf, pc, want, old,
          crashes, clean, acked>>
serverVars == <<bound, gateway, stopping>>
configVars == <<port, mem, conf>>
hostVars == <<up, foreign, crashes>>

Running == {"listen", "serving", "take", "publish", "set", "truncate", "write", "store"}
Busy == {q \in Requests : pc[q] \in Running}
Free(p) == p \notin foreign /\ \A s \in Servers : bound[s] # p

GoTo(q, l) == pc' = [pc EXCEPT ![q] = l]

(***************************************************************************)
(* A PUT request.                                                          *)
(***************************************************************************)
Put(q, p) ==
  /\ up = "up" /\ pc[q] = "idle"
  /\ GoTo(q, "listen") /\ want' = [want EXCEPT ![q] = p]
  /\ clean' = (clean /\ Busy = {})
  /\ UNCHANGED <<old, acked, serverVars, configVars, hostVars>>

\* Mutated Listen: does not look at who holds the port.
ListenShared(q) ==
  /\ pc[q] = "listen"
  /\ bound' = [bound EXCEPT ![q] = want[q]] /\ GoTo(q, "serving")
  /\ UNCHANGED <<gateway, stopping, want, old, clean, acked, configVars, hostVars>>

\* reloadGateway: net.Listen fails on a port that is in use, the gateway's own
\* included, so that its test for "the same port" is never reached there.
Listen(q) ==
  /\ pc[q] = "listen"
  /\ IF Free(want[q])
       THEN bound' = [bound EXCEPT ![q] = want[q]] /\ GoTo(q, "serving")
       ELSE GoTo(q, "failed") /\ UNCHANGED bound
  /\ UNCHANGED <<gateway, stopping, want, old, clean, acked, configVars, hostVars>>

PingOK(q) ==
  /\ pc[q] = "serving"
  /\ GoTo(q, "take")
  /\ UNCHANGED <<want, old, clean, acked, serverVars, configVars, hostVars>>

\* Every ping failed: the request fails, and its server is left running.
PingFails(q) ==
  /\ pc[q] = "serving"
  /\ GoTo(q, "failed") /\ clean' = FALSE
  /\ UNCHANGED <<want, old, acked, serverVars, configVars, hostVars>>

\* Mutated TakeOver: also the new server is scheduled, its reference captured late.
TakeOverStopsNew(q) ==
  /\ pc[q] = "take"
  /\ old' = [old EXCEPT ![q] = gateway]
  /\ stopping' = stopping \cup {q}
  /\ GoTo(q, "publish")
  /\ UNCHANGED <<bound, gateway, want, clean, acked, configVars, hostVars>>

\* Mutated TakeOver: the old server is never stopped.
TakeOverLeavesOld(q) ==
  /\ pc[q] = "take"
  /\ old' = [old EXCEPT ![q] = gateway]
  /\ GoTo(q, "publish")
  /\ UNCHANGED <<bound, gateway, stopping, want, clean, acked, configVars, hostVars>>

\* Reads _gateway and starts the goroutine that will shut that server down.
TakeOver(q) ==
  /\ pc[q] = "take"
  /\ old' = [old EXCEPT ![q] = gateway]
  /\ stopping' = stopping \cup {gateway}
  /\ GoTo(q, "publish")
  /\ UNCHANGED <<bound, gateway, want, clean, acked, configVars, hostVars>>

\* _gateway = gatewayNew.
Publish(q) ==
  /\ pc[q] = "publish"
  /\ gateway' = q
  /\ GoTo(q, "set")
  /\ UNCHANGED <<bound, stopping, want, old, clean, acked, configVars, hostVars>>

SetConfig(q) ==
  /\ pc[q] = "set"
  /\ mem' = want[q]
  /\ GoTo(q, "truncate")
  /\ UNCHANGED <<port, conf, want, old, clean, acked, serverVars, hostVars>>

\* WriteConfig saves in place: the file is emptied, then filled.
TruncateConfig(q) ==
  /\ pc[q] = "truncate"
  /\ conf' = None
  /\ GoTo(q, "write")
  /\ UNCHANGED <<port, mem, want, old, clean, acked, serverVars, hostVars>>

\* Mutated WriteConfig: what is written is the port in use until now.
WriteConfigStale(q) ==
  /\ pc[q] = "write"
  /\ conf' = port
  /\ GoTo(q, "store")
  /\ UNCHANGED <<port, mem, want, old, clean, acked, serverVars, hostVars>>

WriteConfig(q) ==
  /\ pc[q] = "write"
  /\ conf' = mem
  /\ GoTo(q, "store")
  /\ UNCHANGED <<port, mem, want, old, clean, acked, serverVars, hostVars>>

\* The file cannot be opened, or not be filled.
WriteConfigFails(q) ==
  /\ pc[q] \in {"truncate", "write"}
  /\ GoTo(q, "failed") /\ clean' = FALSE
  /\ UNCHANGED <<want, old, acked, configVars, serverVars, hostVars>>

\* SetGatewayPort's deferred assignment; the request succeeds.
StorePort(q) ==
  /\ pc[q] = "store"
  /\ port' = want[q] /\ acked' = want[q]
  /\ GoTo(q, "done")
  /\ UNCHANGED <<mem, conf, want, old, clean, serverVars, hostVars>>

\* The goroutine that slept for a second: that is ample for the request which
\* started it to publish its own server.
StopOld(s) ==
  /\ s \in stopping
  /\ ~ \E q \in Requests : pc[q] = "publish" /\ old[q] = s
  /\ stopping' = stopping \ {s}
  /\ bound' = [bound EXCEPT ![s] = None]
  /\ UNCHANGED <<gateway, pc, want, old, clean, acked, configVars, hostVars>>

(***************************************************************************)
(* The process.                                                            *)
(***************************************************************************)
\* Another program takes a free port, or gives one up.
ForeignBinds(p) ==
  /\ Free(p) /\ foreign' = foreign \cup {p}
  /\ UNCHANGED <<up, crashes, pc, want, old, clean, acked, serverVars, configVars>>

ForeignLeaves(p) ==
  /\ p \in foreign /\ foreign' = foreign \ {p}
  /\ UNCHANGED <<up, crashes, pc, want, old, clean, acked, serverVars, configVars>>

\* The end of the process, orderly or not, closes every listener and forgets what was in memory;
\* a request under way is lost.
Crash ==
  /\ up # "down" /\ crashes < MaxCrashes
  /\ up' = "down" /\ crashes' = crashes + 1
  /\ bound' = [s \in Servers |-> None] /\ gateway' = None /\ stopping' = {}
  /\ port' = None /\ mem' = None
  /\ pc' = [q \in Requests |-> IF pc[q] \in Running THEN "lost" ELSE pc[q]]
  /\ clean' = (clean /\ Busy = {})
  /\ UNCHANGED <<foreign, conf, want, old, acked>>

\* The probe: the first port that is free; when none is, the last one tried is
\* kept, written and used all the same.
Probed(p) ==
  LET able == Ports \ foreign
  IN IF able # {} THEN p \in able /\ \A r \in able : p <= r
                  ELSE \A r \in Ports : r <= p

\* Mutated ChoosePort: probes although a port is configured.
ChoosePortAnew(p) ==
  /\ up = "down" /\ Probed(p)
  /\ up' = "booting"
  /\ port' = p /\ mem' = p /\ conf' = p
  /\ UNCHANGED <<foreign, crashes, pc, want, old, clean, acked, serverVars>>

\* init and the start hook: the configured port or else the probe's, which is
\* written to the file.  (When it cannot be written the process exits.)
ChoosePort(p) ==
  /\ up = "down"
  /\ IF conf = None THEN Probed(p) ELSE p = conf
  /\ up' = "booting"
  /\ port' = p /\ mem' = p /\ conf' = p
  /\ UNCHANGED <<foreign, crashes, pc, want, old, clean, acked, serverVars>>

\* reloadGateway at boot; when the port is taken the process exits.
BootListen ==
  /\ up = "booting"
  /\ IF Free(port)
       THEN /\ up' = "up"
            /\ bound' = [bound EXCEPT ![Boot] = port] /\ gateway' = Boot
            /\ clean' = TRUE /\ acked' = port
            /\ UNCHANGED <<port, mem>>
       ELSE up' = "down" /\ port' = None /\ mem' = None
            /\ UNCHANGED <<bound, gateway, clean, acked>>
  /\ UNCHANGED <<foreign, crashes, conf, stopping, pc, want, old>>

(***************************************************************************)
(* The specification.                                                      *)
(***************************************************************************)
Init ==
  /\ up = "down"
  /\ foreign \in SUBSET Ports
  /\ conf \in Ports \cup {None}
  /\ bound = [s \in Servers |-> None] /\ gateway = None /\ stopping = {}
  /\ port = None /\ mem = None
  /\ pc = [q \in Requests |-> "idle"]
  /\ want = [q \in Requests |-> None]
  /\ old = [q \in Requests |-> None]
  /\ crashes = 0
  /\ clean = TRUE /\ acked = None

Handle(q) ==
  \/ Listen(q) \/ PingOK(q) \/ PingFails(q) \/ TakeOver(q) \/ Publish(q) \/ SetConfig(q)
  \/ TruncateConfig(q) \/ WriteConfig(q) \/ WriteConfigFails(q) \/ StorePort(q)

Next ==
  \/ \E q \in Requests, p \in Ports : Put(q, p)
  \/ \E q \in Requests : Handle(q)
  \/ \E s \in Servers : StopOld(s)
  \/ \E p \in Ports : ChoosePort(p) \/ ForeignBinds(p) \/ ForeignLeaves(p)
  \/ Crash \/ BootListen

Spec == Init /\ [][Next]_vars

\* Fairness.  Handlers and the stopping goroutines run, and systemd starts the
\* gateway again.  Nothing forces a request or a crash.
FairSpec ==
  /\ Spec
  /\ \A q \in Requests : WF_vars(Handle(q))
  /\ \A s \in Servers : WF_vars(StopOld(s))
  /\ WF_vars(\E p \in Ports : ChoosePort(p)) /\ WF_vars(BootListen)

(***************************************************************************)
(* Properties.                                                             *)
(***************************************************************************)
\* Every variable has its type, and no port is held twice.
TypeOK ==
  /\ up \in {"down", "booting", "up"}
  /\ foreign \subseteq Ports
  /\ bound \in [Servers -> Ports \cup {None}]
  /\ \A s, t \in Servers : bound[s] # None =>
       bound[s] \notin foreign /\ (s # t => bound[s] # bound[t])
  /\ gateway \in Servers \cup {None}
  /\ stopping \subseteq Servers
  /\ {port, mem, conf, acked} \subseteq Ports \cup {None}
  /\ pc \in [Requests -> Running \cup {"idle", "done", "failed", "lost"}]
  /\ want \in [Requests -> Ports \cup {None}]
  /\ old \in [Requests -> Servers \cup {None}]
  /\ crashes \in 0..MaxCrashes
  /\ clean \in BOOLEAN

\* However the requests interleave and whichever step fails, the server the
\* process calls its gateway is listening: a change of port never shuts the door
\* before the next one is open.
GatewayServes == up = "up" => gateway # None /\ bound[gateway] # None

\* At rest, after requests that did not overlap and of which none failed half
\* way, all agree: the port the gateway listens on, State's port ("the one the
\* HTTP listener bound to"), gateway.ini's, and that of the last success.
PortAgrees ==
  up = "up" /\ clean /\ Busy = {} =>
    bound[gateway] = port /\ conf = port /\ mem = port /\ acked = port

\* A crash between requests loses nothing: when the gateway is up again, it is on
\* the port the last success settled, however many boots failed meanwhile because
\* another program had taken that port.
RestartKeepsPort ==
  [][up = "booting" /\ up' = "up" /\ clean /\ acked # None
       => bound'[gateway'] = acked]_vars

\* Servers that gave way are stopped: at last only the gateway listens, unless a
\* failed ping or a race left a server behind.
OldServersStop ==
  \A s \in Servers :
    bound[s] # None /\ s # gateway /\ clean /\ Busy = {}
      ~> bound[s] = None \/ ~clean \/ Busy # {}

\* Everything that names the gateway's port agrees when nothing is under way
\* (reloadGateway, State.SetGatewayPort, Config.WriteConfig).
PortsAgreeAtRest == TypeOK /\ PortAgrees
=============================================================================

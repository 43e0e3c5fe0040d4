------------------------- MODULE GatewayPortProofs -------------------------
(***************************************************************************)
(* Proofs about GatewayPort, for every set of requests and of ports and    *)
(* any number of crashes.                                                  *)
(***************************************************************************)
EXTENDS GatewayPort, TLAPS

(***************************************************************************)
(* The inductive invariant.  A server that has not been published is not   *)
(* yet the gateway and nobody has scheduled its shutdown; the gateway's    *)
(* own shutdown is scheduled only while the request that read it is about  *)
(* to publish its successor.                                               *)
(***************************************************************************)
Before == {"idle", "listen", "serving", "take", "publish"}

Types ==
  /\ up \in {"down", "booting", "up"}
  /\ bound \in [Servers -> Ports \cup {None}]
  /\ gateway \in Servers \cup {None}
  /\ stopping \subseteq Servers
  /\ port \in Ports \cup {None} /\ conf \in Ports \cup {None} /\ mem \in Ports \cup {None}
  /\ pc \in [Requests -> Running \cup {"idle", "done", "failed", "lost"}]
  /\ want \in [Requests -> Ports \cup {None}]
  /\ old \in [Requests -> Servers \cup {None}]
  /\ \A q \in Requests : pc[q] \in Running => want[q] \in Ports

Unpublished ==
  \A q \in Requests : pc[q] \in Before =>
    /\ gateway # q /\ q \notin stopping
    /\ pc[q] \in {"serving", "take", "publish"} => bound[q] \in Ports

Lifted ==
  /\ up = "up" => gateway \in Servers /\ bound[gateway] \in Ports
  /\ up # "up" => gateway = None /\ stopping = {} /\ \A q \in Requests : pc[q] \notin Running
  /\ up = "booting" => port \in Ports
  /\ gateway \in stopping => \E q \in Requests : pc[q] = "publish" /\ old[q] = gateway

Inv == Types /\ Unpublished /\ Lifted

LEMMA InvInit == Init => Inv
BY Distinct DEF Init, Inv, Types, Unpublished, Lifted, Servers, Running, Before

\* The steps that leave the servers alone: they move one request within the
\* program, or change only the configuration.
LEMMA QuietSteps ==
  ASSUME Inv, NEW q \in Requests,
         \/ PingOK(q) \/ PingFails(q) \/ SetConfig(q) \/ TruncateConfig(q)
         \/ WriteConfig(q) \/ WriteConfigFails(q) \/ StorePort(q)
  PROVE  Inv'
<1>1. UNCHANGED <<up, bound, gateway, stopping, want, old>>
  BY DEF PingOK, PingFails, SetConfig, TruncateConfig, WriteConfig, WriteConfigFails,
         StorePort, serverVars, hostVars
<1>2. \/ pc[q] = "serving" /\ pc' = [pc EXCEPT ![q] = "take"]
      \/ pc[q] = "serving" /\ pc' = [pc EXCEPT ![q] = "failed"]
      \/ /\ pc[q] \in {"set", "truncate", "write", "store"}
         /\ \E l \in {"truncate", "write", "store", "done", "failed"} :
              pc' = [pc EXCEPT ![q] = l]
  BY DEF PingOK, PingFails, SetConfig, TruncateConfig, WriteConfig, WriteConfigFails,
         StorePort, GoTo
<1>3. pc[q] \in Running /\ want[q] \in Ports
  BY <1>2 DEF Inv, Types, Running
<1>4. port' \in Ports \cup {None} /\ conf' \in Ports \cup {None} /\ mem' \in Ports \cup {None}
  BY <1>3 DEF PingOK, PingFails, SetConfig, TruncateConfig, WriteConfig, WriteConfigFails,
         StorePort, configVars, Inv, Types
<1>5. up = "up"
  BY <1>3 DEF Inv, Types, Lifted
<1>6. /\ pc' \in [Requests -> Running \cup {"idle", "done", "failed", "lost"}]
      /\ \A r \in Requests \ {q} : pc'[r] = pc[r]
      /\ pc[q] # "publish" /\ pc'[q] \in {"take", "truncate", "write", "store", "done", "failed"}
      /\ pc'[q] = "take" => pc[q] = "serving"
  BY <1>2 DEF Inv, Types, Running
<1>7. Types'
  BY <1>1, <1>3, <1>4, <1>6 DEF Inv, Types
<1>8. Unpublished'
  BY <1>1, <1>6 DEF Inv, Unpublished, Before
<1>9. Lifted'
  BY <1>1, <1>5, <1>6 DEF Inv, Lifted
<1>. QED
  BY <1>7, <1>8, <1>9 DEF Inv

LEMMA PutStep ==
  ASSUME Inv, NEW q \in Requests, NEW p \in Ports, Put(q, p)
  PROVE  Inv'
<1>1. /\ UNCHANGED <<up, bound, gateway, stopping, old, port, mem, conf>>
      /\ up = "up" /\ pc[q] = "idle"
      /\ pc' = [pc EXCEPT ![q] = "listen"] /\ want' = [want EXCEPT ![q] = p]
  BY DEF Put, GoTo, serverVars, configVars, hostVars
<1>2. /\ pc' \in [Requests -> Running \cup {"idle", "done", "failed", "lost"}]
      /\ want' \in [Requests -> Ports \cup {None}]
      /\ pc'[q] = "listen" /\ want'[q] = p
      /\ \A r \in Requests \ {q} : pc'[r] = pc[r] /\ want'[r] = want[r]
  BY <1>1 DEF Inv, Types, Running
<1>3. Types'
  BY <1>1, <1>2 DEF Inv, Types
<1>4. Unpublished'
  BY <1>1, <1>2 DEF Inv, Unpublished, Before
<1>5. Lifted'
  BY <1>1, <1>2 DEF Inv, Lifted
<1>. QED
  BY <1>3, <1>4, <1>5 DEF Inv

LEMMA ListenStep ==
  ASSUME Inv, NEW q \in Requests, Listen(q)
  PROVE  Inv'
<1>1. /\ UNCHANGED <<up, gateway, stopping, want, old, port, mem, conf>>
      /\ pc[q] = "listen"
      /\ \/ pc' = [pc EXCEPT ![q] = "serving"] /\ bound' = [bound EXCEPT ![q] = want[q]]
         \/ pc' = [pc EXCEPT ![q] = "failed"] /\ bound' = bound
  BY DEF Listen, GoTo, configVars, hostVars
<1>2. want[q] \in Ports /\ gateway # q /\ q \in Servers /\ up = "up"
  BY <1>1 DEF Inv, Types, Unpublished, Lifted, Running, Before, Servers
<1>3. /\ pc' \in [Requests -> Running \cup {"idle", "done", "failed", "lost"}]
      /\ bound' \in [Servers -> Ports \cup {None}]
      /\ pc'[q] \in {"serving", "failed"} /\ (pc'[q] = "serving" => bound'[q] \in Ports)
      /\ \A r \in Requests \ {q} : pc'[r] = pc[r]
      /\ \A s \in Servers \ {q} : bound'[s] = bound[s]
  BY <1>1, <1>2 DEF Inv, Types, Running
<1>4. Types'
  BY <1>1, <1>2, <1>3 DEF Inv, Types
<1>5. Unpublished'
  BY <1>1, <1>3 DEF Inv, Unpublished, Before, Servers
<1>6. Lifted'
  BY <1>1, <1>2, <1>3 DEF Inv, Lifted
<1>. QED
  BY <1>4, <1>5, <1>6 DEF Inv

LEMMA TakeOverStep ==
  ASSUME Inv, NEW q \in Requests, TakeOver(q)
  PROVE  Inv'
<1>1. /\ UNCHANGED <<up, bound, gateway, want, port, mem, conf>>
      /\ pc[q] = "take" /\ pc' = [pc EXCEPT ![q] = "publish"]
      /\ old' = [old EXCEPT ![q] = gateway]
      /\ stopping' = stopping \cup {gateway}
  BY DEF TakeOver, GoTo, configVars, hostVars
<1>2. up = "up" /\ gateway \in Servers
  BY <1>1 DEF Inv, Lifted, Types, Running
<1>3. /\ pc' \in [Requests -> Running \cup {"idle", "done", "failed", "lost"}]
      /\ old' \in [Requests -> Servers \cup {None}]
      /\ stopping' \subseteq Servers
      /\ pc'[q] = "publish" /\ old'[q] = gateway
      /\ \A r \in Requests \ {q} : pc'[r] = pc[r]
  BY <1>1, <1>2 DEF Inv, Types, Running
<1>4. Types'
  BY <1>1, <1>3 DEF Inv, Types, Running
<1>5. Unpublished'
  BY <1>1, <1>3 DEF Inv, Unpublished, Before
<1>6. Lifted'
  BY <1>1, <1>2, <1>3 DEF Inv, Lifted
<1>. QED
  BY <1>4, <1>5, <1>6 DEF Inv

LEMMA PublishStep ==
  ASSUME Inv, NEW q \in Requests, Publish(q)
  PROVE  Inv'
<1>1. /\ UNCHANGED <<up, bound, stopping, want, old, port, mem, conf>>
      /\ pc[q] = "publish" /\ pc' = [pc EXCEPT ![q] = "set"] /\ gateway' = q
  BY DEF Publish, GoTo, configVars, hostVars
<1>2. up = "up" /\ q \in Servers /\ q \notin stopping /\ bound[q] \in Ports
  BY <1>1 DEF Inv, Lifted, Types, Unpublished, Running, Before, Servers
<1>3. /\ pc' \in [Requests -> Running \cup {"idle", "done", "failed", "lost"}]
      /\ pc'[q] = "set"
      /\ \A r \in Requests \ {q} : pc'[r] = pc[r]
  BY <1>1 DEF Inv, Types, Running
<1>4. Types'
  BY <1>1, <1>2, <1>3 DEF Inv, Types, Running
<1>5. Unpublished'
  BY <1>1, <1>3 DEF Inv, Unpublished, Before
<1>6. Lifted'
  BY <1>1, <1>2 DEF Inv, Lifted
<1>. QED
  BY <1>4, <1>5, <1>6 DEF Inv

LEMMA StopOldStep ==
  ASSUME Inv, NEW s \in Servers, StopOld(s)
  PROVE  Inv'
<1>1. /\ UNCHANGED <<up, gateway, pc, want, old, port, mem, conf>>
      /\ s \in stopping /\ stopping' = stopping \ {s}
      /\ bound' = [bound EXCEPT ![s] = None]
  BY DEF StopOld, configVars, hostVars
<1>2. gateway # s
  BY <1>1 DEF StopOld, Inv, Lifted
<1>3. /\ bound' \in [Servers -> Ports \cup {None}]
      /\ \A t \in Servers \ {s} : bound'[t] = bound[t]
  BY <1>1 DEF Inv, Types
<1>4. Types'
  BY <1>1, <1>3 DEF Inv, Types
<1>5. Unpublished'
  BY <1>1, <1>3 DEF Inv, Unpublished, Before, Servers
<1>6. Lifted'
  BY <1>1, <1>2, <1>3 DEF Inv, Lifted
<1>. QED
  BY <1>4, <1>5, <1>6 DEF Inv

LEMMA CrashStep ==
  ASSUME Inv, Crash
  PROVE  Inv'
<1>1. /\ up' = "down" /\ bound' = [s \in Servers |-> None] /\ gateway' = None
      /\ stopping' = {} /\ port' = None /\ mem' = None
      /\ UNCHANGED <<conf, want, old>>
      /\ pc' = [q \in Requests |-> IF pc[q] \in Running THEN "lost" ELSE pc[q]]
  BY DEF Crash
<1>2. \A q \in Requests : pc'[q] \notin Running /\ (pc'[q] \in Before => pc'[q] = "idle")
  BY <1>1 DEF Inv, Types, Running, Before
<1>3. pc' \in [Requests -> Running \cup {"idle", "done", "failed", "lost"}]
  BY <1>1 DEF Inv, Types, Running
<1>4. Types'
  BY <1>1, <1>2, <1>3 DEF Inv, Types
<1>5. None \notin Requests
  BY Distinct DEF Servers
<1>6. Unpublished'
  BY <1>1, <1>2, <1>5 DEF Unpublished
<1>7. Lifted'
  BY <1>1, <1>2 DEF Lifted
<1>. QED
  BY <1>4, <1>6, <1>7 DEF Inv

LEMMA BootSteps ==
  ASSUME Inv, BootListen \/ \E p \in Ports : ChoosePort(p)
  PROVE  Inv'
<1>1. UNCHANGED <<pc, want, old, stopping>>
  BY DEF BootListen, ChoosePort, serverVars
<1>2. up # "up" /\ stopping = {} /\ gateway = None /\ \A q \in Requests : pc[q] \notin Running
  BY DEF BootListen, ChoosePort, Inv, Lifted
<1>3. ASSUME NEW p \in Ports, ChoosePort(p) PROVE Inv'
  <2>1. up' = "booting" /\ port' = p /\ mem' = p /\ conf' = p /\ UNCHANGED <<bound, gateway>>
    BY <1>3 DEF ChoosePort, serverVars
  <2>. QED
    BY <1>1, <1>2, <2>1 DEF Inv, Types, Unpublished, Lifted
<1>4. CASE BootListen
  <2>1. conf' = conf /\ port \in Ports /\ up = "booting"
    BY <1>4 DEF BootListen, Inv, Lifted
  <2>2. CASE Free(port)
    <3>1. /\ up' = "up" /\ bound' = [bound EXCEPT ![Boot] = port] /\ gateway' = Boot
          /\ UNCHANGED <<port, mem>>
      BY <1>4, <2>2 DEF BootListen
    <3>2. bound' \in [Servers -> Ports \cup {None}] /\ Boot \in Servers /\ bound'[Boot] = port
      BY <2>1, <3>1 DEF Inv, Types, Servers
    <3>3. Types'
      BY <1>1, <2>1, <3>1, <3>2 DEF Inv, Types
    <3>4. Unpublished'
      BY <1>1, <1>2, <3>1, Distinct DEF Inv, Unpublished, Running
    <3>5. Lifted'
      BY <1>1, <1>2, <2>1, <3>1, <3>2 DEF Lifted
    <3>. QED
      BY <3>3, <3>4, <3>5 DEF Inv
  <2>3. CASE ~Free(port)
    <3>1. up' = "down" /\ port' = None /\ mem' = None /\ UNCHANGED <<bound, gateway>>
      BY <1>4, <2>3 DEF BootListen
    <3>. QED
      BY <1>1, <1>2, <2>1, <3>1 DEF Inv, Types, Unpublished, Lifted
  <2>. QED
    BY <2>2, <2>3
<1>. QED
  BY <1>3, <1>4

LEMMA InvNext == Inv /\ [Next]_vars => Inv'
<1>. SUFFICES ASSUME Inv, [Next]_vars PROVE Inv'
  OBVIOUS
<1>1. ASSUME NEW p \in Ports, ForeignBinds(p) \/ ForeignLeaves(p) PROVE Inv'
  <2>1. UNCHANGED <<up, bound, gateway, stopping, port, mem, conf, pc, want, old>>
    BY <1>1 DEF ForeignBinds, ForeignLeaves, serverVars, configVars
  <2>. QED
    BY <2>1 DEF Inv, Types, Unpublished, Lifted
<1>2. CASE UNCHANGED vars
  BY <1>2 DEF vars, Inv, Types, Unpublished, Lifted
<1>. QED
  BY <1>1, <1>2, QuietSteps, PutStep, ListenStep, TakeOverStep, PublishStep, StopOldStep,
     CrashStep, BootSteps DEF Next, Handle

\* Whatever the overlap of the requests, the order of their steps, the failures
\* and the crashes, the server the process calls its gateway is listening.
THEOREM GatewayAlwaysServes == Spec => []GatewayServes
<1>1. Inv => GatewayServes
  BY Distinct DEF Inv, Types, Lifted, GatewayServes
<1>. QED
  BY <1>1, InvInit, InvNext, PTL DEF Spec

(***************************************************************************)
(* Agreement at rest.  While the history is clean at most one request is   *)
(* under way, and what it has changed is known from where it stands: until *)
(* it publishes its server everything names the old port; from then on the *)
(* gateway, the ini file in memory, the file and the port follow in turn.  *)
(* Between a clean crash and the next boot the file alone remembers.       *)
(***************************************************************************)
Settled == bound[gateway] = port /\ conf = port /\ mem = port /\ acked = port

Serial == clean => \A q, r \in Requests : pc[q] \in Running /\ pc[r] \in Running => q = r

MovedBy(q) ==
  /\ pc[q] \in {"listen", "serving", "take", "publish"} => Settled
  /\ pc[q] \in Running \ {"listen"} => bound[q] = want[q]
  /\ pc[q] \in {"set", "truncate", "write", "store"} => gateway = q
  /\ pc[q] \in {"truncate", "write", "store"} => mem = want[q]
  /\ pc[q] = "store" => conf = want[q]

Agree ==
  /\ Serial
  /\ clean => \A q \in Requests : pc[q] \in Running => MovedBy(q)
  /\ PortAgrees
  /\ up # "up" /\ clean /\ acked # None => conf = acked
  /\ up = "booting" => conf = port /\ mem = port

LEMMA AgreeInit == Init => Agree
BY DEF Init, Agree, Serial, PortAgrees, Running

\* A step of the one request under way need only say where it leaves matters.
LEMMA SoleRequest ==
  ASSUME Inv, Agree, NEW q \in Requests, pc[q] \in Running,
         \A r \in Requests \ {q} : pc'[r] = pc[r],
         clean' => clean, up' = "up",
         clean' /\ pc'[q] \in Running => MovedBy(q)',
         clean' /\ pc'[q] \notin Running => Settled'
  PROVE  Agree'
<1>1. clean' => \A r \in Requests : pc'[r] \in Running => r = q
  BY DEF Agree, Serial
<1>2. Serial'
  BY <1>1 DEF Serial
<1>3. clean' => \A r \in Requests : pc'[r] \in Running => MovedBy(r)'
  BY <1>1
<1>4. PortAgrees'
  BY <1>1 DEF PortAgrees, Busy, Settled
<1>. QED
  BY <1>2, <1>3, <1>4 DEF Agree

LEMMA RequestAgrees ==
  ASSUME Inv, Agree, NEW q \in Requests, Handle(q)
  PROVE  Agree'
<1>1. /\ pc[q] \in Running /\ up' = up
      /\ \A r \in Requests \ {q} : pc'[r] = pc[r]
      /\ clean' => clean
      /\ want' = want
  BY DEF Handle, Listen, PingOK, PingFails, TakeOver, Publish, SetConfig, TruncateConfig,
         WriteConfig, WriteConfigFails, StorePort, GoTo, Running, hostVars, Inv, Types
<1>2. up = "up" /\ gateway \in Servers /\ q \in Servers /\ bound \in [Servers -> Ports \cup {None}]
  BY <1>1 DEF Inv, Lifted, Types, Servers
<1>3. clean => MovedBy(q)
  BY <1>1 DEF Agree
<1>4. pc \in [Requests -> Running \cup {"idle", "done", "failed", "lost"}]
  BY DEF Inv, Types
<1>5. (clean' /\ pc'[q] \in Running => MovedBy(q)') /\ (clean' /\ pc'[q] \notin Running => Settled')
  <2>1. CASE Listen(q)
    <3>1. /\ UNCHANGED <<gateway, port, mem, conf, acked>> /\ pc[q] = "listen"
          /\ \/ pc'[q] = "serving" /\ bound' = [bound EXCEPT ![q] = want[q]]
             \/ pc'[q] = "failed" /\ bound' = bound
      BY <1>4, <2>1 DEF Listen, GoTo, configVars
    <3>2. gateway # q
      BY <3>1 DEF Inv, Unpublished, Before
    <3>3. bound'[gateway] = bound[gateway] /\ (pc'[q] = "serving" => bound'[q] = want[q])
      BY <1>2, <3>1, <3>2
    <3>4. clean' => Settled'
      BY <1>1, <1>3, <3>1, <3>3 DEF MovedBy, Settled
    <3>. QED
      BY <1>1, <3>1, <3>3, <3>4 DEF MovedBy, Running
  <2>2. CASE PingOK(q) \/ PingFails(q) \/ TakeOver(q)
    <3>1. /\ UNCHANGED <<bound, gateway, port, mem, conf, acked>>
          /\ \/ pc[q] = "serving" /\ pc'[q] = "take"
             \/ pc[q] = "serving" /\ ~clean'
             \/ pc[q] = "take" /\ pc'[q] = "publish"
      BY <1>4, <2>2 DEF PingOK, PingFails, TakeOver, GoTo, serverVars, configVars
    <3>. QED
      BY <1>1, <1>3, <3>1 DEF MovedBy, Settled, Running
  <2>3. CASE Publish(q)
    <3>1. /\ UNCHANGED <<bound, port, mem, conf, acked>> /\ gateway' = q
          /\ pc[q] = "publish" /\ pc'[q] = "set"
      BY <1>4, <2>3 DEF Publish, GoTo, configVars
    <3>. QED
      BY <1>1, <1>3, <3>1 DEF MovedBy, Running
  <2>4. CASE SetConfig(q)
    <3>1. /\ UNCHANGED <<bound, gateway, port, conf, acked>> /\ mem' = want[q]
          /\ pc[q] = "set" /\ pc'[q] = "truncate"
      BY <1>4, <2>4 DEF SetConfig, GoTo, serverVars
    <3>. QED
      BY <1>1, <1>3, <3>1 DEF MovedBy, Running
  <2>5. CASE TruncateConfig(q)
    <3>1. /\ UNCHANGED <<bound, gateway, port, mem, acked>>
          /\ pc[q] = "truncate" /\ pc'[q] = "write"
      BY <1>4, <2>5 DEF TruncateConfig, GoTo, serverVars
    <3>. QED
      BY <1>1, <1>3, <3>1 DEF MovedBy, Running
  <2>6. CASE WriteConfig(q)
    <3>1. /\ UNCHANGED <<bound, gateway, port, mem, acked>> /\ conf' = mem
          /\ pc[q] = "write" /\ pc'[q] = "store"
      BY <1>4, <2>6 DEF WriteConfig, GoTo, serverVars
    <3>. QED
      BY <1>1, <1>3, <3>1 DEF MovedBy, Running
  <2>7. CASE WriteConfigFails(q)
    BY <2>7 DEF WriteConfigFails
  <2>8. CASE StorePort(q)
    <3>1. /\ UNCHANGED <<bound, gateway, mem, conf>> /\ port' = want[q] /\ acked' = want[q]
          /\ pc[q] = "store" /\ pc'[q] = "done"
      BY <1>4, <2>8 DEF StorePort, GoTo, serverVars
    <3>. QED
      BY <1>1, <1>3, <3>1 DEF MovedBy, Settled, Running
  <2>. QED
    BY <2>1, <2>2, <2>3, <2>4, <2>5, <2>6, <2>7, <2>8 DEF Handle
<1>. QED
  BY <1>1, <1>2, <1>5, SoleRequest

LEMMA PutAgrees ==
  ASSUME Inv, Agree, NEW q \in Requests, NEW p \in Ports, Put(q, p)
  PROVE  Agree'
<1>1. /\ UNCHANGED <<up, bound, gateway, port, mem, conf, acked>>
      /\ up = "up" /\ pc[q] = "idle" /\ (clean' => clean /\ Busy = {})
      /\ pc' = [pc EXCEPT ![q] = "listen"]
  BY DEF Put, GoTo, serverVars, configVars, hostVars
<1>2. pc'[q] = "listen" /\ \A r \in Requests \ {q} : pc'[r] = pc[r]
  BY <1>1 DEF Inv, Types
<1>3. clean' => \A r \in Requests : pc'[r] \in Running => r = q
  BY <1>1, <1>2 DEF Busy
<1>4. clean' => Settled'
  BY <1>1 DEF Agree, PortAgrees, Settled
<1>5. clean' => MovedBy(q)'
  BY <1>2, <1>4 DEF MovedBy, Running
<1>6. q \in Busy'
  BY <1>2 DEF Busy, Running
<1>. QED
  BY <1>1, <1>3, <1>5, <1>6 DEF Agree, Serial, PortAgrees

LEMMA StopAgrees ==
  ASSUME Inv, Agree, NEW s \in Servers, StopOld(s)
  PROVE  Agree'
<1>1. /\ UNCHANGED <<up, gateway, pc, want, port, mem, conf, acked, clean>>
      /\ s \in stopping /\ bound' = [bound EXCEPT ![s] = None]
  BY DEF StopOld, configVars, hostVars
<1>2. gateway # s
  BY <1>1 DEF StopOld, Inv, Lifted
<1>3. \A t \in Servers \ {s} : bound'[t] = bound[t]
  BY <1>1 DEF Inv, Types
<1>4. up = "up" => bound'[gateway] = bound[gateway]
  BY <1>2, <1>3 DEF Inv, Lifted
<1>5. ASSUME NEW q \in Requests, pc[q] \in Running, clean PROVE MovedBy(q)'
  <2>1. MovedBy(q) /\ up = "up"
    BY <1>5 DEF Agree, Inv, Lifted, Types
  <2>2. q # s
    BY <1>1, <1>2, <1>5, <2>1 DEF Inv, Unpublished, Before, MovedBy, Running
  <2>3. bound'[q] = bound[q]
    BY <1>3, <2>2 DEF Servers
  <2>. QED
    BY <1>1, <1>4, <2>1, <2>3 DEF MovedBy, Settled
<1>6. PortAgrees'
  BY <1>1, <1>4 DEF Agree, PortAgrees, Busy
<1>. QED
  BY <1>1, <1>5, <1>6 DEF Agree, Serial

LEMMA ProcessAgrees ==
  ASSUME Inv, Agree, Crash \/ BootListen \/ \E p \in Ports : ChoosePort(p)
  PROVE  Agree'
<1>1. CASE Crash
  <2>1. /\ up' = "down" /\ UNCHANGED <<conf, acked>>
        /\ \A q \in Requests : pc'[q] \notin Running
        /\ clean' => clean /\ Busy = {}
    BY <1>1 DEF Crash, Running
  <2>2. clean' /\ acked # None => conf = acked
    <3>1. CASE up = "up"
      BY <2>1, <3>1 DEF Agree, PortAgrees
    <3>. QED
      BY <2>1, <3>1 DEF Agree
  <2>. QED
    BY <2>1, <2>2 DEF Agree, Serial, PortAgrees
<1>2. CASE BootListen
  <2>1. up = "booting" /\ UNCHANGED <<conf, pc>> /\ conf = port /\ mem = port
    BY <1>2 DEF BootListen, Agree
  <2>2. \A q \in Requests : pc'[q] \notin Running
    BY <2>1 DEF Inv, Lifted
  <2>3. CASE Free(port)
    <3>1. up' = "up" /\ bound'[gateway'] = port /\ acked' = port /\ UNCHANGED <<port, mem>>
      BY <1>2, <2>3 DEF BootListen, Inv, Types, Servers
    <3>. QED
      BY <2>1, <2>2, <3>1 DEF Agree, Serial, PortAgrees
  <2>4. CASE ~Free(port)
    <3>1. up' = "down" /\ UNCHANGED <<clean, acked>>
      BY <1>2, <2>4 DEF BootListen
    <3>. QED
      BY <2>1, <2>2, <3>1 DEF Agree, Serial, PortAgrees
  <2>. QED
    BY <2>3, <2>4
<1>3. ASSUME NEW p \in Ports, ChoosePort(p) PROVE Agree'
  <2>1. /\ up = "down" /\ up' = "booting" /\ port' = p /\ mem' = p /\ conf' = p
        /\ UNCHANGED <<pc, clean, acked>> /\ (conf # None => p = conf)
    BY <1>3 DEF ChoosePort
  <2>2. \A q \in Requests : pc'[q] \notin Running
    BY <2>1 DEF Inv, Lifted
  <2>3. clean /\ acked # None => acked = p
    BY <2>1 DEF Agree
  <2>. QED
    BY <2>1, <2>2, <2>3 DEF Agree, Serial, PortAgrees
<1>. QED
  BY <1>1, <1>2, <1>3

LEMMA AgreeNext == Inv /\ Agree /\ [Next]_vars => Agree'
<1>. SUFFICES ASSUME Inv, Agree, [Next]_vars PROVE Agree'
  OBVIOUS
<1>1. ASSUME NEW p \in Ports, ForeignBinds(p) \/ ForeignLeaves(p) PROVE Agree'
  <2>1. UNCHANGED <<up, bound, gateway, port, mem, conf, pc, want, clean, acked>>
    BY <1>1 DEF ForeignBinds, ForeignLeaves, serverVars, configVars
  <2>. QED
    BY <2>1 DEF Agree, Serial, MovedBy, Settled, PortAgrees, Busy
<1>2. CASE UNCHANGED vars
  BY <1>2 DEF vars, Agree, Serial, MovedBy, Settled, PortAgrees, Busy
<1>. QED
  BY <1>1, <1>2, RequestAgrees, PutAgrees, StopAgrees, ProcessAgrees DEF Next

(***************************************************************************)
(* No port is held twice: whoever opens a listener has looked at all.      *)
(***************************************************************************)
Held ==
  /\ foreign \subseteq Ports
  /\ \A s, t \in Servers : bound[s] # None =>
       bound[s] \notin foreign /\ (s # t => bound[s] # bound[t])
  /\ acked \in Ports \cup {None} /\ crashes \in 0..MaxCrashes /\ clean \in BOOLEAN

LEMMA HeldInit == Init => Held
BY Distinct DEF Init, Held

LEMMA OpensFree ==
  ASSUME Inv, Held, NEW s \in Servers, NEW p \in Ports, Free(p),
         bound' = [bound EXCEPT ![s] = p], foreign' = foreign
  PROVE  \A t, u \in Servers : bound'[t] # None =>
           bound'[t] \notin foreign' /\ (t # u => bound'[t] # bound'[u])
<1>1. bound'[s] = p /\ \A t \in Servers \ {s} : bound'[t] = bound[t]
  BY DEF Inv, Types
<1>2. p \notin foreign /\ p # None /\ \A t \in Servers : bound[t] # p
  BY Distinct DEF Free
<1>. QED
  BY <1>1, <1>2 DEF Held

LEMMA HeldNext == Inv /\ Held /\ [Next]_vars => Held'
<1>. SUFFICES ASSUME Inv, Held, [Next]_vars PROVE Held'
  OBVIOUS
<1>1. ASSUME NEW q \in Requests, Handle(q) PROVE Held'
  <2>1. CASE Listen(q) /\ Free(want[q])
    <3>1. /\ UNCHANGED <<foreign, crashes, clean, acked>> /\ pc[q] = "listen"
          /\ bound' = [bound EXCEPT ![q] = want[q]]
      BY <2>1 DEF Listen, hostVars
    <3>2. want[q] \in Ports /\ q \in Servers
      BY <3>1 DEF Inv, Types, Running, Servers
    <3>. QED
      BY <2>1, <3>1, <3>2, OpensFree DEF Held
  <2>2. CASE ~(Listen(q) /\ Free(want[q]))
    <3>1. UNCHANGED <<foreign, crashes, bound>> /\ pc[q] \in Running
      BY <1>1, <2>2 DEF Handle, Listen, PingOK, PingFails, TakeOver, Publish, SetConfig,
         TruncateConfig, WriteConfig, WriteConfigFails, StorePort, serverVars, hostVars, Running
    <3>2. clean' \in {clean, FALSE} /\ acked' \in {acked, want[q]}
      BY <1>1 DEF Handle, Listen, PingOK, PingFails, TakeOver, Publish, SetConfig,
         TruncateConfig, WriteConfig, WriteConfigFails, StorePort
    <3>. QED
      BY <3>1, <3>2 DEF Held, Inv, Types
  <2>. QED
    BY <2>1, <2>2
<1>2. ASSUME NEW q \in Requests, NEW p \in Ports, Put(q, p) PROVE Held'
  BY <1>2 DEF Put, serverVars, hostVars, Held
<1>3. ASSUME NEW s \in Servers, StopOld(s) PROVE Held'
  <2>1. UNCHANGED <<foreign, crashes, clean, acked>> /\ bound' = [bound EXCEPT ![s] = None]
    BY <1>3 DEF StopOld, hostVars
  <2>2. \A t \in Servers : bound'[t] = IF t = s THEN None ELSE bound[t]
    BY <2>1 DEF Inv, Types
  <2>. QED
    BY <2>1, <2>2 DEF Held
<1>4. ASSUME NEW p \in Ports, ForeignBinds(p) PROVE Held'
  BY <1>4 DEF ForeignBinds, Free, serverVars, Held
<1>5. ASSUME NEW p \in Ports, ForeignLeaves(p) PROVE Held'
  BY <1>5 DEF ForeignLeaves, serverVars, Held
<1>6. ASSUME NEW p \in Ports, ChoosePort(p) PROVE Held'
  BY <1>6 DEF ChoosePort, serverVars, Held
<1>7. CASE Crash
  BY <1>7, Distinct DEF Crash, Held
<1>8. CASE BootListen
  <2>1. port \in Ports /\ Boot \in Servers /\ UNCHANGED <<foreign, crashes>>
    BY <1>8 DEF BootListen, Inv, Lifted, Servers
  <2>2. CASE Free(port)
    BY <1>8, <2>1, <2>2, OpensFree DEF BootListen, Held
  <2>3. CASE ~Free(port)
    BY <1>8, <2>1, <2>3 DEF BootListen, Held
  <2>. QED
    BY <2>2, <2>3
<1>9. CASE UNCHANGED vars
  BY <1>9 DEF vars, Held
<1>. QED
  BY <1>1, <1>2, <1>3, <1>4, <1>5, <1>6, <1>7, <1>8, <1>9 DEF Next

\* After requests that ran one by one and none of which failed half way, the
\* gateway's listener, State's port, the ini file in memory and on disk and the
\* last acknowledged port are one, through any number of crashes and boots.
THEOREM PortsAgree == Spec => []PortsAgreeAtRest
<1>1. Inv /\ Agree /\ Held => PortsAgreeAtRest
  BY Distinct DEF Inv, Types, Agree, Held, PortsAgreeAtRest, TypeOK
<1>. QED
  BY <1>1, InvInit, InvNext, AgreeInit, AgreeNext, HeldInit, HeldNext, PTL DEF Spec

\* A gateway that comes back after a crash between requests listens on the port
\* it had acknowledged last.
THEOREM ComesBackOnItsPort == Spec => RestartKeepsPort
<1>1. Inv /\ Agree /\ [Next]_vars
        => [up = "booting" /\ up' = "up" /\ clean /\ acked # None => bound'[gateway'] = acked]_vars
  <2>. SUFFICES ASSUME Inv, Agree, Next, up = "booting", up' = "up", clean, acked # None
                PROVE  bound'[gateway'] = acked
    OBVIOUS
  <2>1. conf = acked /\ conf = port
    BY DEF Agree
  <2>2. \A q \in Requests : pc[q] \notin Running
    BY DEF Inv, Lifted
  <2>3. BootListen
    BY <2>2 DEF Next, Put, Handle, Listen, PingOK, PingFails, TakeOver, Publish, SetConfig,
       TruncateConfig, WriteConfig, WriteConfigFails, StorePort, StopOld, ChoosePort, Crash,
       ForeignBinds, ForeignLeaves, Running, hostVars
  <2>4. bound' = [bound EXCEPT ![Boot] = port] /\ gateway' = Boot
    BY <2>3 DEF BootListen
  <2>. QED
    BY <2>1, <2>4 DEF Inv, Types, Servers
<1>. QED
  BY <1>1, InvInit, InvNext, AgreeInit, AgreeNext, PTL DEF Spec, RestartKeepsPort
=============================================================================

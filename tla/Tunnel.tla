------------------------------- MODULE Tunnel -------------------------------
(***************************************************************************)
(* The reverse tunnels of the broker: the registry of                      *)
(* apps/api/src/tunnel.ts, the agent's and the browser's sockets of        *)
(* apps/api/src/broker.ts, and the metering that runs beside them.         *)
(*                                                                         *)
(* A tunnel id is a function of the device (tunnel-id.ts; nothing rotates  *)
(* it), so the registry is a map from devices and every handler that holds *)
(* an id finds whatever tunnel is registered under it now.  An agent       *)
(* socket registers at most once, so the socket stands for the tunnel      *)
(* object it created; a browser socket opens one stream and stands for it. *)
(*                                                                         *)
(* Each handler is atomic.  What interleaves: two sockets of one device,   *)
(* the older of which the broker still believes in; browsers that hold a   *)
(* tunnel object the registry replaced; the two database reads of meter(); *)
(* the clock and the sweeper.                                              *)
(***************************************************************************)
EXTENDS Naturals, FiniteSets

CONSTANTS
    Devices, Agents, Browsers,
    None,
    Lifetime,     \* quotas.maxMinutes
    MaxBytes,     \* quotas.maxBytes, every frame being one unit long
    MaxStreams,   \* quotas.maxStreams
    MaxTime       \* bound of the model's clock

ASSUME TunnelAssumption ==
    /\ IsFiniteSet(Browsers)
    /\ None \notin Devices \cup Agents \cup Browsers
    /\ Lifetime \in Nat \ {0}
    /\ MaxBytes \in Nat
    /\ MaxStreams \in Nat
    /\ MaxTime \in Nat

VARIABLES
    now,
    device,      \* the device an agent socket registered, None before
    agent,       \* state of each agent socket
    current,     \* the tunnel object registered under each device's id
    expiresAt,   \* of each tunnel object
    bytes,       \* charged to each tunnel object; MaxBytes + 1 means "over"
    owned,       \* tunnel.userId was resolved
    blocked,     \* tunnel.blocked
    streams,     \* tunnel.streams
    meter,       \* the await a tunnel's meter() is in: "idle", "owner", "plan"
    pinned,      \* the tunnel object a browser socket's handler holds
    browser,     \* state of each browser socket
    told,        \* history: browsers that were sent a close message
    view,        \* history: the streams each agent socket was told are open
    carried,     \* history: frames each tunnel object forwarded
    settled      \* history: how often each tunnel's usage was recorded

regVars  == <<current, streams, told, view>>
objVars  == <<device, expiresAt, owned, blocked, meter>>
vars == <<now, agent, browser, pinned, bytes, carried, settled, regVars, objVars>>

SocketState == {"none", "open", "closing", "closed"}

TypeOK ==
    /\ now \in 0 .. MaxTime
    /\ device \in [Agents -> Devices \cup {None}]
    /\ agent \in [Agents -> SocketState]
    /\ current \in [Devices -> Agents \cup {None}]
    /\ expiresAt \in [Agents -> Nat]
    /\ bytes \in [Agents -> 0 .. MaxBytes + 1]
    /\ owned \in [Agents -> BOOLEAN]
    /\ blocked \in [Agents -> BOOLEAN]
    /\ streams \in [Agents -> SUBSET Browsers]
    /\ meter \in [Agents -> {"idle", "owner", "plan"}]
    /\ pinned \in [Browsers -> Agents \cup {None}]
    /\ browser \in [Browsers -> SocketState]
    /\ told \subseteq Browsers
    /\ view \in [Agents -> SUBSET Browsers]
    /\ carried \in [Agents -> Nat]
    /\ settled \in [Agents -> Nat]

Init ==
    /\ now = 0
    /\ device = [a \in Agents |-> None]
    /\ agent = [a \in Agents |-> "none"]
    /\ current = [d \in Devices |-> None]
    /\ expiresAt = [a \in Agents |-> 0]
    /\ bytes = [a \in Agents |-> 0]
    /\ owned = [a \in Agents |-> FALSE]
    /\ blocked = [a \in Agents |-> FALSE]
    /\ streams = [a \in Agents |-> {}]
    /\ meter = [a \in Agents |-> "idle"]
    /\ pinned = [b \in Browsers |-> None]
    /\ browser = [b \in Browsers |-> "none"]
    /\ told = {}
    /\ view = [a \in Agents |-> {}]
    /\ carried = [a \in Agents |-> 0]
    /\ settled = [a \in Agents |-> 0]

-----------------------------------------------------------------------------
(***************************************************************************)
(* The registry.                                                           *)
(***************************************************************************)
Live(d) == current[d] # None /\ expiresAt[current[d]] > now

\* The browsers of S that a close message reaches.
HearsNone(S) == {}                                      \* mutant of Hears
Hears(S) == {b \in S : browser[b] = "open"}

\* What drop() leaves of the streams of a dropped tunnel.
KeepStreams(t) == streams[t]                            \* mutant of ClearStreams
ClearStreams(t) == {}

\* drop() of the tunnels in D's ids, whose map entries become `new`.
DropAll(D, new) ==
    LET gone == {t \in Agents : \E d \in D : current[d] = t} IN
    /\ current' = [d \in Devices |-> IF d \in D THEN new ELSE current[d]]
    /\ streams' = [t \in Agents |->
                     IF t \in gone THEN ClearStreams(t) ELSE streams[t]]
    /\ told' = told \cup Hears(UNION {streams[t] : t \in gone})
    /\ view' = [t \in Agents |->
                  IF t \in gone /\ agent[t] = "open" THEN {} ELSE view[t]]

Drop(d) == DropAll({d}, None)

\* What closing a stream tells its agent.
AgentHears(t, B) == IF agent[t] = "open" THEN view[t] \ B ELSE view[t]

\* closeStream(), for the streams B the tunnel carries among S.
CloseStream(t, S) ==
    LET B == streams[t] \cap S IN
    /\ streams' = [streams EXCEPT ![t] = @ \ B]
    /\ told' = told \cup Hears(B)
    /\ view' = [view EXCEPT ![t] = AgentHears(t, B)]
    /\ UNCHANGED current

\* charge(): would this frame exceed the quota?
Over(t) == bytes[t] + 1 > MaxBytes
Charged(t) == [bytes EXCEPT ![t] = IF Over(t) THEN MaxBytes + 1 ELSE @ + 1]
Carried(t) == [carried EXCEPT ![t] = @ + 1]

Deadline == now + Lifetime

CloseSocket(state) == IF state = "open" THEN "closing" ELSE state

-----------------------------------------------------------------------------
(***************************************************************************)
(* WS /v1/agent.                                                           *)
(***************************************************************************)
AgentConnects(a) ==
    /\ agent[a] = "none"
    /\ agent' = [agent EXCEPT ![a] = "open"]
    /\ UNCHANGED <<now, browser, pinned, bytes, carried, settled, regVars, objVars>>

AgentSpeaks(a) == agent[a] \in {"open", "closing"}

\* tunnel:register with a valid signature: replaces the device's tunnel,
\* under the same id, and starts to meter the new one.
AgentRegisters(a, d) ==
    /\ AgentSpeaks(a)
    /\ device[a] = None
    /\ Deadline <= MaxTime
    /\ DropAll({d}, a)
    /\ device' = [device EXCEPT ![a] = d]
    /\ expiresAt' = [expiresAt EXCEPT ![a] = Deadline]
    /\ meter' = [meter EXCEPT ![a] = "owner"]
    /\ UNCHANGED <<now, agent, browser, pinned, bytes, carried, settled,
                   owned, blocked>>

\* A malformed or unexpected message, a registration that does not verify, or
\* a second one.
AgentMisspeaks(a) ==
    /\ agent[a] = "open"
    /\ agent' = [agent EXCEPT ![a] = "closing"]
    /\ UNCHANGED <<now, browser, pinned, bytes, carried, settled, regVars, objVars>>

\* A message on a socket whose id no longer leads to a tunnel.
AgentTunnelGone(a) ==
    /\ AgentSpeaks(a) /\ device[a] # None
    /\ ~Live(device[a])
    /\ Drop(device[a])
    /\ agent' = [agent EXCEPT ![a] = CloseSocket(@)]
    /\ UNCHANGED <<now, browser, pinned, bytes, carried, settled, objVars>>

\* stream:close and stream:frame, on whatever tunnel has the id now.
AgentClosesStream(a, b) ==
    /\ AgentSpeaks(a) /\ device[a] # None
    /\ Live(device[a])
    /\ CloseStream(current[device[a]], {b})
    /\ UNCHANGED <<now, agent, browser, pinned, bytes, carried, settled, objVars>>

AgentFrame(a) ==
    LET t == current[device[a]] IN
    /\ AgentSpeaks(a) /\ device[a] # None
    /\ Live(device[a])
    /\ bytes' = Charged(t)
    /\ \/ /\ Over(t)
          /\ Drop(device[a])
          /\ agent' = [agent EXCEPT ![a] = CloseSocket(@)]
          /\ UNCHANGED carried
       \/ /\ ~Over(t)
          /\ carried' = Carried(t)
          /\ UNCHANGED <<agent, regVars>>
    /\ UNCHANGED <<now, browser, pinned, settled, objVars>>

\* The tunnel an agent socket's close event closes: the one the id leads to.
ClosesNone(a) == {}                                     \* mutant of ClosedBy
ClosedBy(a) == IF device[a] = None THEN {} ELSE {device[a]}

\* The close event.  A half-open socket gets it from the keepalive, long after
\* the machine reconnected.
AgentSocketCloses(a) ==
    LET billed == {current[d] : d \in {e \in {device[a]} \ {None} : Live(e)}} IN
    /\ AgentSpeaks(a)
    /\ settled' = [t \in Agents |->
                     IF t \in billed /\ owned[t] THEN settled[t] + 1 ELSE settled[t]]
    /\ DropAll(ClosedBy(a), None)
    /\ agent' = [agent EXCEPT ![a] = "closed"]
    /\ UNCHANGED <<now, browser, pinned, bytes, carried, objVars>>

-----------------------------------------------------------------------------
(***************************************************************************)
(* meter(): two database reads, each of which may fail or find nothing.    *)
(***************************************************************************)
MeterOwner(t, found) ==
    /\ meter[t] = "owner"
    /\ owned' = [owned EXCEPT ![t] = found]
    /\ meter' = [meter EXCEPT ![t] = IF found THEN "plan" ELSE "idle"]
    /\ UNCHANGED <<now, agent, browser, pinned, bytes, carried, settled, regVars,
                   device, expiresAt, blocked>>

\* The tunnels a refused plan closes: again by id.
BlockedBy(t) == {device[t]}

MeterPlan(t, allowed) ==
    /\ meter[t] = "plan"
    /\ meter' = [meter EXCEPT ![t] = "idle"]
    /\ \/ allowed /\ UNCHANGED <<blocked, regVars>>
       \/ /\ ~allowed
          /\ blocked' = [blocked EXCEPT ![t] = TRUE]
          /\ DropAll(BlockedBy(t), None)
    /\ UNCHANGED <<now, agent, browser, pinned, bytes, carried, settled,
                   device, expiresAt, owned>>

-----------------------------------------------------------------------------
(***************************************************************************)
(* WS /v1/tunnel/:tunnelId.                                                *)
(***************************************************************************)
Room(t) == Cardinality(streams[t]) < MaxStreams

AttachTunnelSocket(b, d) ==
    LET t == current[d] IN
    /\ browser[b] = "none"
    /\ Live(d)
    /\ ~blocked[t]
    /\ Room(t)
    /\ browser' = [browser EXCEPT ![b] = "open"]
    /\ pinned' = [pinned EXCEPT ![b] = t]
    /\ streams' = [streams EXCEPT ![t] = @ \cup {b}]
    /\ view' = [view EXCEPT ![t] = IF agent[t] = "open" THEN @ \cup {b} ELSE @]
    /\ UNCHANGED <<now, agent, bytes, carried, settled, current, told, objVars>>

AttachTunnelRefused(b, d) ==
    /\ browser[b] = "none"
    /\ \/ ~Live(d) /\ Drop(d)
       \/ /\ Live(d)
          /\ blocked[current[d]] \/ ~Room(current[d])
          /\ UNCHANGED regVars
    /\ browser' = [browser EXCEPT ![b] = "closed"]
    /\ UNCHANGED <<now, agent, pinned, bytes, carried, settled, objVars>>

BrowserSpeaks(b) == browser[b] \in {"open", "closing"}

\* stream:frame: charged to, and forwarded by, the tunnel the handler holds;
\* an exhausted quota closes whatever tunnel has that tunnel's id.
BrowserFrame(b) ==
    LET t == pinned[b] IN
    /\ BrowserSpeaks(b)
    /\ bytes' = Charged(t)
    /\ \/ /\ Over(t)
          /\ Drop(device[t])
          /\ browser' = [browser EXCEPT ![b] = CloseSocket(@)]
          /\ UNCHANGED carried
       \/ /\ ~Over(t)
          /\ carried' = Carried(t)
          /\ UNCHANGED <<browser, regVars>>
    /\ UNCHANGED <<now, agent, pinned, settled, objVars>>

BrowserClosesStream(b) ==
    /\ BrowserSpeaks(b)
    /\ CloseStream(pinned[b], {b})
    /\ browser' = [browser EXCEPT ![b] = CloseSocket(@)]
    /\ UNCHANGED <<now, agent, pinned, bytes, carried, settled, objVars>>

BrowserMisspeaks(b) ==
    /\ browser[b] = "open"
    /\ browser' = [browser EXCEPT ![b] = "closing"]
    /\ UNCHANGED <<now, agent, pinned, bytes, carried, settled, regVars, objVars>>

\* The stream a browser's close event closes: its own, if the tunnel that has
\* the id now carries it.
LeavesStream(b) == {}                                   \* mutant of ClosesOf
ClosesOf(b) == {b}

BrowserSocketCloses(b) ==
    LET d == device[pinned[b]] IN
    /\ BrowserSpeaks(b)
    /\ browser' = [browser EXCEPT ![b] = "closed"]
    /\ \/ ~Live(d) /\ Drop(d)
       \/ Live(d) /\ CloseStream(current[d], ClosesOf(b))
    /\ UNCHANGED <<now, agent, pinned, bytes, carried, settled, objVars>>

-----------------------------------------------------------------------------
\* What tunnels.sweep() drops.
SweepsNothing == {}                                     \* mutant of Lapsed
Lapsed == {d \in Devices : current[d] # None /\ ~Live(d)}

Sweep ==
    /\ DropAll(Lapsed, None)
    /\ UNCHANGED <<now, agent, browser, pinned, bytes, carried, settled, objVars>>

Tick ==
    /\ now < MaxTime
    /\ now' = now + 1
    /\ UNCHANGED <<agent, browser, pinned, bytes, carried, settled, regVars, objVars>>

AgentStep(a) ==
    \/ AgentConnects(a)
    \/ \E d \in Devices : AgentRegisters(a, d)
    \/ AgentMisspeaks(a)
    \/ AgentTunnelGone(a)
    \/ \E b \in Browsers : AgentClosesStream(a, b)
    \/ AgentFrame(a)
    \/ AgentSocketCloses(a)
    \/ \E found \in BOOLEAN : MeterOwner(a, found)
    \/ \E allowed \in BOOLEAN : MeterPlan(a, allowed)

BrowserStep(b) ==
    \/ \E d \in Devices : AttachTunnelSocket(b, d) \/ AttachTunnelRefused(b, d)
    \/ BrowserFrame(b)
    \/ BrowserClosesStream(b)
    \/ BrowserMisspeaks(b)
    \/ BrowserSocketCloses(b)

Next ==
    \/ \E a \in Agents : AgentStep(a)
    \/ \E b \in Browsers : BrowserStep(b)
    \/ Sweep
    \/ Tick

Spec == Init /\ [][Next]_vars

\* The sweeper's interval and the clock; nothing is assumed of the sockets.
FairSpec == Spec /\ WF_vars(Sweep) /\ WF_vars(Tick)

-----------------------------------------------------------------------------
(***************************************************************************)
(* Properties.                                                             *)
(***************************************************************************)

\* No stream slot leaks (tunnel.ts:133-161, broker.ts:1286-1289): a stream the
\* registry counts is on a registered tunnel and has a browser behind it,
\* whatever the order of reconnects, replaced sockets and closes.
NoLeakedStream ==
    \A t \in Agents : \A b \in streams[t] :
        /\ device[t] # None /\ current[device[t]] = t
        /\ browser[b] \in {"open", "closing"} /\ pinned[b] = t

\* The cap on the sockets a leaked id can open on a machine
\* (tunnel.ts:207-219): no tunnel ever has more than MaxStreams streams.
StreamCap == \A t \in Agents : Cardinality(streams[t]) <= MaxStreams

\* A browser is never left talking to nothing (tunnel.ts:136-139, 238-244): one
\* that is connected is carried by its tunnel or was sent a close message.
BrowserCarriedOrTold ==
    \A b \in Browsers :
        browser[b] = "open" => b \in streams[pinned[b]] \/ b \in told

\* The agent's streams are the broker's (tunnel.ts:221-229, 238-244): what a
\* connected agent was told is open is what its tunnel carries, so it neither
\* keeps loopback sockets for dead streams nor misses a live one.
AgentViewAgrees ==
    \A a \in Agents : agent[a] = "open" => view[a] = streams[a]

\* The streams of a tunnel are accounted for at all three places that count
\* them: the registry, the browsers and the agent (tunnel.ts:133-161, 207-244).
StreamsAccounted ==
    /\ TypeOK
    /\ NoLeakedStream
    /\ StreamCap
    /\ AgentViewAgrees

\* A refused plan ends the tunnel it was asked about (broker.ts:396-401), even
\* when the answer arrives after that tunnel was replaced.
BlockedIsGone ==
    \A t \in Agents : blocked[t] => \A d \in Devices : current[d] # t

\* No double billing (broker.ts:1103-1109): a tunnel's usage is recorded at most
\* once, although any socket of the device may close the tunnel.
BilledOnce == \A t \in Agents : settled[t] <= 1

\* The byte quota (tunnel.ts:246-253) holds to the frame, also for browsers that
\* hold a tunnel the registry has dropped.
QuotaHolds == \A t \in Agents : carried[t] <= MaxBytes

\* What a plan allows is what is carried and billed, although the answers to
\* metering arrive late (broker.ts:384-401, 1103-1109, tunnel.ts:246-253).
PlanIsKept == BlockedIsGone /\ BilledOnce /\ QuotaHolds

\* A tunnel nobody uses is still closed at the end of its lifetime
\* (tunnel.ts:255-258).
LifetimeEnds ==
    \A d \in Devices, t \in Agents : current[d] = t ~> current[d] # t

\* sealed-tunnel.mdx: a reconnecting agent "replaces its socket without
\* invalidating the tunnel id".  The tunnel a newer socket registered is not
\* closed by the close event of an older one.  This does not hold: see
\* broker.ts:1108.
NewerTunnelSurvives ==
    [][\A a \in Agents, d \in Devices :
          /\ agent[a] # "closed" /\ agent'[a] = "closed"
          /\ Live(d) /\ current[d] # a
          => current'[d] = current[d]]_vars
=============================================================================

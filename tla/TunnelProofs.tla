---------------------------- MODULE TunnelProofs ----------------------------
(***************************************************************************)
(* Proofs about Tunnel for any number of devices, agent sockets and        *)
(* browsers and any quotas.                                                *)
(***************************************************************************)
EXTENDS Tunnel, TLAPS, FiniteSetTheorems

\* The registry's entry under a device's id is a tunnel of that device.
Registered ==
    \A d \in Devices : current[d] # None => device[current[d]] = d

\* A socket that has not connected has no tunnel and was told of no stream.
Unborn ==
    \A a \in Agents : agent[a] = "none" => device[a] = None /\ view[a] = {}

\* What happens to a tunnel object happens after its socket registered it.
Unregistered ==
    \A a \in Agents : device[a] = None =>
        meter[a] = "idle" /\ ~blocked[a] /\ settled[a] = 0

\* A browser's handler holds a tunnel that was registered.
Held ==
    \A b \in Browsers : BrowserSpeaks(b) =>
        pinned[b] \in Agents /\ device[pinned[b]] # None

RegistryInv ==
    /\ TypeOK
    /\ Registered
    /\ Unborn
    /\ Held
    /\ NoLeakedStream
    /\ StreamCap
    /\ AgentViewAgrees
    /\ BrowserCarriedOrTold

\* A tunnel whose usage was recorded left the registry for good.
SettledIsGone ==
    \A t \in Agents : settled[t] # 0 => \A d \in Devices : current[d] # t

\* Every frame that was forwarded was charged.
CarriedIsCharged == \A t \in Agents : carried[t] <= bytes[t]

PlanInv ==
    /\ Unregistered
    /\ PlanIsKept
    /\ SettledIsGone
    /\ CarriedIsCharged

-----------------------------------------------------------------------------
\* What drop() does to each tunnel, registered under a dropped id or not.
LEMMA DropEffect ==
    ASSUME TypeOK, NEW D \in SUBSET Devices, NEW new \in Agents \cup {None},
           DropAll(D, new)
    PROVE  /\ current' \in [Devices -> Agents \cup {None}]
           /\ streams' \in [Agents -> SUBSET Browsers]
           /\ told' \subseteq Browsers
           /\ view' \in [Agents -> SUBSET Browsers]
           /\ told \subseteq told'
           /\ \A d \in Devices : current'[d] = IF d \in D THEN new ELSE current[d]
           /\ \A t \in Agents : (\E d \in D : current[d] = t) =>
                 /\ streams'[t] = {}
                 /\ agent[t] = "open" => view'[t] = {}
                 /\ \A b \in streams[t] : browser[b] = "open" => b \in told'
           /\ \A t \in Agents : ~(\E d \in D : current[d] = t) =>
                 streams'[t] = streams[t] /\ view'[t] = view[t]
           /\ \A t \in Agents : view'[t] = view[t] \/ view'[t] = {}
  <1>1. UNION {streams[t] : t \in {t \in Agents : \E d \in D : current[d] = t}}
          \subseteq Browsers
    BY DEF TypeOK
  <1>2. told' \subseteq Browsers /\ told \subseteq told'
    BY <1>1 DEF TypeOK, DropAll, Hears
  <1>3. \A t \in Agents : (\E d \in D : current[d] = t) =>
           \A b \in streams[t] : browser[b] = "open" => b \in told'
    BY DEF DropAll, Hears
  <1>4. current' \in [Devices -> Agents \cup {None}]
    BY DEF TypeOK, DropAll
  <1>5. streams' \in [Agents -> SUBSET Browsers] /\ view' \in [Agents -> SUBSET Browsers]
    BY DEF TypeOK, DropAll, ClearStreams
  <1> QED BY <1>2, <1>3, <1>4, <1>5 DEF DropAll, ClearStreams

\* What closeStream() does to the tunnel t and to the others.
LEMMA CloseEffect ==
    ASSUME TypeOK, NEW t \in Agents, NEW S \in SUBSET Browsers, CloseStream(t, S)
    PROVE  /\ streams' \in [Agents -> SUBSET Browsers]
           /\ told' \subseteq Browsers
           /\ view' \in [Agents -> SUBSET Browsers]
           /\ current' = current
           /\ told \subseteq told'
           /\ streams'[t] = streams[t] \ S
           /\ agent[t] = "open" => view'[t] = view[t] \ (streams[t] \cap S)
           /\ \A b \in streams[t] \cap S : browser[b] = "open" => b \in told'
           /\ \A u \in Agents : u # t => streams'[u] = streams[u] /\ view'[u] = view[u]
           /\ \A u \in Agents : view'[u] \subseteq view[u]
  BY DEF TypeOK, CloseStream, Hears, AgentHears

\* A part of a set of streams is no larger than the whole.
LEMMA FewerStreams ==
    ASSUME TunnelAssumption, NEW S \in SUBSET Browsers, NEW T \in SUBSET S,
           Cardinality(S) <= MaxStreams
    PROVE  Cardinality(T) <= MaxStreams
  <1>1. IsFiniteSet(S) BY FS_Subset DEF TunnelAssumption
  <1>2. IsFiniteSet(T) /\ Cardinality(T) <= Cardinality(S) BY <1>1, FS_Subset
  <1>3. Cardinality(T) \in Nat /\ Cardinality(S) \in Nat
    BY <1>1, <1>2, FS_CardinalityType
  <1> QED BY <1>2, <1>3 DEF TunnelAssumption

\* One more stream where there is room.
LEMMA OneMoreStream ==
    ASSUME TunnelAssumption, NEW S \in SUBSET Browsers, NEW b \in Browsers,
           Cardinality(S) < MaxStreams
    PROVE  Cardinality(S \cup {b}) <= MaxStreams
  <1>1. IsFiniteSet(S) BY FS_Subset DEF TunnelAssumption
  <1>2. \/ Cardinality(S \cup {b}) = Cardinality(S)
        \/ Cardinality(S \cup {b}) = Cardinality(S) + 1
    BY <1>1, FS_AddElement
  <1>3. Cardinality(S) \in Nat BY <1>1, FS_CardinalityType
  <1> QED BY <1>2, <1>3 DEF TunnelAssumption
-----------------------------------------------------------------------------
(***************************************************************************)
(* The registry's invariant.                                               *)
(***************************************************************************)

\* Sockets only move towards their end, and a browser that is gone is on no
\* stream.
SocketsAge ==
    /\ agent' \in [Agents -> SocketState]
    /\ browser' \in [Browsers -> SocketState]
    /\ \A a \in Agents : (agent'[a] = "open" => agent[a] = "open")
                      /\ (agent'[a] = "none" => agent[a] = "none")
    /\ \A b \in Browsers :
          /\ browser'[b] = "open" => browser[b] = "open"
          /\ BrowserSpeaks(b)' => BrowserSpeaks(b)
          /\ BrowserSpeaks(b) /\ ~BrowserSpeaks(b)' =>
                \A t \in Agents : b \notin streams'[t]

\* The variables of TypeOK that the registry's handlers do not share.
RestTyped ==
    /\ now' \in 0 .. MaxTime
    /\ bytes' \in [Agents -> 0 .. MaxBytes + 1]
    /\ owned' \in [Agents -> BOOLEAN]
    /\ blocked' \in [Agents -> BOOLEAN]
    /\ meter' \in [Agents -> {"idle", "owner", "plan"}]
    /\ carried' \in [Agents -> Nat]
    /\ settled' \in [Agents -> Nat]

\* Dropping registered tunnels keeps the registry's invariant, whatever else
\* the handler does to sockets and counters.
LEMMA DropKeeps ==
    ASSUME RegistryInv, NEW D \in SUBSET Devices, DropAll(D, None), SocketsAge,
           RestTyped, UNCHANGED <<device, expiresAt, pinned>>
    PROVE  RegistryInv'
  <1> USE DEF RegistryInv
  <1>0. TunnelAssumption BY TunnelAssumption
  <1>1. /\ current' \in [Devices -> Agents \cup {None}]
        /\ streams' \in [Agents -> SUBSET Browsers]
        /\ told' \subseteq Browsers
        /\ view' \in [Agents -> SUBSET Browsers]
        /\ told \subseteq told'
        /\ \A d \in Devices : current'[d] = IF d \in D THEN None ELSE current[d]
        /\ \A t \in Agents : (\E d \in D : current[d] = t) =>
              /\ streams'[t] = {}
              /\ agent[t] = "open" => view'[t] = {}
              /\ \A b \in streams[t] : browser[b] = "open" => b \in told'
        /\ \A t \in Agents : ~(\E d \in D : current[d] = t) =>
              streams'[t] = streams[t] /\ view'[t] = view[t]
        /\ \A t \in Agents : view'[t] = view[t] \/ view'[t] = {}
    BY DropEffect
  <1>2. TypeOK' BY <1>1 DEF TypeOK, RestTyped, SocketsAge
  <1>3. Registered' BY <1>1 DEF Registered
  <1>4. Unborn' BY <1>1 DEF Unborn, SocketsAge
  <1>5. Held' BY DEF Held, SocketsAge
  <1>6. NoLeakedStream'
    <2> SUFFICES ASSUME NEW t \in Agents, NEW b \in streams'[t]
                 PROVE  /\ device[t] # None /\ current'[device[t]] = t
                        /\ browser'[b] \in {"open", "closing"} /\ pinned[b] = t
      BY DEF NoLeakedStream
    <2>1. ~\E d \in D : current[d] = t BY <1>1
    <2>2. b \in streams[t] /\ b \in Browsers BY <1>1, <2>1 DEF TypeOK
    <2>3. /\ device[t] # None /\ current[device[t]] = t
          /\ BrowserSpeaks(b) /\ pinned[b] = t
      BY <2>2 DEF NoLeakedStream, BrowserSpeaks
    <2>4. current'[device[t]] = t BY <1>1, <2>1, <2>3 DEF TypeOK
    <2>5. BrowserSpeaks(b)' BY <2>2, <2>3 DEF SocketsAge
    <2> QED BY <2>3, <2>4, <2>5 DEF BrowserSpeaks
  <1>7. StreamCap'
    <2> SUFFICES ASSUME NEW t \in Agents PROVE Cardinality(streams'[t]) <= MaxStreams
      BY DEF StreamCap
    <2>1. streams'[t] \in SUBSET streams[t] /\ streams[t] \in SUBSET Browsers
      BY <1>1 DEF TypeOK
    <2>2. Cardinality(streams[t]) <= MaxStreams BY DEF StreamCap
    <2> QED BY <1>0, <2>1, <2>2, FewerStreams
  <1>8. AgentViewAgrees' BY <1>1 DEF AgentViewAgrees, SocketsAge
  <1>9. BrowserCarriedOrTold'
    <2> SUFFICES ASSUME NEW b \in Browsers, browser'[b] = "open"
                 PROVE  b \in streams'[pinned[b]] \/ b \in told'
      BY DEF BrowserCarriedOrTold
    <2>1. browser[b] = "open" BY DEF SocketsAge
    <2>2. pinned[b] \in Agents BY <2>1 DEF Held, BrowserSpeaks
    <2>3. b \in streams[pinned[b]] \/ b \in told BY <2>1 DEF BrowserCarriedOrTold
    <2> QED BY <1>1, <2>1, <2>2, <2>3
  <1> QED BY <1>2, <1>3, <1>4, <1>5, <1>6, <1>7, <1>8, <1>9

\* Closing streams of one tunnel keeps the registry's invariant.
LEMMA CloseKeeps ==
    ASSUME RegistryInv, NEW t \in Agents, NEW S \in SUBSET Browsers,
           CloseStream(t, S), SocketsAge,
           RestTyped, UNCHANGED <<device, expiresAt, pinned>>
    PROVE  RegistryInv'
  <1> USE DEF RegistryInv
  <1>0. TunnelAssumption BY TunnelAssumption
  <1>1. /\ streams' \in [Agents -> SUBSET Browsers]
        /\ told' \subseteq Browsers
        /\ view' \in [Agents -> SUBSET Browsers]
        /\ current' = current
        /\ told \subseteq told'
        /\ streams'[t] = streams[t] \ S
        /\ agent[t] = "open" => view'[t] = view[t] \ (streams[t] \cap S)
        /\ \A b \in streams[t] \cap S : browser[b] = "open" => b \in told'
        /\ \A u \in Agents : u # t => streams'[u] = streams[u] /\ view'[u] = view[u]
        /\ \A u \in Agents : view'[u] \subseteq view[u]
    BY CloseEffect
  <1>2. TypeOK' BY <1>1 DEF TypeOK, RestTyped, SocketsAge
  <1>3. Registered' BY <1>1 DEF Registered
  <1>4. Unborn' BY <1>1 DEF Unborn, SocketsAge
  <1>5. Held' BY DEF Held, SocketsAge
  <1>6. NoLeakedStream'
    <2> SUFFICES ASSUME NEW u \in Agents, NEW b \in streams'[u]
                 PROVE  /\ device[u] # None /\ current'[device[u]] = u
                        /\ browser'[b] \in {"open", "closing"} /\ pinned[b] = u
      BY DEF NoLeakedStream
    <2>1. b \in streams[u] /\ b \in Browsers BY <1>1 DEF TypeOK
    <2>2. /\ device[u] # None /\ current[device[u]] = u
          /\ BrowserSpeaks(b) /\ pinned[b] = u
      BY <2>1 DEF NoLeakedStream, BrowserSpeaks
    <2>3. BrowserSpeaks(b)' BY <2>1, <2>2 DEF SocketsAge
    <2> QED BY <1>1, <2>2, <2>3 DEF BrowserSpeaks
  <1>7. StreamCap'
    <2> SUFFICES ASSUME NEW u \in Agents PROVE Cardinality(streams'[u]) <= MaxStreams
      BY DEF StreamCap
    <2>1. streams'[u] \in SUBSET streams[u] /\ streams[u] \in SUBSET Browsers
      BY <1>1 DEF TypeOK
    <2>2. Cardinality(streams[u]) <= MaxStreams BY DEF StreamCap
    <2> QED BY <1>0, <2>1, <2>2, FewerStreams
  <1>8. AgentViewAgrees'
    <2> SUFFICES ASSUME NEW u \in Agents, agent'[u] = "open" PROVE view'[u] = streams'[u]
      BY DEF AgentViewAgrees
    <2>1. view[u] = streams[u] /\ agent[u] = "open" BY DEF AgentViewAgrees, SocketsAge
    <2> QED BY <1>1, <2>1
  <1>9. BrowserCarriedOrTold'
    <2> SUFFICES ASSUME NEW b \in Browsers, browser'[b] = "open"
                 PROVE  b \in streams'[pinned[b]] \/ b \in told'
      BY DEF BrowserCarriedOrTold
    <2>1. browser[b] = "open" BY DEF SocketsAge
    <2>2. pinned[b] \in Agents BY <2>1 DEF Held, BrowserSpeaks
    <2>3. b \in streams[pinned[b]] \/ b \in told BY <2>1 DEF BrowserCarriedOrTold
    <2> QED BY <1>1, <2>1, <2>2, <2>3
  <1> QED BY <1>2, <1>3, <1>4, <1>5, <1>6, <1>7, <1>8, <1>9

\* A step that leaves the registry alone keeps its invariant.
LEMMA IdleKeeps ==
    ASSUME RegistryInv, UNCHANGED regVars, SocketsAge,
           RestTyped, UNCHANGED <<device, expiresAt, pinned>>
    PROVE  RegistryInv'
  <1> USE DEF RegistryInv, regVars
  <1>1. TypeOK' BY DEF TypeOK, RestTyped, SocketsAge
  <1>2. Registered' BY DEF Registered
  <1>3. Unborn' BY DEF Unborn, SocketsAge
  <1>4. Held' BY DEF Held, SocketsAge
  <1>5. NoLeakedStream'
    BY DEF NoLeakedStream, SocketsAge, BrowserSpeaks, TypeOK
  <1>6. StreamCap' BY DEF StreamCap
  <1>7. AgentViewAgrees' BY DEF AgentViewAgrees, SocketsAge
  <1>8. BrowserCarriedOrTold' BY DEF BrowserCarriedOrTold, SocketsAge
  <1> QED BY <1>1, <1>2, <1>3, <1>4, <1>5, <1>6, <1>7, <1>8

\* A socket connects: no tunnel is its own yet.
LEMMA ConnectKeeps ==
    ASSUME RegistryInv, NEW a \in Agents, AgentConnects(a)
    PROVE  RegistryInv'
  <1> USE DEF RegistryInv, AgentConnects, regVars, objVars
  <1>1. TypeOK' BY DEF TypeOK, SocketState
  <1>2. Registered' /\ StreamCap' BY DEF Registered, StreamCap
  <1>3. Unborn' BY DEF Unborn, TypeOK
  <1>4. Held' /\ NoLeakedStream' /\ BrowserCarriedOrTold'
    BY DEF Held, BrowserSpeaks, NoLeakedStream, BrowserCarriedOrTold
  <1>5. streams[a] = {} /\ view[a] = {} BY DEF Unborn, NoLeakedStream, TypeOK
  <1>6. AgentViewAgrees' BY <1>5 DEF AgentViewAgrees, TypeOK
  <1> QED BY <1>1, <1>2, <1>3, <1>4, <1>6

\* A registration replaces the device's tunnel; the browsers of the old one
\* are told, and the new one has no stream.
LEMMA RegisterKeeps ==
    ASSUME RegistryInv, NEW a \in Agents, NEW d \in Devices, AgentRegisters(a, d)
    PROVE  RegistryInv'
  <1> USE DEF RegistryInv
  <1>0. TunnelAssumption BY TunnelAssumption
  <1>1. /\ current' \in [Devices -> Agents \cup {None}]
        /\ streams' \in [Agents -> SUBSET Browsers]
        /\ told' \subseteq Browsers
        /\ view' \in [Agents -> SUBSET Browsers]
        /\ told \subseteq told'
        /\ \A e \in Devices : current'[e] = IF e \in {d} THEN a ELSE current[e]
        /\ \A t \in Agents : (\E e \in {d} : current[e] = t) =>
              /\ streams'[t] = {}
              /\ agent[t] = "open" => view'[t] = {}
              /\ \A b \in streams[t] : browser[b] = "open" => b \in told'
        /\ \A t \in Agents : ~(\E e \in {d} : current[e] = t) =>
              streams'[t] = streams[t] /\ view'[t] = view[t]
        /\ \A t \in Agents : view'[t] = view[t] \/ view'[t] = {}
    BY DropEffect DEF AgentRegisters
  <1>2. /\ device[a] = None /\ AgentSpeaks(a)
        /\ device' = [device EXCEPT ![a] = d]
        /\ UNCHANGED <<agent, browser, pinned>>
    BY DEF AgentRegisters
  <1>3. d # None BY <1>0 DEF TunnelAssumption
  <1>4. TypeOK'
    <2>1. Deadline \in Nat BY <1>0 DEF TypeOK, Deadline, TunnelAssumption
    <2>2. /\ expiresAt' \in [Agents -> Nat]
          /\ meter' \in [Agents -> {"idle", "owner", "plan"}]
          /\ device' \in [Agents -> Devices \cup {None}]
      BY <2>1 DEF TypeOK, AgentRegisters
    <2>3. UNCHANGED <<now, agent, browser, pinned, bytes, carried, settled, owned, blocked>>
      BY DEF AgentRegisters
    <2> QED BY <1>1, <2>2, <2>3 DEF TypeOK
  <1>5. Registered'
    <2> SUFFICES ASSUME NEW e \in Devices, current'[e] # None
                 PROVE  device'[current'[e]] = e
      BY DEF Registered
    <2>1. CASE e = d BY <1>1, <1>2, <2>1 DEF TypeOK
    <2>2. CASE e # d
      <3>1. current'[e] = current[e] /\ device[current[e]] = e BY <1>1, <2>2 DEF Registered
      <3>2. current[e] \in Agents /\ current[e] # a
        BY <3>1, <1>0, <1>2 DEF TypeOK, TunnelAssumption
      <3> QED BY <1>2, <3>1, <3>2 DEF TypeOK
    <2> QED BY <2>1, <2>2
  <1>6. Unborn' BY <1>1, <1>2 DEF Unborn, AgentSpeaks, TypeOK
  <1>7. Held' BY <1>2, <1>3 DEF Held, BrowserSpeaks, TypeOK
  <1>8. NoLeakedStream'
    <2> SUFFICES ASSUME NEW t \in Agents, NEW b \in streams'[t]
                 PROVE  /\ device'[t] # None /\ current'[device'[t]] = t
                        /\ browser[b] \in {"open", "closing"} /\ pinned[b] = t
      BY <1>2 DEF NoLeakedStream
    <2>1. current[d] # t /\ b \in streams[t] BY <1>1
    <2>2. /\ device[t] # None /\ current[device[t]] = t
          /\ browser[b] \in {"open", "closing"} /\ pinned[b] = t
      BY <2>1 DEF NoLeakedStream
    <2>3. t # a /\ device[t] # d /\ device[t] \in Devices BY <1>2, <2>1, <2>2 DEF TypeOK
    <2>4. device'[t] = device[t] BY <1>2, <2>3 DEF TypeOK
    <2> QED BY <1>1, <2>2, <2>3, <2>4
  <1>9. StreamCap'
    <2> SUFFICES ASSUME NEW t \in Agents PROVE Cardinality(streams'[t]) <= MaxStreams
      BY DEF StreamCap
    <2>1. streams'[t] \in SUBSET streams[t] /\ streams[t] \in SUBSET Browsers
      BY <1>1 DEF TypeOK
    <2>2. Cardinality(streams[t]) <= MaxStreams BY DEF StreamCap
    <2> QED BY <1>0, <2>1, <2>2, FewerStreams
  <1>10. AgentViewAgrees' BY <1>1, <1>2 DEF AgentViewAgrees
  <1>11. BrowserCarriedOrTold'
    <2> SUFFICES ASSUME NEW b \in Browsers, browser[b] = "open"
                 PROVE  b \in streams'[pinned[b]] \/ b \in told'
      BY <1>2 DEF BrowserCarriedOrTold
    <2>1. pinned[b] \in Agents BY DEF Held, BrowserSpeaks
    <2>2. b \in streams[pinned[b]] \/ b \in told BY DEF BrowserCarriedOrTold
    <2> QED BY <1>1, <2>1, <2>2
  <1> QED BY <1>4, <1>5, <1>6, <1>7, <1>8, <1>9, <1>10, <1>11

\* A browser is attached to the tunnel registered under the id, where there is
\* room.
LEMMA AttachKeeps ==
    ASSUME RegistryInv, NEW b \in Browsers, NEW d \in Devices, AttachTunnelSocket(b, d)
    PROVE  RegistryInv'
  <1> USE DEF RegistryInv
  <1>0. TunnelAssumption BY TunnelAssumption
  <1> DEFINE t == current[d]
  <1>1. t \in Agents /\ device[t] = d /\ d # None
    BY <1>0 DEF AttachTunnelSocket, Live, TypeOK, Registered, TunnelAssumption
  <1>2. /\ browser[b] = "none" /\ Room(t)
        /\ browser' = [browser EXCEPT ![b] = "open"]
        /\ pinned' = [pinned EXCEPT ![b] = t]
        /\ streams' = [streams EXCEPT ![t] = @ \cup {b}]
        /\ view' = [view EXCEPT ![t] = IF agent[t] = "open" THEN @ \cup {b} ELSE @]
        /\ UNCHANGED <<now, agent, bytes, carried, settled, current, told, objVars>>
    BY DEF AttachTunnelSocket
  <1> HIDE DEF t
  <1>3. TypeOK' BY <1>1, <1>2 DEF TypeOK, SocketState, objVars
  <1>4. Registered' BY <1>2 DEF Registered, objVars
  <1>5. Unborn'
    <2>1. agent[t] # "none" BY <1>1 DEF Unborn
    <2> QED BY <1>1, <1>2, <2>1 DEF Unborn, TypeOK, objVars
  <1>6. Held' BY <1>1, <1>2 DEF Held, BrowserSpeaks, TypeOK, objVars
  <1>7. NoLeakedStream'
    <2> SUFFICES ASSUME NEW u \in Agents, NEW c \in streams'[u]
                 PROVE  /\ device[u] # None /\ current[device[u]] = u
                        /\ browser'[c] \in {"open", "closing"} /\ pinned'[c] = u
      BY <1>2 DEF NoLeakedStream, objVars
    <2>1. CASE c \in streams[u]
      <3>1. /\ device[u] # None /\ current[device[u]] = u
            /\ browser[c] \in {"open", "closing"} /\ pinned[c] = u
        BY <2>1 DEF NoLeakedStream
      <3> QED BY <1>2, <3>1, <2>1 DEF TypeOK
    <2>2. CASE c \notin streams[u]
      <3>1. u = t /\ c = b BY <1>2, <2>2 DEF TypeOK
      <3>2. current[device[t]] = t BY <1>1 DEF t
      <3> QED BY <1>1, <1>2, <3>1, <3>2 DEF TypeOK
    <2> QED BY <2>1, <2>2
  <1>8. StreamCap'
    <2> SUFFICES ASSUME NEW u \in Agents PROVE Cardinality(streams'[u]) <= MaxStreams
      BY DEF StreamCap
    <2>1. CASE u = t
      <3>1. streams'[u] = streams[t] \cup {b} /\ streams[t] \in SUBSET Browsers
        BY <1>1, <1>2, <2>1 DEF TypeOK
      <3> QED BY <1>0, <1>2, <3>1, OneMoreStream DEF Room
    <2>2. CASE u # t BY <1>2, <2>2 DEF StreamCap, TypeOK
    <2> QED BY <2>1, <2>2
  <1>9. AgentViewAgrees' BY <1>1, <1>2 DEF AgentViewAgrees, TypeOK
  <1>10. BrowserCarriedOrTold'
    <2> SUFFICES ASSUME NEW c \in Browsers, browser'[c] = "open"
                 PROVE  c \in streams'[pinned'[c]] \/ c \in told'
      BY DEF BrowserCarriedOrTold
    <2>1. CASE c = b BY <1>1, <1>2, <2>1 DEF TypeOK
    <2>2. CASE c # b
      <3>1. browser[c] = "open" /\ pinned'[c] = pinned[c] BY <1>2, <2>2 DEF TypeOK
      <3>2. pinned[c] \in Agents BY <3>1 DEF Held, BrowserSpeaks
      <3>3. c \in streams[pinned[c]] \/ c \in told BY <3>1 DEF BrowserCarriedOrTold
      <3> QED BY <1>2, <3>1, <3>2, <3>3 DEF TypeOK
    <2> QED BY <2>1, <2>2
  <1> QED BY <1>3, <1>4, <1>5, <1>6, <1>7, <1>8, <1>9, <1>10

\* A device's id leads to a tunnel of its own, if to any.
LEMMA IdLeadsHome ==
    ASSUME RegistryInv, NEW d \in Devices, Live(d)
    PROVE  current[d] \in Agents /\ device[current[d]] = d
  BY DEF RegistryInv, TypeOK, Registered, Live

\* Charging a frame keeps the counters' types.
LEMMA ChargeType ==
    ASSUME TypeOK, NEW t \in Agents
    PROVE  /\ Charged(t) \in [Agents -> 0 .. MaxBytes + 1]
           /\ Carried(t) \in [Agents -> Nat]
  BY TunnelAssumption DEF TunnelAssumption, TypeOK, Charged, Carried, Over

\* Every handler of an agent's socket keeps the registry's invariant.
LEMMA AgentKeeps ==
    ASSUME RegistryInv, PlanInv, NEW a \in Agents, AgentStep(a)
    PROVE  RegistryInv'
  <1>0. TypeOK /\ TunnelAssumption BY TunnelAssumption DEF RegistryInv
  <1>1. CASE AgentConnects(a) BY <1>1, ConnectKeeps
  <1>2. ASSUME NEW d \in Devices, AgentRegisters(a, d) PROVE RegistryInv'
    BY <1>2, RegisterKeeps
  <1>3. CASE AgentMisspeaks(a)
    <2>1. SocketsAge /\ RestTyped
      BY <1>0, <1>3 DEF AgentMisspeaks, SocketsAge, RestTyped, TypeOK, SocketState,
                        BrowserSpeaks, objVars
    <2>2. UNCHANGED regVars /\ UNCHANGED <<device, expiresAt, pinned>>
      BY <1>3 DEF AgentMisspeaks, objVars
    <2> QED BY <2>1, <2>2, IdleKeeps
  <1>4. CASE AgentTunnelGone(a)
    <2>1. SocketsAge /\ RestTyped
      BY <1>0, <1>4 DEF AgentTunnelGone, SocketsAge, RestTyped, TypeOK, SocketState,
                        BrowserSpeaks, CloseSocket, objVars
    <2>2. {device[a]} \in SUBSET Devices /\ DropAll({device[a]}, None)
      BY <1>0, <1>4 DEF AgentTunnelGone, Drop, TypeOK
    <2>3. UNCHANGED <<device, expiresAt, pinned>> BY <1>4 DEF AgentTunnelGone, objVars
    <2> QED BY <2>1, <2>2, <2>3, DropKeeps
  <1>5. ASSUME NEW b \in Browsers, AgentClosesStream(a, b) PROVE RegistryInv'
    <2>1. SocketsAge /\ RestTyped
      BY <1>0, <1>5 DEF AgentClosesStream, SocketsAge, RestTyped, TypeOK, BrowserSpeaks,
                        objVars
    <2>2. current[device[a]] \in Agents
      BY <1>0, <1>5, IdLeadsHome DEF AgentClosesStream, TypeOK
    <2>3. CloseStream(current[device[a]], {b}) /\ UNCHANGED <<device, expiresAt, pinned>>
      BY <1>5 DEF AgentClosesStream, objVars
    <2> QED BY <2>1, <2>2, <2>3, CloseKeeps
  <1>6. CASE AgentFrame(a)
    <2> DEFINE t == current[device[a]]
    <2>1. device[a] \in Devices /\ t \in Agents
      BY <1>0, <1>6, IdLeadsHome DEF AgentFrame, TypeOK
    <2>2. /\ bytes' = Charged(t)
          /\ \/ DropAll({device[a]}, None) /\ agent' = [agent EXCEPT ![a] = CloseSocket(@)]
                /\ UNCHANGED carried
             \/ carried' = Carried(t) /\ UNCHANGED <<agent, regVars>>
          /\ UNCHANGED <<now, browser, pinned, settled, objVars>>
      BY <1>6 DEF AgentFrame, Drop
    <2>3. RestTyped
      BY <1>0, <2>1, <2>2, ChargeType DEF RestTyped, TypeOK, objVars
    <2>4. SocketsAge
      BY <1>0, <2>2 DEF SocketsAge, TypeOK, SocketState, BrowserSpeaks, CloseSocket
    <2>5. UNCHANGED <<device, expiresAt, pinned>> BY <2>2 DEF objVars
    <2>6. CASE DropAll({device[a]}, None) BY <2>1, <2>3, <2>4, <2>5, <2>6, DropKeeps
    <2>7. CASE UNCHANGED regVars BY <2>3, <2>4, <2>5, <2>7, IdleKeeps
    <2> QED BY <2>2, <2>6, <2>7
  <1>7. CASE AgentSocketCloses(a)
    <2>1. SocketsAge /\ RestTyped
      BY <1>0, <1>7 DEF AgentSocketCloses, SocketsAge, RestTyped, TypeOK, SocketState,
                        BrowserSpeaks, objVars
    <2>2. ClosedBy(a) \in SUBSET Devices BY <1>0 DEF ClosedBy, TypeOK
    <2>3. DropAll(ClosedBy(a), None) /\ UNCHANGED <<device, expiresAt, pinned>>
      BY <1>7 DEF AgentSocketCloses, objVars
    <2> QED BY <2>1, <2>2, <2>3, DropKeeps
  <1>8. ASSUME NEW found \in BOOLEAN, MeterOwner(a, found) PROVE RegistryInv'
    <2>1. SocketsAge /\ RestTyped
      BY <1>0, <1>8 DEF MeterOwner, SocketsAge, RestTyped, TypeOK, BrowserSpeaks
    <2>2. UNCHANGED regVars /\ UNCHANGED <<device, expiresAt, pinned>>
      BY <1>8 DEF MeterOwner
    <2> QED BY <2>1, <2>2, IdleKeeps
  <1>9. ASSUME NEW allowed \in BOOLEAN, MeterPlan(a, allowed) PROVE RegistryInv'
    <2>1. SocketsAge /\ RestTyped
      BY <1>0, <1>9 DEF MeterPlan, SocketsAge, RestTyped, TypeOK, BrowserSpeaks
    <2>2. BlockedBy(a) \in SUBSET Devices
      BY <1>0, <1>9 DEF MeterPlan, BlockedBy, TypeOK, PlanInv, Unregistered
    <2>3. DropAll(BlockedBy(a), None) \/ UNCHANGED regVars
      BY <1>9 DEF MeterPlan
    <2>4. UNCHANGED <<device, expiresAt, pinned>> BY <1>9 DEF MeterPlan
    <2> QED BY <2>1, <2>2, <2>3, <2>4, DropKeeps, IdleKeeps
  <1> QED BY <1>1, <1>2, <1>3, <1>4, <1>5, <1>6, <1>7, <1>8, <1>9 DEF AgentStep

\* Every handler of a browser's socket keeps the registry's invariant.
LEMMA BrowserKeeps ==
    ASSUME RegistryInv, NEW b \in Browsers, BrowserStep(b)
    PROVE  RegistryInv'
  <1>0. TypeOK /\ TunnelAssumption BY TunnelAssumption DEF RegistryInv
  <1>1. ASSUME NEW d \in Devices, AttachTunnelSocket(b, d) PROVE RegistryInv'
    BY <1>1, AttachKeeps
  <1>2. ASSUME NEW d \in Devices, AttachTunnelRefused(b, d) PROVE RegistryInv'
    <2>1. SocketsAge /\ RestTyped
      BY <1>0, <1>2 DEF AttachTunnelRefused, SocketsAge, RestTyped, TypeOK, SocketState,
                        BrowserSpeaks, objVars
    <2>2. DropAll({d}, None) \/ UNCHANGED regVars BY <1>2 DEF AttachTunnelRefused, Drop
    <2>3. UNCHANGED <<device, expiresAt, pinned>> BY <1>2 DEF AttachTunnelRefused, objVars
    <2> QED BY <2>1, <2>2, <2>3, DropKeeps, IdleKeeps
  <1>3. CASE BrowserFrame(b)
    <2> DEFINE t == pinned[b]
    <2>1. t \in Agents /\ device[t] \in Devices
      BY <1>0, <1>3 DEF BrowserFrame, RegistryInv, Held, TypeOK
    <2>2. /\ bytes' = Charged(t)
          /\ \/ DropAll({device[t]}, None) /\ browser' = [browser EXCEPT ![b] = CloseSocket(@)]
                /\ UNCHANGED carried
             \/ carried' = Carried(t) /\ UNCHANGED <<browser, regVars>>
          /\ UNCHANGED <<now, agent, pinned, settled, objVars>>
      BY <1>3 DEF BrowserFrame, Drop
    <2>3. RestTyped
      BY <1>0, <2>1, <2>2, ChargeType DEF RestTyped, TypeOK, objVars
    <2>4. SocketsAge
      BY <1>0, <2>2 DEF SocketsAge, TypeOK, SocketState, BrowserSpeaks, CloseSocket
    <2>5. UNCHANGED <<device, expiresAt, pinned>> BY <2>2 DEF objVars
    <2>6. CASE DropAll({device[t]}, None) BY <2>1, <2>3, <2>4, <2>5, <2>6, DropKeeps
    <2>7. CASE UNCHANGED regVars BY <2>3, <2>4, <2>5, <2>7, IdleKeeps
    <2> QED BY <2>2, <2>6, <2>7
  <1>4. CASE BrowserClosesStream(b)
    <2>1. SocketsAge /\ RestTyped
      BY <1>0, <1>4 DEF BrowserClosesStream, SocketsAge, RestTyped, TypeOK, SocketState,
                        BrowserSpeaks, CloseSocket, objVars
    <2>2. pinned[b] \in Agents BY <1>4 DEF BrowserClosesStream, RegistryInv, Held
    <2>3. CloseStream(pinned[b], {b}) /\ UNCHANGED <<device, expiresAt, pinned>>
      BY <1>4 DEF BrowserClosesStream, objVars
    <2> QED BY <2>1, <2>2, <2>3, CloseKeeps
  <1>5. CASE BrowserMisspeaks(b)
    <2>1. SocketsAge /\ RestTyped
      BY <1>0, <1>5 DEF BrowserMisspeaks, SocketsAge, RestTyped, TypeOK, SocketState,
                        BrowserSpeaks, objVars
    <2>2. UNCHANGED regVars /\ UNCHANGED <<device, expiresAt, pinned>>
      BY <1>5 DEF BrowserMisspeaks, objVars
    <2> QED BY <2>1, <2>2, IdleKeeps
  <1>6. CASE BrowserSocketCloses(b)
    <2> DEFINE d == device[pinned[b]]
    <2>1. pinned[b] \in Agents /\ d \in Devices
      BY <1>0, <1>6 DEF BrowserSocketCloses, RegistryInv, Held, TypeOK
    <2>2. /\ browser' = [browser EXCEPT ![b] = "closed"]
          /\ DropAll({d}, None) \/ (Live(d) /\ CloseStream(current[d], {b}))
          /\ UNCHANGED <<now, agent, pinned, bytes, carried, settled, objVars>>
      BY <1>6 DEF BrowserSocketCloses, Drop, ClosesOf
    <2>3. RestTyped /\ UNCHANGED <<device, expiresAt, pinned>>
      BY <1>0, <2>2 DEF RestTyped, TypeOK, objVars
    <2>4. ASSUME NEW t \in Agents, b \in streams[t] PROVE current[d] = t
      <3>1. current[device[t]] = t /\ pinned[b] = t
        BY <2>4 DEF RegistryInv, NoLeakedStream
      <3> QED BY <3>1
    <2>5. SocketsAge
      <3>1. \A t \in Agents : b \notin streams'[t]
        <4>1. CASE DropAll({d}, None)
          <5>1. None \in Agents \cup {None} /\ {d} \in SUBSET Devices BY <2>1
          <5> HIDE DEF d
          <5>2. /\ \A t \in Agents : (\E e \in {d} : current[e] = t) => streams'[t] = {}
                /\ \A t \in Agents : ~(\E e \in {d} : current[e] = t) =>
                      streams'[t] = streams[t]
            BY <1>0, <4>1, <5>1, DropEffect
          <5> QED BY <2>4, <5>2
        <4>2. CASE Live(d) /\ CloseStream(current[d], {b})
          <5>1. current[d] \in Agents BY <2>1, <4>2, IdLeadsHome
          <5>2. /\ streams'[current[d]] = streams[current[d]] \ {b}
                /\ \A u \in Agents : u # current[d] => streams'[u] = streams[u]
            BY <1>0, <4>2, <5>1, CloseEffect
          <5> QED BY <2>4, <5>1, <5>2
        <4> QED BY <2>2, <4>1, <4>2
      <3> QED BY <1>0, <2>2, <3>1 DEF SocketsAge, TypeOK, SocketState, BrowserSpeaks
    <2>6. CASE DropAll({d}, None) BY <2>1, <2>3, <2>5, <2>6, DropKeeps
    <2>7. CASE Live(d) /\ CloseStream(current[d], {b})
      <3>1. current[d] \in Agents BY <2>1, <2>7, IdLeadsHome
      <3> QED BY <2>3, <2>5, <2>7, <3>1, CloseKeeps
    <2> QED BY <2>2, <2>6, <2>7
  <1> QED BY <1>1, <1>2, <1>3, <1>4, <1>5, <1>6 DEF BrowserStep

\* It holds at the start, when nobody has connected.
LEMMA RegistryInit == Init => RegistryInv
  <1> SUFFICES ASSUME Init PROVE RegistryInv OBVIOUS
  <1>1. TypeOK BY TunnelAssumption DEF TunnelAssumption, Init, TypeOK, SocketState
  <1>2. StreamCap
    BY TunnelAssumption, FS_EmptySet DEF TunnelAssumption, Init, StreamCap
  <1>3. Registered /\ Unborn /\ Held /\ NoLeakedStream
    BY DEF Init, Registered, Unborn, Held, BrowserSpeaks, NoLeakedStream
  <1>4. AgentViewAgrees /\ BrowserCarriedOrTold
    BY DEF Init, AgentViewAgrees, BrowserCarriedOrTold
  <1> QED BY <1>1, <1>2, <1>3, <1>4 DEF RegistryInv

\* Every step keeps the registry's invariant.
LEMMA RegistryStep == RegistryInv /\ PlanInv /\ [Next]_vars => RegistryInv'
  <1> SUFFICES ASSUME RegistryInv, PlanInv, [Next]_vars PROVE RegistryInv' OBVIOUS
  <1>0. TypeOK BY DEF RegistryInv
  <1>1. ASSUME NEW a \in Agents, AgentStep(a) PROVE RegistryInv' BY <1>1, AgentKeeps
  <1>2. ASSUME NEW b \in Browsers, BrowserStep(b) PROVE RegistryInv' BY <1>2, BrowserKeeps
  <1>3. CASE Sweep
    <2>1. SocketsAge /\ RestTyped
      BY <1>0, <1>3 DEF Sweep, SocketsAge, RestTyped, TypeOK, BrowserSpeaks, objVars
    <2>2. Lapsed \in SUBSET Devices /\ DropAll(Lapsed, None) BY <1>3 DEF Sweep, Lapsed
    <2>3. UNCHANGED <<device, expiresAt, pinned>> BY <1>3 DEF Sweep, objVars
    <2> QED BY <2>1, <2>2, <2>3, DropKeeps
  <1>4. CASE Tick
    <2>1. SocketsAge /\ RestTyped
      BY <1>0, <1>4, TunnelAssumption
      DEF Tick, SocketsAge, RestTyped, TypeOK, BrowserSpeaks, objVars, TunnelAssumption
    <2>2. UNCHANGED regVars /\ UNCHANGED <<device, expiresAt, pinned>>
      BY <1>4 DEF Tick, objVars
    <2> QED BY <2>1, <2>2, IdleKeeps
  <1>5. CASE UNCHANGED vars
    <2>1. SocketsAge /\ RestTyped
      BY <1>0, <1>5 DEF vars, SocketsAge, RestTyped, TypeOK, BrowserSpeaks, objVars
    <2>2. UNCHANGED regVars /\ UNCHANGED <<device, expiresAt, pinned>>
      BY <1>5 DEF vars, objVars
    <2> QED BY <2>1, <2>2, IdleKeeps
  <1> QED BY <1>1, <1>2, <1>3, <1>4, <1>5 DEF Next

-----------------------------------------------------------------------------
(***************************************************************************)
(* The plan's invariant.                                                   *)
(***************************************************************************)

\* A frame is charged before it is forwarded, and never past the quota.
LEMMA ChargeKeeps ==
    ASSUME TypeOK, CarriedIsCharged, QuotaHolds, NEW t \in Agents,
           bytes' = Charged(t),
           \/ Over(t) /\ carried' = carried
           \/ ~Over(t) /\ carried' = Carried(t)
    PROVE  CarriedIsCharged' /\ QuotaHolds'
  <1>0. MaxBytes \in Nat BY TunnelAssumption DEF TunnelAssumption
  <1> SUFFICES ASSUME NEW u \in Agents
               PROVE  carried'[u] <= bytes'[u] /\ carried'[u] <= MaxBytes
    BY DEF CarriedIsCharged, QuotaHolds
  <1>1. /\ bytes[u] \in 0 .. MaxBytes + 1 /\ carried[u] \in Nat
        /\ carried[u] <= bytes[u] /\ carried[u] <= MaxBytes
    BY DEF TypeOK, CarriedIsCharged, QuotaHolds
  <1>2. CASE u # t
    <2>1. bytes'[u] = bytes[u] /\ carried'[u] = carried[u]
      BY <1>2 DEF Charged, Carried, TypeOK
    <2> QED BY <1>1, <2>1
  <1>3. CASE u = t /\ Over(t)
    <2>1. bytes'[u] = MaxBytes + 1 /\ carried'[u] = carried[u]
      BY <1>3 DEF Charged, TypeOK
    <2> QED BY <1>0, <1>1, <2>1
  <1>4. CASE u = t /\ ~Over(t)
    <2>1. bytes'[u] = bytes[u] + 1 /\ carried'[u] = carried[u] + 1
      BY <1>4 DEF Charged, Carried, TypeOK
    <2> QED BY <1>0, <1>1, <1>4, <2>1 DEF Over
  <1> QED BY <1>2, <1>3, <1>4

\* What a step that only takes tunnels out of the registry keeps.
LEMMA PlanIdle ==
    ASSUME PlanInv, UNCHANGED <<device, settled, blocked, meter>>,
           CarriedIsCharged', QuotaHolds',
           \A d \in Devices, t \in Agents : current'[d] = t => current[d] = t
    PROVE  PlanInv'
  BY DEF PlanInv, PlanIsKept, Unregistered, BlockedIsGone, BilledOnce, SettledIsGone

\* Dropping only takes tunnels out of the registry.
LEMMA DropOnlyTakes ==
    ASSUME TypeOK, NEW D \in SUBSET Devices, DropAll(D, None)
    PROVE  /\ \A d \in Devices, t \in Agents : current'[d] = t => current[d] = t
           /\ \A d \in D, t \in Agents : current'[d] # t
  BY TunnelAssumption DEF TunnelAssumption, DropAll, TypeOK

\* Every handler of an agent's socket keeps the plan's invariant.
LEMMA AgentPlan ==
    ASSUME RegistryInv, PlanInv, NEW a \in Agents, AgentStep(a)
    PROVE  PlanInv'
  <1>0. TypeOK /\ Registered /\ TunnelAssumption BY TunnelAssumption DEF RegistryInv
  <1>00. CarriedIsCharged /\ QuotaHolds BY DEF PlanInv, PlanIsKept
  <1>01. ASSUME UNCHANGED <<bytes, carried>> PROVE CarriedIsCharged' /\ QuotaHolds'
    BY <1>00, <1>01 DEF CarriedIsCharged, QuotaHolds
  <1>1. CASE AgentConnects(a) \/ AgentMisspeaks(a)
    BY <1>1, <1>01, PlanIdle DEF AgentConnects, AgentMisspeaks, objVars, regVars
  <1>2. ASSUME NEW d \in Devices, AgentRegisters(a, d) PROVE PlanInv'
    <2>1. /\ device[a] = None
          /\ device' = [device EXCEPT ![a] = d]
          /\ meter' = [meter EXCEPT ![a] = "owner"]
          /\ UNCHANGED <<bytes, carried, settled, blocked>>
          /\ \A e \in Devices : current'[e] = IF e = d THEN a ELSE current[e]
      BY <1>2 DEF AgentRegisters, DropAll
    <2>2. d # None BY <1>0 DEF TunnelAssumption
    <2>3. Unregistered'
      BY <1>0, <2>1, <2>2 DEF PlanInv, Unregistered, TypeOK
    <2>4. ~blocked[a] /\ settled[a] = 0 BY <2>1 DEF PlanInv, Unregistered
    <2>5. BlockedIsGone' /\ SettledIsGone'
      BY <2>1, <2>4 DEF PlanInv, PlanIsKept, BlockedIsGone, SettledIsGone
    <2>6. BilledOnce' BY <2>1 DEF PlanInv, PlanIsKept, BilledOnce
    <2> QED BY <2>1, <1>01, <2>3, <2>5, <2>6 DEF PlanInv, PlanIsKept
  <1>3. CASE AgentTunnelGone(a)
    <2>1. {device[a]} \in SUBSET Devices /\ DropAll({device[a]}, None)
      BY <1>0, <1>3 DEF AgentTunnelGone, Drop, TypeOK
    <2> QED BY <1>0, <1>3, <1>01, <2>1, DropOnlyTakes, PlanIdle DEF AgentTunnelGone, objVars
  <1>4. ASSUME NEW b \in Browsers, AgentClosesStream(a, b) PROVE PlanInv'
    BY <1>4, <1>01, PlanIdle DEF AgentClosesStream, CloseStream, objVars
  <1>5. CASE AgentFrame(a)
    <2> DEFINE t == current[device[a]]
    <2>1. device[a] \in Devices /\ t \in Agents
      BY <1>0, <1>5, IdLeadsHome DEF AgentFrame, TypeOK
    <2>2. CarriedIsCharged' /\ QuotaHolds'
      <3>1. bytes' = Charged(t)
        BY <1>5 DEF AgentFrame
      <3>2. \/ Over(t) /\ carried' = carried
            \/ ~Over(t) /\ carried' = Carried(t)
        BY <1>5 DEF AgentFrame
      <3> HIDE DEF t
      <3> QED BY <1>0, <1>00, <2>1, <3>1, <3>2, ChargeKeeps
    <2>3. DropAll({device[a]}, None) \/ UNCHANGED current
      BY <1>5 DEF AgentFrame, Drop, regVars
    <2>4. \A d \in Devices, u \in Agents : current'[d] = u => current[d] = u
      BY <1>0, <2>1, <2>3, DropOnlyTakes
    <2> QED BY <1>5, <2>2, <2>4, PlanIdle DEF AgentFrame, objVars
  <1>6. CASE AgentSocketCloses(a)
    <2> DEFINE billed == {current[d] : d \in {e \in {device[a]} \ {None} : Live(e)}}
    <2>1. ClosedBy(a) \in SUBSET Devices BY <1>0 DEF ClosedBy, TypeOK
    <2>2. /\ DropAll(ClosedBy(a), None)
          /\ settled' = [t \in Agents |->
                 IF t \in billed /\ owned[t] THEN settled[t] + 1 ELSE settled[t]]
          /\ UNCHANGED <<bytes, carried, objVars>>
      BY <1>6 DEF AgentSocketCloses
    <2>3. /\ \A d \in Devices, t \in Agents : current'[d] = t => current[d] = t
          /\ \A d \in ClosedBy(a), t \in Agents : current'[d] # t
      BY <1>0, <2>1, <2>2, DropOnlyTakes
    <2>4. ASSUME NEW t \in Agents, t \in billed
          PROVE  /\ device[t] # None
                 /\ settled[t] = 0
                 /\ \A d \in Devices : current'[d] # t
      <3>1. device[a] # None /\ device[a] \in Devices /\ current[device[a]] = t
        BY <1>0, <2>4 DEF TypeOK
      <3>2. device[t] = device[a]
        BY <1>0, <3>1 DEF Registered, TunnelAssumption
      <3>3. settled[t] = 0
        BY <3>1 DEF PlanInv, SettledIsGone
      <3>4. ASSUME NEW d \in Devices PROVE current'[d] # t
        <4>1. CASE current[d] = t
          <5>1. d = device[a]
            BY <1>0, <4>1, <3>2 DEF Registered, TunnelAssumption
          <5> QED BY <2>3, <3>1, <5>1 DEF ClosedBy
        <4> QED BY <4>1, <2>3
      <3> QED BY <3>1, <3>2, <3>3, <3>4
    <2> HIDE DEF billed
    <2>5. \A t \in Agents : \/ settled'[t] = settled[t]
                            \/ t \in billed /\ settled'[t] = settled[t] + 1
      BY <2>2 DEF TypeOK
    <2>6. Unregistered'
      BY <2>2, <2>4, <2>5 DEF PlanInv, Unregistered, objVars
    <2>7. BilledOnce'
      BY <2>4, <2>5 DEF PlanInv, PlanIsKept, BilledOnce
    <2>8. SettledIsGone'
      BY <2>3, <2>4, <2>5 DEF PlanInv, SettledIsGone
    <2>9. BlockedIsGone'
      BY <2>2, <2>3 DEF PlanInv, PlanIsKept, BlockedIsGone, objVars
    <2> QED BY <1>01, <2>2, <2>6, <2>7, <2>8, <2>9 DEF PlanInv, PlanIsKept
  <1>7. ASSUME NEW found \in BOOLEAN, MeterOwner(a, found) PROVE PlanInv'
    <2>1. /\ meter[a] = "owner"
          /\ meter' = [meter EXCEPT ![a] = IF found THEN "plan" ELSE "idle"]
          /\ UNCHANGED <<bytes, carried, settled, current, device, blocked>>
      BY <1>7 DEF MeterOwner, regVars
    <2>2. Unregistered' BY <1>0, <2>1 DEF PlanInv, Unregistered, TypeOK
    <2>3. BlockedIsGone' /\ BilledOnce' /\ SettledIsGone'
      BY <2>1 DEF PlanInv, PlanIsKept, BlockedIsGone, BilledOnce, SettledIsGone
    <2> QED BY <1>01, <2>1, <2>2, <2>3 DEF PlanInv, PlanIsKept
  <1>8. ASSUME NEW allowed \in BOOLEAN, MeterPlan(a, allowed) PROVE PlanInv'
    <2>1. /\ meter[a] = "plan"
          /\ meter' = [meter EXCEPT ![a] = "idle"]
          /\ UNCHANGED <<bytes, carried, settled, device>>
          /\ \/ UNCHANGED <<blocked, current>>
             \/ blocked' = [blocked EXCEPT ![a] = TRUE] /\ DropAll(BlockedBy(a), None)
      BY <1>8 DEF MeterPlan, regVars
    <2>2. device[a] # None /\ device[a] \in Devices
      BY <1>0, <2>1 DEF PlanInv, Unregistered, TypeOK
    <2>3. BlockedBy(a) \in SUBSET Devices BY <2>2 DEF BlockedBy
    <2>4. \A d \in Devices, t \in Agents : current'[d] = t => current[d] = t
      BY <1>0, <2>1, <2>3, DropOnlyTakes
    <2>5. Unregistered' BY <1>0, <2>1, <2>2 DEF PlanInv, Unregistered, TypeOK
    <2>6. BilledOnce' /\ SettledIsGone'
      BY <2>1, <2>4 DEF PlanInv, PlanIsKept, BilledOnce, SettledIsGone
    <2>7. BlockedIsGone'
      <3> SUFFICES ASSUME NEW t \in Agents, blocked'[t], NEW d \in Devices
                   PROVE  current'[d] # t
        BY DEF BlockedIsGone
      <3>1. CASE blocked[t] BY <2>4, <3>1 DEF PlanInv, PlanIsKept, BlockedIsGone
      <3>2. CASE ~blocked[t]
        <4>1. t = a /\ DropAll(BlockedBy(a), None) BY <1>0, <2>1, <3>2 DEF TypeOK
        <4>2. d = device[a] => current'[d] # t
          BY <1>0, <2>3, <4>1, DropOnlyTakes DEF BlockedBy
        <4>3. current[d] = t => d = device[a]
          BY <1>0, <4>1 DEF Registered, TunnelAssumption
        <4> QED BY <2>4, <4>2, <4>3
      <3> QED BY <3>1, <3>2
    <2> QED BY <1>01, <2>1, <2>5, <2>6, <2>7 DEF PlanInv, PlanIsKept
  <1> QED BY <1>1, <1>2, <1>3, <1>4, <1>5, <1>6, <1>7, <1>8 DEF AgentStep

\* Every handler of a browser's socket keeps the plan's invariant.
LEMMA BrowserPlan ==
    ASSUME RegistryInv, PlanInv, NEW b \in Browsers, BrowserStep(b)
    PROVE  PlanInv'
  <1>0. TypeOK /\ TunnelAssumption BY TunnelAssumption DEF RegistryInv
  <1>00. CarriedIsCharged /\ QuotaHolds BY DEF PlanInv, PlanIsKept
  <1>01. ASSUME UNCHANGED <<bytes, carried>> PROVE CarriedIsCharged' /\ QuotaHolds'
    BY <1>00, <1>01 DEF CarriedIsCharged, QuotaHolds
  <1>1. ASSUME NEW d \in Devices, AttachTunnelSocket(b, d) PROVE PlanInv'
    BY <1>1, <1>01, PlanIdle DEF AttachTunnelSocket, objVars
  <1>2. ASSUME NEW d \in Devices, AttachTunnelRefused(b, d) PROVE PlanInv'
    <2>1. DropAll({d}, None) \/ UNCHANGED current
      BY <1>2 DEF AttachTunnelRefused, Drop, regVars
    <2>2. \A e \in Devices, t \in Agents : current'[e] = t => current[e] = t
      BY <1>0, <2>1, DropOnlyTakes
    <2> QED BY <1>2, <1>01, <2>2, PlanIdle DEF AttachTunnelRefused, objVars
  <1>3. CASE BrowserFrame(b)
    <2> DEFINE t == pinned[b]
    <2>1. t \in Agents /\ device[t] \in Devices
      BY <1>0, <1>3 DEF BrowserFrame, RegistryInv, Held, TypeOK
    <2>2. CarriedIsCharged' /\ QuotaHolds'
      <3>1. bytes' = Charged(t)
        BY <1>3 DEF BrowserFrame
      <3>2. \/ Over(t) /\ carried' = carried
            \/ ~Over(t) /\ carried' = Carried(t)
        BY <1>3 DEF BrowserFrame
      <3> HIDE DEF t
      <3> QED BY <1>0, <1>00, <2>1, <3>1, <3>2, ChargeKeeps
    <2>3. DropAll({device[t]}, None) \/ UNCHANGED current
      BY <1>3 DEF BrowserFrame, Drop, regVars
    <2>4. \A d \in Devices, u \in Agents : current'[d] = u => current[d] = u
      BY <1>0, <2>1, <2>3, DropOnlyTakes
    <2> QED BY <1>3, <2>2, <2>4, PlanIdle DEF BrowserFrame, objVars
  <1>4. CASE BrowserClosesStream(b) \/ BrowserMisspeaks(b)
    BY <1>4, <1>01, PlanIdle
    DEF BrowserClosesStream, BrowserMisspeaks, CloseStream, objVars, regVars
  <1>5. CASE BrowserSocketCloses(b)
    <2>1. device[pinned[b]] \in Devices
      BY <1>0, <1>5 DEF BrowserSocketCloses, RegistryInv, Held, TypeOK
    <2>2. DropAll({device[pinned[b]]}, None) \/ UNCHANGED current
      BY <1>5 DEF BrowserSocketCloses, Drop, CloseStream
    <2>3. \A d \in Devices, u \in Agents : current'[d] = u => current[d] = u
      BY <1>0, <2>1, <2>2, DropOnlyTakes
    <2> QED BY <1>5, <1>01, <2>3, PlanIdle DEF BrowserSocketCloses, objVars
  <1> QED BY <1>1, <1>2, <1>3, <1>4, <1>5 DEF BrowserStep

\* It holds at the start, when nothing is registered.
LEMMA PlanInit == Init => PlanInv
  BY TunnelAssumption
  DEF TunnelAssumption, Init, PlanInv, PlanIsKept, Unregistered, BlockedIsGone,
      BilledOnce, QuotaHolds, SettledIsGone, CarriedIsCharged

\* Every step keeps the plan's invariant.
LEMMA PlanStep == RegistryInv /\ PlanInv /\ [Next]_vars => PlanInv'
  <1> SUFFICES ASSUME RegistryInv, PlanInv, [Next]_vars PROVE PlanInv' OBVIOUS
  <1>0. TypeOK BY DEF RegistryInv
  <1>00. ASSUME UNCHANGED <<bytes, carried>> PROVE CarriedIsCharged' /\ QuotaHolds'
    BY <1>00 DEF PlanInv, PlanIsKept, CarriedIsCharged, QuotaHolds
  <1>1. ASSUME NEW a \in Agents, AgentStep(a) PROVE PlanInv' BY <1>1, AgentPlan
  <1>2. ASSUME NEW b \in Browsers, BrowserStep(b) PROVE PlanInv' BY <1>2, BrowserPlan
  <1>3. CASE Sweep
    <2>1. Lapsed \in SUBSET Devices /\ DropAll(Lapsed, None) BY <1>3 DEF Sweep, Lapsed
    <2>2. \A d \in Devices, t \in Agents : current'[d] = t => current[d] = t
      BY <1>0, <2>1, DropOnlyTakes
    <2> QED BY <1>3, <1>00, <2>2, PlanIdle DEF Sweep, objVars
  <1>4. CASE Tick BY <1>4, <1>00, PlanIdle DEF Tick, objVars, regVars
  <1>5. CASE UNCHANGED vars BY <1>5, <1>00, PlanIdle DEF vars, objVars, regVars
  <1> QED BY <1>1, <1>2, <1>3, <1>4, <1>5 DEF Next

-----------------------------------------------------------------------------
\* The inductive invariant holds throughout every behaviour of the broker's
\* tunnels (tunnel.ts, broker.ts).
THEOREM TunnelInvariant == Spec => [](RegistryInv /\ PlanInv)
  <1>1. Init => RegistryInv /\ PlanInv BY RegistryInit, PlanInit
  <1>2. RegistryInv /\ PlanInv /\ [Next]_vars => (RegistryInv /\ PlanInv)'
    BY RegistryStep, PlanStep
  <1> QED BY <1>1, <1>2, PTL DEF Spec

\* The streams the registry counts, the browsers behind them and what the
\* agents were told agree, and no tunnel carries more than its cap
\* (tunnel.ts:133-161, 207-244), for any number of sockets.
THEOREM StreamsAreAccounted == Spec => []StreamsAccounted
  <1>1. RegistryInv => StreamsAccounted BY DEF RegistryInv, StreamsAccounted
  <1> QED BY <1>1, TunnelInvariant, PTL

\* A connected browser is carried by its tunnel or was sent a close message
\* (tunnel.ts:136-139, 238-244), for any number of sockets.
THEOREM NoBrowserTalksToNothing == Spec => []BrowserCarriedOrTold
  <1>1. RegistryInv => BrowserCarriedOrTold BY DEF RegistryInv
  <1> QED BY <1>1, TunnelInvariant, PTL

\* A refused tunnel is gone, usage is recorded at most once and the byte quota
\* holds to the frame (broker.ts:384-401, 1103-1109, tunnel.ts:246-253), for
\* any number of sockets and any quota.
THEOREM PlanKept == Spec => []PlanIsKept
  <1>1. PlanInv => PlanIsKept BY DEF PlanInv
  <1> QED BY <1>1, TunnelInvariant, PTL
=============================================================================

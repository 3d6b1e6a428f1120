----------------------------- MODULE DoorProofs -----------------------------
(***************************************************************************)
(* Proofs about RelayDoor for any number of devices, sockets and           *)
(* addresses, any caps and any grace.  The proofs about Recorder, the      *)
(* other part of the relay that keeps state of its own, follow them.       *)
(***************************************************************************)
EXTENDS RelayDoor, Sequences, FiniteSetTheorems, TLAPS

\* A connection that is in the map is one that has not been removed, and the
\* addresses hold no more places than the connections in the map.
Seats ==
    /\ IsFiniteSet(listed)
    /\ \A c \in Conns : st[c] = "free" => c \notin listed
    /\ PlacesReturn

\* What a sweep looks through contains every socket that is in.
Inside ==
    /\ \A c \in Conns : st[c] = "open" => c \in listed
    /\ \A c \in Conns : st[c] = "in" => c \in listed \cap authed
    /\ \A c \in authed : st[c] \in {"in", "shut"}
    /\ \A c \in Conns : hangup[c] > 0 => st[c] \in {"free", "shut"}

\* A revoked device is at the door or inside only through a socket that the
\* sweep could not see.
CaughtWaiting ==
    \A c \in listed :
        st[c] \in {"asking", "strayed", "in"} /\ key[c] \in Devices
            /\ token[key[c]] = "revoked" => c \in caught

\* Whoever waits at the gate has a question that stands.
Waits(c) ==
    /\ st[c] = "asking" => key[c] \in Keys /\ decided[key[c]] = "standing"
    /\ st[c] = "strayed" => key[c] \in stray

Waiters == \A c \in Conns : Waits(c)

\* A device has been given a token before anything of it reaches the relay.
Presented ==
    /\ \A c \in Conns : key[c] \in Devices => token[key[c]] # "new"
    /\ \A d \in ring \cup joining : token[d] # "new"

\* The gate's record of a device says no more than a human's consent, and, but
\* for answers that came late, no less.
Worth(d) ==
    /\ consent[d] <= Grace
    /\ decided[d] = "yes" => /\ cover[d] <= consent[d]
                             /\ d \in Connected => consent[d] > 0
    /\ d \notin late /\ consent[d] > 0 => decided[d] = "yes" /\ cover[d] = consent[d]

CoverIsConsent == \A d \in Devices : Worth(d)

DoorInv == /\ TypeOK /\ Seats /\ Inside /\ CaughtWaiting
           /\ Waiters /\ Presented /\ CoverIsConsent

-----------------------------------------------------------------------------
\* Pieces of the type invariant that several actions share.

\* admit() leaves the gate well formed (start.ts:1425-1470).
LEMMA AdmitType ==
  ASSUME TypeOK, NEW k \in Keys, NEW near \in BOOLEAN, Admit(k, near)
  PROVE  /\ decided' \in [Keys -> {"none", "standing", "yes", "no"}]
         /\ cover' \in [Keys -> Nat]
         /\ consent' \in [Devices -> Nat]
         /\ asks' = asks /\ stray' = stray /\ admittedHere' = admittedHere /\ late' = late
  <1>0. Grace \in Nat BY DoorAssumption DEF DoorAssumption
  <1>1. decided' \in [Keys -> {"none", "standing", "yes", "no"}] BY DEF TypeOK, Admit
  <1>2. cover' \in [Keys -> Nat] BY <1>0 DEF TypeOK, Admit
  <1>3. consent' \in [Devices -> Nat] BY <1>0 DEF TypeOK, Admit
  <1> QED BY <1>1, <1>2, <1>3 DEF Admit

\* forget() leaves the gate well formed (start.ts:1523-1546).
LEMMA ForgetType ==
  ASSUME TypeOK, NEW D \in SUBSET Devices, Forget(D)
  PROVE  /\ decided' \in [Keys -> {"none", "standing", "yes", "no"}]
         /\ cover' \in [Keys -> Nat]
         /\ consent' \in [Devices -> Nat]
         /\ asks' = asks /\ stray' \subseteq Devices
         /\ admittedHere' \subseteq Devices /\ late' \subseteq Devices
  BY DEF TypeOK, Forget

\* approve() leaves the gate well formed, and whoever waited for a question of
\* the device waits for a stray one (start.ts:1519-1526).
LEMMA ApproveType ==
  ASSUME TypeOK, NEW d \in Devices, Approve(d)
  PROVE  /\ decided' \in [Keys -> {"none", "standing", "yes", "no"}]
         /\ cover' \in [Keys -> Nat]
         /\ consent' \in [Devices -> Nat]
         /\ asks' = asks /\ stray' \subseteq Devices
         /\ admittedHere' \subseteq Devices /\ late' \subseteq Devices
  <1>0. Grace \in Nat /\ d \in Keys BY DoorAssumption DEF DoorAssumption, Keys
  <1> QED BY <1>0 DEF TypeOK, Approve

\* Whoever waits for a stray question is still a connection.
LEMMA ToStrayIs ==
  ASSUME TypeOK, NEW D, ToStray(D)
  PROVE  /\ st' \in [Conns -> {"free", "open", "asking", "strayed", "in", "shut"}]
         /\ \A c \in Conns : \/ st'[c] = st[c] /\ ~(st[c] = "asking" /\ key[c] \in D)
                             \/ st[c] = "asking" /\ key[c] \in D /\ st'[c] = "strayed"
  BY DEF TypeOK, ToStray

\* A place that is given back leaves a count (connection-manager.ts:214-219).
LEMMA PlaceBackType ==
  ASSUME TypeOK, NEW c \in Conns
  PROVE  PlaceBack(c) \in [Ips -> Nat]
  <1>1. ipCounts \in [Ips -> Nat] BY DEF TypeOK
  <1>2. \A n \in Nat : (IF n <= 1 THEN 0 ELSE n - 1) \in Nat OBVIOUS
  <1> QED BY <1>1, <1>2 DEF PlaceBack

\* An answer leaves the sockets well formed (start.ts:1680-1696).
LEMMA ResumeType ==
  ASSUME TypeOK, NEW W \in SUBSET Conns, NEW v \in {"yes", "no"}, Resume(W, v)
  PROVE  /\ st' \in [Conns -> {"free", "open", "asking", "strayed", "in", "shut"}]
         /\ key' \in [Conns -> Keys \cup {None}]
         /\ authed' \subseteq Conns
  <1>1. After(v) \in {"in", "shut"} BY DEF After
  <1> QED BY <1>1 DEF TypeOK, Resume

\* Every step keeps the type invariant.
LEMMA TypeStep == TypeOK /\ [Next]_vars => TypeOK'
  <1> SUFFICES ASSUME TypeOK, [Next]_vars PROVE TypeOK' OBVIOUS
  <1>0. Grace \in Nat /\ RefusalGrace \in Nat BY DoorAssumption DEF DoorAssumption
  <1>1. ASSUME NEW c \in Conns, Arrives(c) PROVE TypeOK'
    <2>1. ASSUME NEW i \in Ips, Connect(c, i) PROVE TypeOK'
      <3>1. ipCounts' \in [Ips -> Nat] BY <2>1 DEF Connect, TypeOK
      <3> QED BY <2>1, <3>1 DEF Connect, TypeOK, credVars, gateVars
    <2>2. ASSUME NEW k \in Keys, NEW near \in BOOLEAN, Authenticate(c, k, near) PROVE TypeOK'
      <3>1. Admit(k, near) BY <2>2 DEF Authenticate
      <3>2. After(Verdict(k, near)) \in {"asking", "in", "shut"}
        <4>1. Verdict(k, near) \in {"standing", "yes", "no"}
          BY DEF Verdict, Covered, TypeOK
        <4> QED BY <4>1 DEF After
      <3> QED BY <2>2, <3>1, <3>2, AdmitType DEF Authenticate, TypeOK, credVars, gateVars
    <2>3. ASSUME NEW k \in Keys, NEW near \in BOOLEAN, Knock(c, k, near) PROVE TypeOK'
      <3>1. Admit(k, near) BY <2>3 DEF Knock
      <3> QED BY <2>3, <3>1, AdmitType DEF Knock, TypeOK, credVars, gateVars
    <2> QED BY <1>1, <2>1, <2>2, <2>3 DEF Arrives, Keys, HttpRequest, StreamRequest
  <1>2. ASSUME NEW c \in Conns, Leaves(c) PROVE TypeOK'
    <2>1. CASE Shuts(c) BY <2>1 DEF Shuts, TypeOK, credVars, gateVars
    <2>2. CASE Removed(c) BY <2>2, PlaceBackType DEF Removed, TypeOK, credVars, gateVars
    <2>3. CASE Disconnect(c) BY <2>3 DEF Disconnect, StartHangup, TypeOK, credVars, gateVars
    <2>4. CASE HangupDone(c) BY <2>4, PlaceBackType DEF HangupDone, TypeOK, credVars, gateVars
    <2>5. CASE RemoveAllReaches(c)
      <3> DEFINE D == {key[c]} \cap Connected
      <3>1. D \in SUBSET Devices BY DEF Connected
      <3>2. Forget(D) BY <2>5 DEF RemoveAllReaches
      <3> HIDE DEF D
      <3>3. st' \in [Conns -> {"free", "open", "asking", "strayed", "in", "shut"}]
        BY <2>5 DEF RemoveAllReaches, TypeOK
      <3> QED
        BY <2>5, <3>1, <3>2, <3>3, ForgetType
        DEF RemoveAllReaches, StartHangup, TypeOK, credVars, gateVars
    <2> QED BY <1>2, <2>1, <2>2, <2>3, <2>4, <2>5 DEF Leaves
  <1>3. ASSUME NEW d \in Devices, DeviceStep(d) PROVE TypeOK'
    <2>1. ASSUME Approve(d), ToStray({d}), token' \in [Devices -> {"new", "live", "lapsed", "revoked"}],
                 joining' \subseteq joining, ring' \subseteq ring \cup {d}, disk' \subseteq disk \cup {d},
                 UNCHANGED <<key, ip, listed, authed, hangup, ipCounts, known, leaving, posting, caught>>
          PROVE  TypeOK'
      <3>1. /\ decided' \in [Keys -> {"none", "standing", "yes", "no"}]
            /\ cover' \in [Keys -> Nat] /\ consent' \in [Devices -> Nat]
            /\ asks' = asks /\ stray' \subseteq Devices
            /\ admittedHere' \subseteq Devices /\ late' \subseteq Devices
        BY <2>1, ApproveType
      <3>2. st' \in [Conns -> {"free", "open", "asking", "strayed", "in", "shut"}]
        BY <2>1, ToStrayIs
      <3> QED BY <2>1, <3>1, <3>2 DEF TypeOK
    <2>2. CASE PairLocally(d)
      <3>1. token' \in [Devices -> {"new", "live", "lapsed", "revoked"}]
        BY <2>2 DEF PairLocally, TypeOK
      <3> QED BY <2>1, <2>2, <3>1 DEF PairLocally
    <2>3. CASE Register(d) BY <2>3 DEF Register, TypeOK, sockVars, gateVars
    <2>4. CASE Paired(d)
      <3>1. token' \in [Devices -> {"new", "live", "lapsed", "revoked"}] BY <2>4 DEF Paired, TypeOK
      <3> QED BY <2>1, <2>4, <3>1 DEF Paired
    <2>5. CASE Expire(d) BY <2>5 DEF Expire, TypeOK, sockVars, gateVars
    <2>6. CASE ShellRemoves(d) \/ ShellGivesUp(d)
      BY <2>6 DEF ShellRemoves, ShellGivesUp, TypeOK, sockVars, gateVars
    <2>7. CASE ShellPosts(d) \/ RevokeFromPanel(d)
      BY <2>7 DEF ShellPosts, RevokeFromPanel, RevokeToken, TypeOK, gateVars
    <2>8. CASE PanelForgets(d)
      <3>1. Forget({d}) BY <2>8 DEF PanelForgets
      <3>2. {d} \in SUBSET Devices OBVIOUS
      <3>3. st' \in [Conns -> {"free", "open", "asking", "strayed", "in", "shut"}]
        BY <2>8, ToStrayIs DEF PanelForgets
      <3> QED BY <2>8, <3>1, <3>2, <3>3, ForgetType DEF PanelForgets, TypeOK
    <2> QED BY <1>3, <2>2, <2>3, <2>4, <2>5, <2>6, <2>7, <2>8 DEF DeviceStep
  <1>4. ASSUME NEW d \in Devices, NEW v \in {"yes", "no"}, AnswerStray(d, v) PROVE TypeOK'
    <2>1. Resume(WaitingStray(d), v) BY <1>4 DEF AnswerStray
    <2>2. WaitingStray(d) \in SUBSET Conns BY DEF WaitingStray
    <2> QED BY <1>0, <1>4, <2>1, <2>2, ResumeType DEF AnswerStray, TypeOK, credVars
  <1>5. ASSUME NEW k \in Keys, NEW v \in {"yes", "no"}, Answer(k, v) PROVE TypeOK'
    <2>1. Resume(Waiting(k), v) BY <1>5 DEF Answer
    <2>2. Waiting(k) \in SUBSET Conns BY DEF Waiting
    <2>3. Lasts(v) \in Nat BY <1>0 DEF Lasts
    <2> QED BY <1>0, <1>5, <2>1, <2>2, <2>3, ResumeType DEF Answer, TypeOK, credVars
  <1>6. CASE FlipPolicy \/ RefreshPeers
    BY <1>6 DEF FlipPolicy, RefreshPeers, TypeOK, sockVars, credVars, gateVars
  <1>7. CASE Tick
    <2>1. \A n \in Nat : Less(n) \in Nat BY DEF Less
    <2>2. consent' \in [Devices -> Nat] BY <1>0, <1>7, <2>1 DEF Tick, TypeOK
    <2>3. cover' \in [Keys -> Nat] BY <1>0, <1>7, <2>1 DEF Tick, TypeOK
    <2> QED BY <1>7, <2>2, <2>3 DEF Tick, TypeOK, sockVars, credVars
  <1>8. CASE UNCHANGED vars BY <1>8 DEF vars, TypeOK, sockVars, credVars, gateVars
  <1> QED BY <1>1, <1>2, <1>3, <1>4, <1>5, <1>6, <1>7, <1>8 DEF Next, Settles, SettlesStray

-----------------------------------------------------------------------------
(***************************************************************************)
(* Places.                                                                 *)
(***************************************************************************)
At(i) == {c \in listed : ip[c] = i}

\* Nothing is added and no place is given back.
LEMMA SeatsQuiet ==
  ASSUME TypeOK, Seats, UNCHANGED <<listed, ip, ipCounts>>,
         \A c \in listed : st'[c] # "free"
  PROVE  Seats'
  <1>1. PlacesReturn' BY DEF Seats, PlacesReturn
  <1>2. \A c \in Conns : st'[c] = "free" => c \notin listed' OBVIOUS
  <1>3. IsFiniteSet(listed') BY DEF Seats
  <1> QED BY <1>1, <1>2, <1>3 DEF Seats

\* A connection is removed, for the first time or again, and its place given
\* back: no address is left with more places than connections.
LEMMA SeatsRemoved ==
  ASSUME TypeOK, Seats, NEW c \in Conns,
         listed' = listed \ {c}, ipCounts' = PlaceBack(c),
         \A b \in Conns \ {c} : st'[b] = st[b] /\ ip'[b] = ip[b]
  PROVE  Seats'
  <1>0. listed \subseteq Conns /\ ipCounts \in [Ips -> Nat] /\ IsFiniteSet(listed)
    BY DEF TypeOK, Seats
  <1>1. ASSUME NEW i \in Ips PROVE ipCounts'[i] <= Cardinality(At(i)')
    <2>1. At(i)' = At(i) \ {c} BY <1>0 DEF At
    <2>2. IsFiniteSet(At(i)) BY <1>0, FS_Subset DEF At
    <2>3. /\ Cardinality(At(i)') \in Nat /\ Cardinality(At(i)) \in Nat
          /\ Cardinality(At(i)') = IF c \in At(i) THEN Cardinality(At(i)) - 1
                                                  ELSE Cardinality(At(i))
      BY <2>1, <2>2, FS_RemoveElement, FS_CardinalityType
    <2>4. ipCounts[i] <= Cardinality(At(i)) /\ ipCounts[i] \in Nat
      BY <1>0 DEF Seats, PlacesReturn, At
    <2>5. CASE ip[c] = i
      <3>1. ipCounts'[i] = IF ipCounts[i] <= 1 THEN 0 ELSE ipCounts[i] - 1
        BY <1>0, <2>5 DEF PlaceBack
      <3> QED BY <2>3, <2>4, <3>1
    <2>6. CASE ip[c] # i
      <3>1. ipCounts'[i] = ipCounts[i] BY <1>0, <2>6 DEF PlaceBack
      <3>2. c \notin At(i) BY <2>6 DEF At
      <3> QED BY <2>3, <2>4, <3>1, <3>2
    <2> QED BY <2>5, <2>6
  <1>2. PlacesReturn' BY <1>1 DEF PlacesReturn, At
  <1>3. \A b \in Conns : st'[b] = "free" => b \notin listed' BY DEF Seats
  <1>4. IsFiniteSet(listed') BY <1>0, FS_Subset
  <1> QED BY <1>2, <1>3, <1>4 DEF Seats

\* A connection that is not in the map is added to it and takes a place.
LEMMA SeatsTaken ==
  ASSUME TypeOK, Seats, NEW c \in Conns, NEW i \in Ips, Connect(c, i)
  PROVE  Seats'
  <1>0. listed \subseteq Conns /\ ipCounts \in [Ips -> Nat] /\ IsFiniteSet(listed)
        /\ ip \in [Conns -> Ips \cup {None}]
    BY DEF TypeOK, Seats
  <1>1. c \notin listed BY DEF Connect, Seats
  <1>2. ASSUME NEW j \in Ips PROVE ipCounts'[j] <= Cardinality(At(j)')
    <2>1. At(j)' = IF j = i THEN At(j) \cup {c} ELSE At(j)
      BY <1>0, <1>1 DEF At, Connect
    <2>2. IsFiniteSet(At(j)) /\ c \notin At(j) BY <1>0, <1>1, FS_Subset DEF At
    <2>3. /\ Cardinality(At(j)) \in Nat
          /\ Cardinality(At(j)') = IF j = i THEN Cardinality(At(j)) + 1
                                            ELSE Cardinality(At(j))
      BY <2>1, <2>2, FS_AddElement, FS_CardinalityType
    <2>4. ipCounts[j] <= Cardinality(At(j)) /\ ipCounts[j] \in Nat
      BY <1>0 DEF Seats, PlacesReturn, At
    <2>5. ipCounts'[j] = IF j = i THEN ipCounts[j] + 1 ELSE ipCounts[j]
      BY <1>0 DEF Connect
    <2> QED BY <2>3, <2>4, <2>5
  <1>3. PlacesReturn' BY <1>2 DEF PlacesReturn, At
  <1>4. \A b \in Conns : st'[b] = "free" => b \notin listed' BY DEF Connect, Seats, TypeOK
  <1>5. IsFiniteSet(listed') BY <1>0, FS_AddElement DEF Connect
  <1> QED BY <1>3, <1>4, <1>5 DEF Seats

\* Every step keeps the places accounted for (connection-manager.ts:96-219).
LEMMA SeatsStep == TypeOK /\ Seats /\ [Next]_vars => Seats'
  <1> SUFFICES ASSUME TypeOK, Seats, [Next]_vars PROVE Seats' OBVIOUS
  <1>0. /\ listed \subseteq Conns
        /\ st \in [Conns -> {"free", "open", "asking", "strayed", "in", "shut"}]
    BY DEF TypeOK
  <1>a. \A c \in listed : st[c] # "free" BY <1>0 DEF Seats
  <1>1. ASSUME NEW c \in Conns, Arrives(c) PROVE Seats'
    <2>1. ASSUME NEW k \in Keys, NEW near \in BOOLEAN, Authenticate(c, k, near) PROVE Seats'
      <3>1. After(Verdict(k, near)) \in {"asking", "in", "shut"}
        <4>1. Verdict(k, near) \in {"standing", "yes", "no"}
          BY DEF Verdict, Covered, TypeOK
        <4> QED BY <4>1 DEF After
      <3> QED BY <1>0, <1>a, <2>1, <3>1, SeatsQuiet DEF Authenticate
    <2>2. ASSUME NEW k \in Keys, NEW near \in BOOLEAN, Knock(c, k, near) PROVE Seats'
      BY <1>0, <1>a, <2>2, SeatsQuiet DEF Knock
    <2> QED BY <1>1, <2>1, <2>2, SeatsTaken DEF Arrives, Keys, HttpRequest, StreamRequest
  <1>2. ASSUME NEW c \in Conns, Leaves(c) PROVE Seats'
    <2>1. CASE Shuts(c) BY <1>0, <1>a, <2>1, SeatsQuiet DEF Shuts
    <2>2. CASE Removed(c)
      <3>1. \A b \in Conns \ {c} : st'[b] = st[b] /\ ip'[b] = ip[b]
        BY <2>2 DEF Removed, TypeOK
      <3> QED BY <2>2, <3>1, SeatsRemoved DEF Removed
    <2>3. CASE Disconnect(c) BY <1>0, <1>a, <2>3, SeatsQuiet DEF Disconnect
    <2>4. CASE HangupDone(c)
      <3>1. \A b \in Conns \ {c} : st'[b] = st[b] /\ ip'[b] = ip[b]
        BY <2>4 DEF HangupDone, TypeOK
      <3> QED BY <2>4, <3>1, SeatsRemoved DEF HangupDone
    <2>5. CASE RemoveAllReaches(c) BY <1>0, <1>a, <2>5, SeatsQuiet DEF RemoveAllReaches
    <2> QED BY <1>2, <2>1, <2>2, <2>3, <2>4, <2>5 DEF Leaves
  <1>3. ASSUME NEW d \in Devices, DeviceStep(d) PROVE Seats'
    <2>1. CASE UNCHANGED sockVars BY <1>a, <2>1, SeatsQuiet DEF sockVars
    <2>2. CASE Register(d) \/ Expire(d) \/ ShellRemoves(d) \/ ShellGivesUp(d)
      BY <2>1, <2>2 DEF Register, Expire, ShellRemoves, ShellGivesUp
    <2>3. CASE RevokeToken(d) BY <1>0, <1>a, <2>3, SeatsQuiet DEF RevokeToken
    <2>4. CASE ToStray({d}) /\ UNCHANGED <<listed, ip, ipCounts>>
      BY <1>0, <1>a, <2>4, ToStrayIs, SeatsQuiet
    <2>5. CASE PairLocally(d) \/ Paired(d) \/ PanelForgets(d)
      BY <2>4, <2>5 DEF PairLocally, Paired, PanelForgets
    <2> QED BY <1>3, <2>2, <2>3, <2>5 DEF DeviceStep, ShellPosts, RevokeFromPanel
  <1>4. ASSUME NEW W, NEW v \in {"yes", "no"}, Resume(W, v), UNCHANGED <<listed, ip, ipCounts>>
        PROVE Seats'
    <2>1. After(v) \in {"in", "shut"} BY DEF After
    <2> QED BY <1>0, <1>a, <1>4, <2>1, SeatsQuiet DEF Resume
  <1>5. ASSUME NEW d \in Devices, NEW v \in {"yes", "no"}, AnswerStray(d, v) PROVE Seats'
    BY <1>4, <1>5 DEF AnswerStray
  <1>6. ASSUME NEW k \in Keys, NEW v \in {"yes", "no"}, Answer(k, v) PROVE Seats'
    BY <1>4, <1>6 DEF Answer
  <1>7. CASE FlipPolicy \/ RefreshPeers \/ Tick \/ UNCHANGED vars
    BY <1>a, <1>7, SeatsQuiet DEF FlipPolicy, RefreshPeers, Tick, vars, sockVars
  <1> QED BY <1>1, <1>2, <1>3, <1>5, <1>6, <1>7 DEF Next, Settles, SettlesStray

-----------------------------------------------------------------------------
(***************************************************************************)
(* Who is inside, and whom a revocation misses.                            *)
(***************************************************************************)
\* What an answer does to a socket that is in afterwards.
LEMMA ResumeIn ==
  ASSUME TypeOK, NEW W \in SUBSET Conns, NEW v \in {"yes", "no"}, Resume(W, v),
         NEW c \in Conns
  PROVE  /\ c \notin W => st'[c] = st[c] /\ key'[c] = key[c]
         /\ c \in W => st'[c] \in {"in", "shut", "free"}
         /\ c \in W /\ st'[c] = "in" => v = "yes" /\ c \in listed /\ key'[c] = key[c]
         /\ c \in authed' => c \in authed \/ (c \in W \cap listed /\ st'[c] = "in")
         /\ c \in authed => c \in authed'
         /\ c \in W \cap listed /\ v = "yes" => c \in authed'
  BY DEF Resume, After, TypeOK

\* Nothing changes but which sockets have been shut and what waits for which
\* question.
LEMMA InsideQuiet ==
  ASSUME TypeOK, Inside, CaughtWaiting,
         UNCHANGED <<key, listed, authed, token, caught>>,
         \A c \in Conns : hangup'[c] = hangup[c] \/ st'[c] = "shut",
         \A c \in Conns : \/ st'[c] = st[c]
                          \/ st'[c] = "shut"
                          \/ st[c] = "asking" /\ st'[c] = "strayed"
  PROVE  Inside' /\ CaughtWaiting'
  BY DEF TypeOK, Inside, CaughtWaiting

\* An answer lets in sockets that were waiting, and only those.
LEMMA InsideResume ==
  ASSUME TypeOK, Inside, CaughtWaiting, NEW W \in SUBSET Conns, NEW v \in {"yes", "no"},
         \A c \in W : st[c] \in {"asking", "strayed"},
         Resume(W, v), UNCHANGED <<listed, hangup, token, caught>>
  PROVE  Inside' /\ CaughtWaiting'
  <1>0. \A c \in Conns : c \in W => c \notin authed /\ ~(hangup[c] > 0) /\ st[c] # "open"
    BY DEF Inside, TypeOK
  <1>a. \A c \in Conns : st'[c] = "open" => c \in listed' BY ResumeIn DEF Inside
  <1>b. \A c \in Conns : st'[c] = "in" => c \in listed' \cap authed' BY ResumeIn DEF Inside
  <1>c. \A c \in Conns : c \in authed' => st'[c] \in {"in", "shut"} BY <1>0, ResumeIn DEF Inside
  <1>d. \A c \in Conns : hangup'[c] > 0 => st'[c] \in {"free", "shut"} BY <1>0, ResumeIn DEF Inside
  <1>e. authed' \subseteq Conns BY ResumeType DEF TypeOK
  <1>1. Inside' BY <1>a, <1>b, <1>c, <1>d, <1>e DEF Inside
  <1>2. CaughtWaiting'
    <2> SUFFICES ASSUME NEW c \in listed', (st[c] \in {"asking", "strayed", "in"})',
                        (key[c] \in Devices)', (token[key[c]] = "revoked")'
                 PROVE  c \in caught'
      BY DEF CaughtWaiting
    <2>1. key'[c] = key[c] /\ st[c] \in {"asking", "strayed", "in"} /\ c \in listed
      BY ResumeIn DEF TypeOK
    <2> QED BY <2>1 DEF CaughtWaiting
  <1> QED BY <1>1, <1>2

\* Every step keeps the sweep's view complete (pairing-local.ts:160-190,
\* wire-connections.ts:232-300).
LEMMA InsideStep ==
  TypeOK /\ Seats /\ Inside /\ CaughtWaiting /\ [Next]_vars => Inside' /\ CaughtWaiting'
  <1> SUFFICES ASSUME TypeOK, Seats, Inside, CaughtWaiting, [Next]_vars
               PROVE  Inside' /\ CaughtWaiting'
    OBVIOUS
  <1>0. Machine \notin Devices /\ None \notin Devices BY DoorAssumption DEF DoorAssumption
  <1>1. ASSUME NEW c \in Conns, Arrives(c) PROVE Inside' /\ CaughtWaiting'
    <2>1. ASSUME NEW i \in Ips, Connect(c, i) PROVE Inside' /\ CaughtWaiting'
      BY <2>1 DEF Connect, TypeOK, Inside, CaughtWaiting, credVars
    <2>2. ASSUME NEW k \in Keys, NEW near \in BOOLEAN, Authenticate(c, k, near)
          PROVE  Inside' /\ CaughtWaiting'
      <3> DEFINE v == Verdict(k, near)
      <3>1. After(v) \in {"asking", "in", "shut"} /\ (After(v) = "in" => v = "yes")
        <4>1. v \in {"standing", "yes", "no"} BY DEF Verdict, Covered, TypeOK
        <4> HIDE DEF v
        <4> QED BY <4>1 DEF After
      <3>2. /\ st[c] = "open" /\ c \notin authed /\ ~(hangup[c] > 0)
            /\ st' = [st EXCEPT ![c] = After(v)] /\ key' = [key EXCEPT ![c] = k]
            /\ authed' = IF v = "yes" THEN authed \cup {c} ELSE authed
            /\ UNCHANGED <<listed, hangup, token, caught>>
            /\ k \in Devices => token[k] = "live"
        BY <1>0, <2>2 DEF Authenticate, HasToken, credVars, Inside
      <3>2a. v = "yes" => After(v) = "in" BY DEF After
      <3>3. c \in listed BY <3>2 DEF Inside
      <3> HIDE DEF v
      <3>4. Inside' BY <3>1, <3>2, <3>2a, <3>3 DEF Inside, TypeOK
      <3>5. CaughtWaiting' BY <3>2 DEF CaughtWaiting, TypeOK
      <3> QED BY <3>4, <3>5
    <2>3. ASSUME NEW k \in Keys, NEW near \in BOOLEAN, Knock(c, k, near)
          PROVE  Inside' /\ CaughtWaiting'
      <3>1. /\ st[c] = "free" /\ c \notin authed /\ ~(hangup[c] > 0) /\ c \notin listed
            /\ st'[c] \in {"asking", "free"} /\ (st'[c] = "asking" => key'[c] = k)
            /\ \A b \in Conns \ {c} : st'[b] = st[b] /\ key'[b] = key[b]
            /\ UNCHANGED <<listed, authed, hangup, token, caught>>
        BY <2>3 DEF Knock, credVars, Inside, TypeOK, Seats
      <3>2. Inside' BY <3>1 DEF Inside, TypeOK
      <3>3. CaughtWaiting' BY <3>1 DEF CaughtWaiting, TypeOK
      <3> QED BY <3>2, <3>3
    <2> QED BY <1>1, <2>1, <2>2, <2>3 DEF Arrives, Keys, HttpRequest, StreamRequest
  <1>2. ASSUME NEW c \in Conns, Leaves(c) PROVE Inside' /\ CaughtWaiting'
    <2>1. CASE Shuts(c)
      <3>1. \A b \in Conns : st'[b] = st[b] \/ st'[b] = "shut" BY <2>1 DEF Shuts, TypeOK
      <3> QED BY <2>1, <3>1, InsideQuiet DEF Shuts, credVars
    <2>2. CASE Removed(c)
      BY <1>0, <2>2 DEF Removed, TypeOK, Inside, CaughtWaiting, credVars
    <2>3. CASE Disconnect(c)
      <3>1. /\ \A b \in Conns : st'[b] = st[b] \/ st'[b] = "shut"
            /\ \A b \in Conns : hangup'[b] = hangup[b] \/ st'[b] = "shut"
        BY <2>3 DEF Disconnect, StartHangup, TypeOK
      <3> QED BY <2>3, <3>1, InsideQuiet DEF Disconnect, credVars
    <2>4. CASE HangupDone(c)
      BY <2>4 DEF HangupDone, TypeOK, Inside, CaughtWaiting, credVars
    <2>5. CASE RemoveAllReaches(c)
      <3>1. /\ \A b \in Conns : \/ st'[b] = st[b]
                                \/ st'[b] = "shut"
                                \/ st[b] = "asking" /\ st'[b] = "strayed"
            /\ \A b \in Conns : hangup'[b] = hangup[b] \/ st'[b] = "shut"
        BY <2>5 DEF RemoveAllReaches, StartHangup, TypeOK
      <3> QED BY <2>5, <3>1, InsideQuiet DEF RemoveAllReaches, credVars
    <2> QED BY <1>2, <2>1, <2>2, <2>3, <2>4, <2>5 DEF Leaves
  <1>3. ASSUME NEW d \in Devices, DeviceStep(d) PROVE Inside' /\ CaughtWaiting'
    <2>1. CASE UNCHANGED sockVars /\ caught' = caught
                 /\ \A e \in Devices : token'[e] = "revoked" => token[e] = "revoked"
      <3>1. Inside' BY <2>1 DEF Inside, sockVars
      <3>2. CaughtWaiting' BY <2>1 DEF CaughtWaiting, sockVars
      <3> QED BY <3>1, <3>2
    <2>2. CASE Register(d) \/ Expire(d) \/ ShellRemoves(d) \/ ShellGivesUp(d)
      BY <2>1, <2>2 DEF Register, Expire, ShellRemoves, ShellGivesUp, TypeOK
    <2>3. CASE RevokeToken(d)
      <3>1. Inside' BY <2>3 DEF RevokeToken, Inside, Swept, TypeOK
      <3>2. CaughtWaiting'
        <4> SUFFICES ASSUME NEW c \in listed', (st[c] \in {"asking", "strayed", "in"})',
                            (key[c] \in Devices)', (token[key[c]] = "revoked")'
                     PROVE  c \in caught'
          BY DEF CaughtWaiting
        <4>0. /\ key'[c] = key[c] /\ st[c] \in {"asking", "strayed", "in"} /\ c \notin Swept(d)
              /\ c \in listed /\ c \in Conns
          BY <2>3 DEF RevokeToken, TypeOK
        <4>1. CASE token[key[c]] = "revoked" BY <2>3, <4>0, <4>1 DEF CaughtWaiting, RevokeToken
        <4>2. CASE token[key[c]] # "revoked"
          <5>1. key[c] = d /\ token[d] = "live" BY <2>3, <4>0, <4>2 DEF RevokeToken, TypeOK
          <5>2. st[c] # "in" BY <4>0, <5>1 DEF Swept, Inside
          <5> QED BY <2>3, <4>0, <5>1, <5>2 DEF RevokeToken
        <4> QED BY <4>1, <4>2
      <3> QED BY <3>1, <3>2
    <2>4. ASSUME ToStray({d}), UNCHANGED <<key, listed, authed, hangup, caught>>,
                 \A e \in Devices : token'[e] = "revoked" => token[e] = "revoked"
          PROVE  Inside' /\ CaughtWaiting'
      <3>1. \A b \in Conns : st'[b] = st[b] \/ (st[b] = "asking" /\ st'[b] = "strayed")
        BY <2>4, ToStrayIs
      <3>2. Inside' BY <2>4, <3>1 DEF Inside, TypeOK
      <3>3. CaughtWaiting' BY <2>4, <3>1 DEF CaughtWaiting, TypeOK
      <3> QED BY <3>2, <3>3
    <2>5. CASE PairLocally(d) \/ Paired(d) \/ PanelForgets(d)
      BY <2>4, <2>5 DEF PairLocally, Paired, PanelForgets, TypeOK
    <2> QED BY <1>3, <2>2, <2>3, <2>5 DEF DeviceStep, ShellPosts, RevokeFromPanel
  <1>4. ASSUME NEW d \in Devices, NEW v \in {"yes", "no"}, AnswerStray(d, v)
        PROVE  Inside' /\ CaughtWaiting'
    <2>1. WaitingStray(d) \in SUBSET Conns /\ \A c \in WaitingStray(d) : st[c] \in {"asking", "strayed"}
      BY DEF WaitingStray
    <2>2. Resume(WaitingStray(d), v) BY <1>4 DEF AnswerStray
    <2>3. UNCHANGED <<listed, hangup, token, caught>> BY <1>4 DEF AnswerStray, credVars
    <2> QED BY <2>1, <2>2, <2>3, InsideResume
  <1>5. ASSUME NEW k \in Keys, NEW v \in {"yes", "no"}, Answer(k, v)
        PROVE  Inside' /\ CaughtWaiting'
    <2>1. Waiting(k) \in SUBSET Conns /\ \A c \in Waiting(k) : st[c] \in {"asking", "strayed"}
      BY DEF Waiting
    <2>2. Resume(Waiting(k), v) BY <1>5 DEF Answer
    <2>3. UNCHANGED <<listed, hangup, token, caught>> BY <1>5 DEF Answer, credVars
    <2> QED BY <2>1, <2>2, <2>3, InsideResume
  <1>6. CASE FlipPolicy \/ RefreshPeers \/ Tick \/ UNCHANGED vars
    BY <1>6, InsideQuiet DEF FlipPolicy, RefreshPeers, Tick, vars, sockVars, credVars
  <1> QED BY <1>1, <1>2, <1>3, <1>4, <1>5, <1>6 DEF Next, Settles, SettlesStray

-----------------------------------------------------------------------------
(***************************************************************************)
(* Who waits at the gate, and who has been given a token.                  *)
(***************************************************************************)
\* Every step keeps what has reached the relay to devices that have a token.
LEMMA PresentedStep == TypeOK /\ Presented /\ [Next]_vars => Presented'
  <1> SUFFICES ASSUME TypeOK, Presented, [Next]_vars PROVE Presented' OBVIOUS
  <1>0. Machine \notin Devices /\ None \notin Devices BY DoorAssumption DEF DoorAssumption
  <1>1. ASSUME \A d \in Devices : token'[d] = "new" => token[d] = "new",
               \A c \in Conns : key'[c] \in Devices => key'[c] = key[c],
               \A d \in ring' \cup joining' : d \in ring \cup joining \/ token'[d] # "new"
        PROVE  Presented'
    <2>1. \A d \in ring' \cup joining' : d \in ring \cup joining => d \in Devices BY DEF TypeOK
    <2> QED BY <1>1, <2>1 DEF Presented
  <1>2. ASSUME UNCHANGED credVars, \A c \in Conns : key'[c] \in Devices => key'[c] = key[c]
        PROVE  Presented'
    BY <1>1, <1>2 DEF credVars
  <1>3. ASSUME NEW c \in Conns, NEW k \in Keys, k \in Devices => token[k] # "new",
               key' = [key EXCEPT ![c] = k] \/ key' = [key EXCEPT ![c] = None] , UNCHANGED credVars
        PROVE  Presented'
    BY <1>0, <1>3 DEF Presented, TypeOK, credVars
  <1>4. ASSUME NEW c \in Conns, Arrives(c) PROVE Presented'
    <2>1. ASSUME NEW i \in Ips, Connect(c, i) PROVE Presented' BY <1>2, <2>1 DEF Connect
    <2>2. ASSUME NEW k \in Keys, NEW near \in BOOLEAN,
                 Authenticate(c, k, near) \/ HttpRequest(c, k, near)
          PROVE  Presented'
      <3>1. k \in Devices => token[k] # "new"
        BY <1>0, <2>2 DEF Authenticate, HttpRequest, HasToken
      <3>2. /\ key' = [key EXCEPT ![c] = k] \/ key' = [key EXCEPT ![c] = None]
            /\ UNCHANGED credVars
        BY <2>2 DEF Authenticate, HttpRequest, Knock
      <3> QED BY <1>3, <3>1, <3>2
    <2>3. ASSUME NEW d \in Devices, StreamRequest(c, d) PROVE Presented'
      <3>1. token[d] # "new" /\ d \in Keys BY <2>3 DEF StreamRequest, Presented, Keys
      <3>2. /\ key' = [key EXCEPT ![c] = d] \/ key' = [key EXCEPT ![c] = None]
            /\ UNCHANGED credVars
        BY <2>3 DEF StreamRequest, Knock
      <3> QED BY <1>3, <3>1, <3>2
    <2> QED BY <1>4, <2>1, <2>2, <2>3 DEF Arrives, Keys
  <1>5. ASSUME NEW c \in Conns, Leaves(c) PROVE Presented'
    <2>1. UNCHANGED credVars /\ (UNCHANGED key \/ key' = [key EXCEPT ![c] = None])
      BY <1>5 DEF Leaves, Shuts, Removed, Disconnect, HangupDone, RemoveAllReaches
    <2> QED BY <1>0, <1>2, <2>1 DEF TypeOK
  <1>6. ASSUME NEW d \in Devices, DeviceStep(d) PROVE Presented'
    <2>1. UNCHANGED key
      BY <1>6 DEF DeviceStep, PairLocally, Register, Paired, Expire, ShellRemoves, ShellPosts,
                  ShellGivesUp, RevokeFromPanel, RevokeToken, PanelForgets, sockVars
    <2>2. \A e \in Devices : token'[e] = "new" => token[e] = "new"
      BY <1>6 DEF DeviceStep, PairLocally, Register, Paired, Expire, ShellRemoves, ShellPosts,
                  ShellGivesUp, RevokeFromPanel, RevokeToken, PanelForgets, TypeOK
    <2>3. ring' \cup joining' \subseteq ring \cup joining \cup {d} /\
          (d \in ring' \cup joining' => d \in ring \cup joining \/ token'[d] # "new")
      <3>1. CASE Register(d) BY <3>1 DEF Register, TypeOK
      <3>2. CASE Paired(d) BY <3>2 DEF Paired
      <3>3. CASE ~Register(d) /\ ~Paired(d)
        BY <1>6, <3>3
        DEF DeviceStep, PairLocally, Expire, ShellRemoves, ShellPosts, ShellGivesUp,
            RevokeFromPanel, RevokeToken, PanelForgets
      <3> QED BY <3>1, <3>2, <3>3
    <2> QED BY <1>1, <2>1, <2>2, <2>3
  <1>7. ASSUME NEW W, NEW v, Resume(W, v), UNCHANGED credVars PROVE Presented'
    BY <1>0, <1>2, <1>7 DEF Resume
  <1>8. CASE FlipPolicy \/ Tick \/ UNCHANGED vars
    BY <1>2, <1>8 DEF FlipPolicy, Tick, vars, sockVars
  <1>9. CASE RefreshPeers BY <1>1, <1>9 DEF RefreshPeers, sockVars
  <1> QED BY <1>4, <1>5, <1>6, <1>7, <1>8, <1>9
      DEF Next, Settles, SettlesStray, Answer, AnswerStray

\* Dropping or replacing the records of D moves whoever waits for their
\* questions, and the questions with them (start.ts:1519-1531).
LEMMA WaitsStray ==
  ASSUME TypeOK, Waiters, NEW D \in SUBSET Devices, UNCHANGED key,
         stray' = stray \cup {d \in D : decided[d] = "standing"},
         \A k \in Keys \ D : decided'[k] = decided[k],
         \A c \in Conns : \/ st'[c] = st[c] /\ ~(st[c] = "asking" /\ key[c] \in D)
                          \/ st[c] = "asking" /\ key[c] \in D /\ st'[c] = "strayed"
                          \/ st'[c] = "shut"
  PROVE  Waiters'
  <1> SUFFICES ASSUME NEW c \in Conns PROVE Waits(c)' BY DEF Waiters
  <1>0. Waits(c) BY DEF Waiters
  <1> QED BY <1>0 DEF Waits

\* Every step keeps whoever waits at the gate with a question that stands
\* (start.ts:1537-1701).
LEMMA WaitersStep == TypeOK /\ Seats /\ Waiters /\ [Next]_vars => Waiters'
  <1> SUFFICES ASSUME TypeOK, Seats, Waiters, [Next]_vars PROVE Waiters' OBVIOUS
  <1>0. Machine \notin Devices /\ None \notin Keys
    BY DoorAssumption DEF DoorAssumption, Keys
  <1>1. ASSUME UNCHANGED <<decided, stray>>,
               \A c \in Conns : \/ st'[c] = st[c] /\ key'[c] = key[c]
                                \/ st'[c] \notin {"asking", "strayed"}
        PROVE  Waiters'
    BY <1>1 DEF Waiters, Waits
  <1>2. ASSUME NEW k \in Keys, NEW near \in BOOLEAN, NEW c \in Conns, Admit(k, near),
               \A b \in Conns \ {c} : st'[b] = st[b] /\ key'[b] = key[b],
               st'[c] # "strayed",
               st'[c] = "asking" => key'[c] = k /\ Verdict(k, near) = "standing"
        PROVE  Waiters'
    <2>1. \A h \in Keys : decided[h] = "standing" => decided'[h] = "standing"
      BY <1>2 DEF Admit, Covered, TypeOK
    <2>2. Verdict(k, near) = "standing" => decided'[k] = "standing"
      BY <1>2 DEF Admit, Verdict, Raises, TypeOK
    <2>3. stray' = stray BY <1>2 DEF Admit
    <2> SUFFICES ASSUME NEW b \in Conns PROVE Waits(b)' BY DEF Waiters
    <2>4. Waits(b) BY DEF Waiters
    <2>5. CASE b = c BY <1>2, <2>2, <2>5 DEF Waits
    <2>6. CASE b # c BY <1>2, <2>1, <2>3, <2>4, <2>6 DEF Waits
    <2> QED BY <2>5, <2>6
  <1>3. ASSUME NEW c \in Conns, Arrives(c) PROVE Waiters'
    <2>1. ASSUME NEW i \in Ips, Connect(c, i) PROVE Waiters'
      BY <1>1, <2>1 DEF Connect, TypeOK, gateVars
    <2>2. ASSUME NEW k \in Keys, NEW near \in BOOLEAN, Authenticate(c, k, near) PROVE Waiters'
      <3>0. Verdict(k, near) \in {"standing", "yes", "no"} BY DEF Verdict, Covered, TypeOK
      <3>1. /\ Admit(k, near) /\ key'[c] = k /\ st'[c] = After(Verdict(k, near))
            /\ \A b \in Conns \ {c} : st'[b] = st[b] /\ key'[b] = key[b]
        BY <2>2 DEF Authenticate, TypeOK
      <3>2. After(Verdict(k, near)) # "strayed"
            /\ (After(Verdict(k, near)) = "asking" => Verdict(k, near) = "standing")
        BY <3>0 DEF After
      <3> QED BY <1>2, <3>1, <3>2
    <2>3. ASSUME NEW k \in Keys, NEW near \in BOOLEAN, Knock(c, k, near) PROVE Waiters'
      BY <1>2, <2>3 DEF Knock, TypeOK
    <2> QED BY <1>3, <2>1, <2>2, <2>3 DEF Arrives, Keys, HttpRequest, StreamRequest
  <1>4. ASSUME NEW c \in Conns, Leaves(c) PROVE Waiters'
    <2>1. CASE Shuts(c) \/ Removed(c) \/ Disconnect(c) \/ HangupDone(c)
      BY <1>1, <2>1 DEF Shuts, Removed, Disconnect, HangupDone, TypeOK, gateVars
    <2>2. CASE RemoveAllReaches(c)
      <3> DEFINE D == {key[c]} \cap Connected
      <3>1. D \in SUBSET Devices BY DEF Connected
      <3>2. Forget(D) /\ UNCHANGED key BY <2>2 DEF RemoveAllReaches
      <3>3. st' = [b \in Conns |-> IF b = c THEN "shut"
                              ELSE IF st[b] = "asking" /\ key[b] \in D THEN "strayed"
                              ELSE st[b]]
        BY <2>2 DEF RemoveAllReaches
      <3> HIDE DEF D
      <3>4. \A b \in Conns : \/ st'[b] = st[b] /\ ~(st[b] = "asking" /\ key[b] \in D)
                             \/ st[b] = "asking" /\ key[b] \in D /\ st'[b] = "strayed"
                             \/ st'[b] = "shut"
        BY <3>3
      <3>5. /\ stray' = stray \cup {d \in D : decided[d] = "standing"}
            /\ \A k \in Keys \ D : decided'[k] = decided[k]
        BY <3>2 DEF Forget, TypeOK
      <3> QED BY <3>1, <3>2, <3>4, <3>5, WaitsStray
    <2> QED BY <1>4, <2>1, <2>2 DEF Leaves
  <1>5. ASSUME NEW d \in Devices, DeviceStep(d) PROVE Waiters'
    <2>1. CASE Register(d) \/ Expire(d) \/ ShellRemoves(d) \/ ShellGivesUp(d)
      BY <1>1, <2>1 DEF Register, Expire, ShellRemoves, ShellGivesUp, sockVars, gateVars
    <2>2. CASE RevokeToken(d) BY <1>1, <2>2 DEF RevokeToken, TypeOK, gateVars
    <2>3. CASE ToStray({d}) /\ UNCHANGED key /\ (Approve(d) \/ Forget({d}))
      <3>1. /\ stray' = stray \cup {e \in {d} : decided[e] = "standing"}
            /\ \A k \in Keys \ {d} : decided'[k] = decided[k]
        BY <2>3 DEF Approve, Forget, TypeOK
      <3> QED BY <2>3, <3>1, ToStrayIs, WaitsStray
    <2>4. CASE PairLocally(d) \/ Paired(d) \/ PanelForgets(d)
      BY <2>3, <2>4 DEF PairLocally, Paired, PanelForgets
    <2> QED BY <1>5, <2>1, <2>2, <2>4 DEF DeviceStep, ShellPosts, RevokeFromPanel
  <1>6. ASSUME NEW d \in Devices, NEW v \in {"yes", "no"}, AnswerStray(d, v) PROVE Waiters'
    <2>1. /\ WaitingStray(d) \in SUBSET Conns /\ Resume(WaitingStray(d), v)
          /\ decided' = decided /\ stray' = stray \ {d}
      BY <1>6 DEF AnswerStray, WaitingStray
    <2> SUFFICES ASSUME NEW c \in Conns PROVE Waits(c)' BY DEF Waiters
    <2>2. Waits(c) BY DEF Waiters
    <2>3. CASE c \in WaitingStray(d) BY <2>1, <2>3, ResumeIn DEF Waits
    <2>4. CASE c \notin WaitingStray(d)
      <3>1. st'[c] = st[c] /\ key'[c] = key[c] BY <2>1, <2>4, ResumeIn
      <3>2. st[c] = "strayed" => key[c] # d BY <2>4 DEF WaitingStray
      <3> QED BY <2>1, <2>2, <3>1, <3>2 DEF Waits
    <2> QED BY <2>3, <2>4
  <1>7. ASSUME NEW k \in Keys, NEW v \in {"yes", "no"}, Answer(k, v) PROVE Waiters'
    <2>1. /\ Waiting(k) \in SUBSET Conns /\ Resume(Waiting(k), v) /\ stray' = stray
          /\ \A h \in Keys \ {k} : decided'[h] = decided[h]
      BY <1>7 DEF Answer, Waiting, TypeOK
    <2> SUFFICES ASSUME NEW c \in Conns PROVE Waits(c)' BY DEF Waiters
    <2>2. Waits(c) BY DEF Waiters
    <2>3. CASE c \in Waiting(k) BY <2>1, <2>3, ResumeIn DEF Waits
    <2>4. CASE c \notin Waiting(k)
      <3>1. st'[c] = st[c] /\ key'[c] = key[c] BY <2>1, <2>4, ResumeIn
      <3>2. st[c] = "asking" => key[c] # k BY <2>4 DEF Waiting
      <3> QED BY <2>1, <2>2, <3>1, <3>2 DEF Waits
    <2> QED BY <2>3, <2>4
  <1>8. CASE FlipPolicy \/ RefreshPeers \/ Tick \/ UNCHANGED vars
    BY <1>1, <1>8 DEF FlipPolicy, RefreshPeers, Tick, vars, sockVars, gateVars
  <1> QED BY <1>3, <1>4, <1>5, <1>6, <1>7, <1>8 DEF Next, Settles, SettlesStray

-----------------------------------------------------------------------------
(***************************************************************************)
(* What a record of the gate is worth.                                     *)
(***************************************************************************)
\* A device about which the gate is not told anything and that does not come in
\* keeps its worth.
LEMMA WorthQuiet ==
  ASSUME NEW d \in Devices, Worth(d), decided'[d] = decided[d], cover'[d] = cover[d],
         consent'[d] = consent[d], d \in late' <=> d \in late,
         d \in Connected' => d \in Connected
  PROVE  Worth(d)'
  BY DEF Worth

\* No socket carries a device it did not carry before.
LEMMA ConnectedShrinks ==
  ASSUME TypeOK, NEW d \in Devices,
         token'[d] = "live" => token[d] = "live",
         \A c \in listed' \cap authed' : key'[c] = d =>
            c \in listed \cap authed /\ key[c] = d
  PROVE  d \in Connected' => d \in Connected
  BY DEF Connected

\* A human's yes is worth its grace, whoever is connected.
LEMMA WorthFresh ==
  ASSUME NEW d \in Devices, decided'[d] = "yes", cover'[d] = Grace, consent'[d] = Grace
  PROVE  Worth(d)'
  BY DoorAssumption DEF Worth, DoorAssumption

\* A device the gate knows nothing of is worth nothing.
LEMMA WorthNothing ==
  ASSUME NEW d \in Devices, decided'[d] # "yes", consent'[d] = 0
  PROVE  Worth(d)'
  BY DoorAssumption DEF Worth, DoorAssumption

\* admit() keeps the worth of the device it is asked about, even if the device
\* comes in by it, when what it answers is yes because the record covers it; a
\* device that is waived in is left without a record (start.ts:1425-1470).
LEMMA WorthAdmit ==
  ASSUME TypeOK, NEW k \in Keys, NEW near \in BOOLEAN, NEW d \in Devices, Worth(d),
         Admit(k, near), d # k => (d \in Connected' => d \in Connected),
         d = k /\ Verdict(k, near) # "yes" => (d \in Connected' => d \in Connected)
  PROVE  Worth(d)'
  <1>0. /\ Grace \in Nat \ {0}
        /\ consent[d] \in Nat /\ decided[d] \in {"none", "standing", "yes", "no"}
        /\ d \in Keys /\ cover[d] \in Nat /\ late' = late
    BY DoorAssumption DEF DoorAssumption, TypeOK, Keys, Admit
  <1>1. CASE d # k
    <2>1. decided'[d] = decided[d] /\ cover'[d] = cover[d] /\ consent'[d] = consent[d]
      BY <1>0, <1>1 DEF Admit, TypeOK
    <2> QED BY <1>0, <1>1, <2>1, WorthQuiet
  <1>2. CASE d = k
    <2>0. /\ decided'[d] = IF Covered(d) THEN decided[d]
                           ELSE IF Raises(d, near) THEN "standing" ELSE "none"
          /\ cover'[d] = IF Present(d) THEN Grace ELSE IF Covered(d) THEN cover[d] ELSE 0
          /\ consent'[d] = IF d \in Connected /\ consent[d] > 0 THEN Grace ELSE consent[d]
      BY <1>0, <1>2 DEF Admit, TypeOK
    <2>1. CASE ~Covered(d)
      <3>1. consent[d] = 0 \/ d \in late
        BY <1>0, <2>1 DEF Worth, Covered
      <3>2. consent'[d] <= Grace BY <1>0, <2>0 DEF Worth
      <3>3. decided'[d] # "yes" BY <2>0, <2>1
      <3>4. d \notin late' => ~(consent'[d] > 0) BY <1>0, <2>0, <3>1
      <3> QED BY <3>2, <3>3, <3>4 DEF Worth
    <2>2. CASE Covered(d)
      <3>1. decided'[d] = decided[d] BY <2>0, <2>2
      <3>2. CASE decided[d] # "yes"
        <4>1. consent'[d] <= Grace BY <1>0, <2>0 DEF Worth
        <4>2. d \notin late' => ~(consent'[d] > 0) BY <1>0, <2>0, <3>2 DEF Worth
        <4> QED BY <3>1, <3>2, <4>1, <4>2 DEF Worth
      <3>3. CASE decided[d] = "yes" /\ d \in Connected
        <4>1. cover'[d] = Grace /\ consent'[d] = Grace
          BY <1>0, <2>0, <3>3 DEF Worth, Present
        <4> QED BY <3>1, <3>3, <4>1, WorthFresh
      <3>4. CASE decided[d] = "yes" /\ d \notin Connected
        <4>1. cover[d] > 0 BY <2>2, <3>4 DEF Covered
        <4>2. cover'[d] = cover[d] /\ consent'[d] = consent[d]
          BY <2>0, <2>2, <3>4 DEF Present
        <4> QED BY <1>0, <3>1, <3>4, <4>1, <4>2 DEF Worth
      <3> QED BY <3>2, <3>3, <3>4
    <2> QED BY <2>1, <2>2
  <1> QED BY <1>1, <1>2

\* Time takes the same from the record and from consent, and presence gives
\* the same to both (start.ts:1380-1410).
LEMMA WorthTick ==
  ASSUME TypeOK, NEW d \in Devices, Worth(d), Tick
  PROVE  Worth(d)'
  <1>0. /\ Grace \in Nat \ {0}
        /\ consent[d] \in Nat /\ decided[d] \in {"none", "standing", "yes", "no"}
        /\ d \in Keys /\ cover[d] \in Nat /\ decided' = decided
    BY DoorAssumption DEF DoorAssumption, TypeOK, Keys, Tick
  <1>1. /\ cover'[d] = IF decided[d] = "yes" /\ d \in Connected THEN Grace ELSE Less(cover[d])
        /\ consent'[d] = IF consent[d] > 0 /\ d \in Connected THEN Grace ELSE Less(consent[d])
        /\ d \in late' <=> d \in late /\ consent'[d] > 0
    BY <1>0 DEF Tick, Sampled, Present, TypeOK
  <1>2. d \in Connected' <=> d \in Connected
    BY DEF Tick, Connected, sockVars, credVars
  <1> QED BY <1>0, <1>1, <1>2 DEF Worth, Less

\* Every step keeps the gate's records worth what they say.
LEMMA CoverStep ==
  TypeOK /\ Seats /\ Inside /\ Presented /\ CoverIsConsent /\ [Next]_vars => CoverIsConsent'
  <1> SUFFICES ASSUME TypeOK, Seats, Inside, Presented, [Next]_vars, NEW d \in Devices, Worth(d)
               PROVE  Worth(d)'
    BY DEF CoverIsConsent
  <1>0. Machine \notin Devices /\ None \notin Devices /\ d \in Keys
    BY DoorAssumption DEF DoorAssumption, Keys
  <1>1. ASSUME NEW c \in Conns, Arrives(c) PROVE Worth(d)'
    <2>1. ASSUME NEW i \in Ips, Connect(c, i) PROVE Worth(d)'
      <3>1. c \notin authed BY <2>1 DEF Connect, Inside
      <3>2. d \in Connected' => d \in Connected
        BY <2>1, <3>1, ConnectedShrinks DEF Connect, credVars
      <3> QED BY <2>1, <3>2, WorthQuiet DEF Connect, gateVars
    <2>2. ASSUME NEW k \in Keys, NEW near \in BOOLEAN, Authenticate(c, k, near) PROVE Worth(d)'
      <3>1. Admit(k, near) BY <2>2 DEF Authenticate
      <3>2. c \notin authed BY <2>2 DEF Authenticate, Inside
      <3>3. d # k \/ Verdict(k, near) # "yes" => (d \in Connected' => d \in Connected)
        <4>1. \A b \in Conns \ {c} : key'[b] = key[b] BY <2>2 DEF Authenticate, TypeOK
        <4>2. key'[c] = k /\ (Verdict(k, near) # "yes" => authed' = authed)
          BY <2>2 DEF Authenticate, TypeOK
        <4>3. listed' = listed /\ authed' \subseteq authed \cup {c} /\ token' = token
          BY <2>2 DEF Authenticate, credVars
        <4> QED BY <3>2, <4>1, <4>2, <4>3, ConnectedShrinks DEF TypeOK
      <3> QED BY <3>1, <3>3, WorthAdmit
    <2>3. ASSUME NEW k \in Keys, NEW near \in BOOLEAN, Knock(c, k, near) PROVE Worth(d)'
      <3>1. Admit(k, near) BY <2>3 DEF Knock
      <3>2. c \notin authed BY <2>3 DEF Knock, Inside
      <3>3. d \in Connected' => d \in Connected
        <4>1. \A b \in Conns \ {c} : key'[b] = key[b] BY <2>3 DEF Knock, TypeOK
        <4>2. listed' = listed /\ authed' = authed /\ token' = token
          BY <2>3 DEF Knock, credVars
        <4> QED BY <3>2, <4>1, <4>2, ConnectedShrinks DEF TypeOK
      <3> QED BY <3>1, <3>3, WorthAdmit
    <2> QED BY <1>1, <2>1, <2>2, <2>3 DEF Arrives, Keys, HttpRequest, StreamRequest
  <1>2. ASSUME NEW D \in SUBSET Devices, Forget(D), d \in Connected' => d \in Connected
        PROVE  Worth(d)'
    <2>1. CASE d \in D
      <3>1. decided'[d] = "none" /\ consent'[d] = 0 BY <1>0, <1>2, <2>1 DEF Forget
      <3> QED BY <3>1, WorthNothing
    <2>2. CASE d \notin D
      <3>1. /\ decided'[d] = decided[d] /\ cover'[d] = cover[d] /\ consent'[d] = consent[d]
            /\ d \in late' <=> d \in late
        BY <1>0, <1>2, <2>2 DEF Forget
      <3> QED BY <1>2, <3>1, WorthQuiet
    <2> QED BY <2>1, <2>2
  <1>3. ASSUME NEW c \in Conns, Leaves(c) PROVE Worth(d)'
    <2>1. d \in Connected' => d \in Connected
      <3>1. /\ listed' \subseteq listed /\ authed' \subseteq authed /\ token' = token
            /\ \A b \in Conns : key'[b] = key[b] \/ key'[b] = None
        BY <1>3
        DEF Leaves, Shuts, Removed, Disconnect, HangupDone, RemoveAllReaches, credVars, TypeOK
      <3> QED BY <1>0, <3>1, ConnectedShrinks DEF TypeOK
    <2>2. CASE Shuts(c) \/ Removed(c) \/ Disconnect(c) \/ HangupDone(c)
      BY <2>1, <2>2, WorthQuiet DEF Shuts, Removed, Disconnect, HangupDone, gateVars
    <2>3. CASE RemoveAllReaches(c)
      <3> DEFINE D == {key[c]} \cap Connected
      <3>1. D \in SUBSET Devices BY DEF Connected
      <3>2. Forget(D) BY <2>3 DEF RemoveAllReaches
      <3> HIDE DEF D
      <3> QED BY <1>2, <2>1, <3>1, <3>2
    <2> QED BY <1>3, <2>2, <2>3 DEF Leaves
  <1>4. ASSUME NEW e \in Devices, DeviceStep(e) PROVE Worth(d)'
    <2>1. ASSUME Approve(e), UNCHANGED <<key, listed, authed>>,
                 \A f \in Devices \ {e} : token'[f] = token[f]
          PROVE  Worth(d)'
      <3>1. CASE d = e
        BY <1>0, <2>1, <3>1, WorthFresh DEF Approve, TypeOK
      <3>2. CASE d # e
        <4>1. /\ decided'[d] = decided[d] /\ cover'[d] = cover[d] /\ consent'[d] = consent[d]
              /\ d \in late' <=> d \in late
          BY <1>0, <2>1, <3>2 DEF Approve, TypeOK
        <4>2. d \in Connected' => d \in Connected
          BY <2>1, <3>2 DEF Connected
        <4> QED BY <4>1, <4>2, WorthQuiet
      <3> QED BY <3>1, <3>2
    <2>2. CASE PairLocally(e) \/ Paired(e)
      BY <2>1, <2>2 DEF PairLocally, Paired, TypeOK
    <2>3. CASE Register(e) \/ Expire(e) \/ ShellRemoves(e) \/ ShellGivesUp(e)
      <3>1. /\ UNCHANGED <<key, listed, authed>> /\ listed \subseteq Conns
            /\ token'[d] = "live" => token[d] \in {"live", "new"}
        BY <2>3 DEF Register, Expire, ShellRemoves, ShellGivesUp, TypeOK, sockVars
      <3>2. d \in Connected' => d \in Connected BY <3>1 DEF Presented, Connected
      <3>3. UNCHANGED <<decided, cover, consent, late>>
        BY <2>3 DEF Register, Expire, ShellRemoves, ShellGivesUp, gateVars
      <3> QED BY <3>2, <3>3, WorthQuiet
    <2>4. CASE RevokeToken(e)
      <3>1. d \in Connected' => d \in Connected
        BY <2>4 DEF RevokeToken, TypeOK, Connected
      <3> QED BY <2>4, <3>1, WorthQuiet DEF RevokeToken, gateVars
    <2>5. CASE PanelForgets(e)
      <3>1. {e} \in SUBSET Devices /\ Forget({e}) BY <2>5 DEF PanelForgets
      <3>2. d \in Connected' => d \in Connected BY <2>5 DEF PanelForgets, Connected
      <3> QED BY <1>2, <3>1, <3>2
    <2> QED BY <1>4, <2>2, <2>3, <2>4, <2>5 DEF DeviceStep, ShellPosts, RevokeFromPanel
  <1>5. ASSUME NEW W \in SUBSET Conns, NEW v \in {"yes", "no"}, Resume(W, v),
               NEW k, \A c \in W : key[c] = k, d # k \/ v = "no",
               UNCHANGED <<listed, token>>
        PROVE  d \in Connected' => d \in Connected
    <2>1. ASSUME NEW c \in listed' \cap authed', key'[c] = d
          PROVE  c \in listed \cap authed /\ key[c] = d
      <3>0. c \in Conns BY <1>5 DEF TypeOK
      <3>1. key[c] = d BY <1>0, <2>1, <1>5, <3>0 DEF Resume
      <3>2. c \in authed BY <1>5, <2>1, <3>0, <3>1 DEF Resume
      <3> QED BY <1>5, <3>1, <3>2
    <2> QED BY <1>5, <2>1, ConnectedShrinks
  <1>6. ASSUME NEW e \in Devices, NEW v \in {"yes", "no"}, AnswerStray(e, v) PROVE Worth(d)'
    <2>0. decided' = decided /\ cover' = cover BY <1>6 DEF AnswerStray
    <2>1. CASE d # e \/ v = "no"
      <3>1. WaitingStray(e) \in SUBSET Conns /\ \A c \in WaitingStray(e) : key[c] = e
        BY DEF WaitingStray
      <3>2. Resume(WaitingStray(e), v) /\ UNCHANGED <<listed, token>>
        BY <1>6 DEF AnswerStray, credVars
      <3>3. d \in Connected' => d \in Connected BY <1>5, <2>1, <3>1, <3>2
      <3>4. consent'[d] = consent[d] /\ (d \in late' <=> d \in late)
        BY <1>6, <2>1 DEF AnswerStray, TypeOK
      <3> QED BY <2>0, <3>3, <3>4, WorthQuiet
    <2>2. CASE d = e /\ v = "yes"
      <3>1. consent'[d] = Grace /\ d \in late' BY <1>6, <2>2 DEF AnswerStray, TypeOK
      <3>2. Grace \in Nat \ {0} /\ consent[d] \in Nat /\ cover[d] \in Nat
        BY <1>0, DoorAssumption DEF DoorAssumption, TypeOK
      <3> QED BY <2>0, <3>1, <3>2 DEF Worth
    <2> QED BY <2>1, <2>2
  <1>7. ASSUME NEW k \in Keys, NEW v \in {"yes", "no"}, Answer(k, v) PROVE Worth(d)'
    <2>1. CASE d = k /\ v = "yes"
      BY <1>0, <1>7, <2>1, WorthFresh DEF Answer, Lasts, TypeOK
    <2>2. CASE d = k /\ v = "no"
      BY <1>0, <1>7, <2>2, WorthNothing DEF Answer, TypeOK
    <2>3. CASE d # k
      <3>1. Waiting(k) \in SUBSET Conns /\ \A c \in Waiting(k) : key[c] = k
        BY DEF Waiting
      <3>2. Resume(Waiting(k), v) /\ UNCHANGED <<listed, token>>
        BY <1>7 DEF Answer, credVars
      <3>3. d \in Connected' => d \in Connected BY <1>5, <2>3, <3>1, <3>2
      <3>4. /\ decided'[d] = decided[d] /\ cover'[d] = cover[d] /\ consent'[d] = consent[d]
            /\ d \in late' <=> d \in late
        BY <1>0, <1>7, <2>3 DEF Answer, TypeOK
      <3> QED BY <3>3, <3>4, WorthQuiet
    <2> QED BY <2>1, <2>2, <2>3
  <1>8. CASE FlipPolicy \/ RefreshPeers \/ UNCHANGED vars
    <2>1. d \in Connected' <=> d \in Connected
      BY <1>8 DEF FlipPolicy, RefreshPeers, vars, sockVars, credVars, Connected
    <2> QED BY <1>8, <2>1, WorthQuiet DEF FlipPolicy, RefreshPeers, vars, gateVars
  <1> QED BY <1>1, <1>3, <1>4, <1>6, <1>7, <1>8, WorthTick DEF Next, Settles, SettlesStray

-----------------------------------------------------------------------------
\* The invariant holds at the start.
LEMMA DoorInit == Init => DoorInv
  <1> SUFFICES ASSUME Init PROVE DoorInv OBVIOUS
  <1>0. Grace \in Nat BY DoorAssumption DEF DoorAssumption
  <1>1. TypeOK BY DEF Init, TypeOK, Keys
  <1>2. Seats
    <2>1. IsFiniteSet({}) /\ Cardinality({}) = 0 BY FS_EmptySet
    <2>2. \A i \in Ips : {c \in listed : ip[c] = i} = {} BY DEF Init
    <2>3. PlacesReturn BY <2>1, <2>2 DEF PlacesReturn, Init
    <2> QED BY <2>1, <2>3 DEF Seats, Init
  <1>3. Inside /\ CaughtWaiting BY DEF Init, Inside, CaughtWaiting
  <1>5. Waiters BY DEF Init, Waiters, Waits
  <1>6. Presented BY DoorAssumption DEF DoorAssumption, Init, Presented
  <1>4. CoverIsConsent BY <1>0 DEF Init, CoverIsConsent, Worth, Keys
  <1> QED BY <1>1, <1>2, <1>3, <1>4, <1>5, <1>6 DEF DoorInv

\* The inductive invariant of the door holds throughout every behaviour
\* (wire-connections.ts, connection-manager.ts, pairing-local.ts, start.ts).
THEOREM DoorInvariant == Spec => []DoorInv
  <1>1. DoorInv /\ [Next]_vars => DoorInv'
    BY TypeStep, SeatsStep, InsideStep, WaitersStep, PresentedStep, CoverStep DEF DoorInv
  <1> QED BY <1>1, DoorInit, PTL DEF Spec

\* The counts the caps are tested against never exceed the connections that are
\* there (connection-manager.ts:214-219), for any number of addresses and
\* however often a connection is removed.
THEOREM SeatsAreAccounted == Spec => []SeatsAccounted
  <1>1. DoorInv => SeatsAccounted BY DEF DoorInv, Seats, SeatsAccounted
  <1> QED BY <1>1, DoorInvariant, PTL

\* A revoked device is in only through a socket a human was still being asked
\* about when it was revoked (pairing-local.ts:174).
THEOREM RevocationHangsUp == Spec => []RevokedHangsUp
  <1>1. DoorInv => RevokedHangsUp BY DEF DoorInv, Inside, CaughtWaiting, RevokedHangsUp
  <1> QED BY <1>1, DoorInvariant, PTL

\* Whoever waits at the gate waits for a question that still stands, whatever was
\* forgotten, approved or asked again meanwhile (start.ts:1678-1697).
THEOREM WaitersAreHeard == Spec => []WaitersHear
  <1>1. DoorInv => WaitersHear BY DEF DoorInv, Waiters, Waits, WaitersHear
  <1> QED BY <1>1, DoorInvariant, PTL

-----------------------------------------------------------------------------
(***************************************************************************)
(* When a human is asked.                                                  *)
(***************************************************************************)
\* What must be true of a socket that gets in.
Entitled(c) ==
    GetsIn(c) /\ key'[c] \in Devices =>
        LET d == key'[c] IN
        \/ st[c] = "asking" /\ decided[d] = "standing" /\ decided'[d] = "yes"
        \/ st[c] = "strayed" /\ d \in stray \ stray'
        \/ consent[d] > 0
        \/ ~asks /\ d \in known \cup admittedHere

\* No device gets in uncovered (start.ts:1339-1347, 1566-1586).
LEMMA EntryStep ==
  ASSUME DoorInv, Next, NEW c \in Conns
  PROVE  Entitled(c)
  <1> SUFFICES ASSUME st[c] # "in", st'[c] = "in", key'[c] \in Devices
               PROVE  LET d == key'[c] IN
                      \/ st[c] = "asking" /\ decided[d] = "standing" /\ decided'[d] = "yes"
                      \/ st[c] = "strayed" /\ d \in stray \ stray'
                      \/ consent[d] > 0
                      \/ ~asks /\ d \in known \cup admittedHere
    BY Zenon DEF Entitled, GetsIn
  <1>0. /\ TypeOK /\ CoverIsConsent
        /\ st \in [Conns -> {"free", "open", "asking", "strayed", "in", "shut"}]
        /\ Machine \notin Devices
    BY DoorAssumption DEF DoorInv, TypeOK, DoorAssumption
  <1>1. ASSUME NEW b \in Conns, NEW k \in Keys, NEW near \in BOOLEAN, Authenticate(b, k, near)
        PROVE  consent[key'[c]] > 0 \/ (~asks /\ key'[c] \in known \cup admittedHere)
    <2>1. b = c BY <1>0, <1>1 DEF Authenticate
    <2>2. key'[c] = k /\ k \in Devices BY <1>1, <2>1 DEF Authenticate, TypeOK, DoorInv
    <2>3. Verdict(k, near) = "yes"
      <3>1. Verdict(k, near) \in {"standing", "yes", "no"} BY <1>0 DEF Verdict, Covered, TypeOK
      <3>2. After(Verdict(k, near)) = "in" BY <1>0, <1>1, <2>1 DEF Authenticate
      <3> QED BY <3>1, <3>2 DEF After
    <2>4. CASE Covered(k)
      <3>1. decided[k] = "yes" BY <2>3, <2>4 DEF Verdict
      <3>2. k \in Connected \/ cover[k] > 0 BY <2>4, <3>1 DEF Covered
      <3>3. Worth(k) /\ cover[k] \in Nat /\ consent[k] \in Nat
        BY <1>0, <2>2 DEF CoverIsConsent, TypeOK
      <3> QED BY <2>2, <3>1, <3>2, <3>3 DEF Worth
    <2>5. CASE ~Covered(k)
      <3>1. Waived(k, near) BY <2>3, <2>5 DEF Verdict
      <3> QED BY <1>0, <2>2, <3>1 DEF Waived, Recognised
    <2> QED BY <2>4, <2>5
  <1>2. ASSUME NEW b \in Conns, Arrives(b)
        PROVE  consent[key'[c]] > 0 \/ (~asks /\ key'[c] \in known \cup admittedHere)
    <2>1. ASSUME NEW i \in Ips, Connect(b, i) PROVE FALSE BY <1>0, <2>1 DEF Connect
    <2>2. ASSUME NEW k \in Keys, NEW near \in BOOLEAN, Knock(b, k, near) PROVE FALSE
      BY <1>0, <2>2 DEF Knock
    <2> QED BY <1>1, <1>2, <2>1, <2>2 DEF Arrives, Keys, HttpRequest, StreamRequest
  <1>3. ASSUME NEW b \in Conns, Leaves(b) PROVE FALSE
    BY <1>0, <1>3 DEF Leaves, Shuts, Removed, Disconnect, HangupDone, RemoveAllReaches
  <1>4. ASSUME NEW d \in Devices, DeviceStep(d) PROVE FALSE
    <2>1. CASE ToStray({d}) BY <1>0, <2>1, ToStrayIs
    <2> QED
      BY <1>0, <1>4, <2>1
      DEF DeviceStep, PairLocally, Register, Paired, Expire, ShellRemoves, ShellPosts,
          ShellGivesUp, RevokeFromPanel, RevokeToken, PanelForgets, sockVars
  <1>5. ASSUME NEW d \in Devices, NEW v \in {"yes", "no"}, AnswerStray(d, v)
        PROVE  st[c] = "strayed" /\ key'[c] \in stray \ stray'
    <2>1. WaitingStray(d) \in SUBSET Conns /\ Resume(WaitingStray(d), v)
      BY <1>5 DEF AnswerStray, WaitingStray
    <2>2. c \in WaitingStray(d) /\ key'[c] = key[c] BY <1>0, <2>1, ResumeIn
    <2> QED BY <1>5, <2>2 DEF AnswerStray, WaitingStray
  <1>6. ASSUME NEW k \in Keys, NEW v \in {"yes", "no"}, Answer(k, v)
        PROVE  st[c] = "asking" /\ decided[key'[c]] = "standing" /\ decided'[key'[c]] = "yes"
    <2>1. Waiting(k) \in SUBSET Conns /\ Resume(Waiting(k), v) BY <1>6 DEF Answer, Waiting
    <2>2. c \in Waiting(k) /\ key'[c] = key[c] /\ v = "yes" BY <1>0, <2>1, ResumeIn
    <2> QED BY <1>0, <1>6, <2>2 DEF Answer, Waiting, TypeOK
  <1>7. CASE FlipPolicy \/ RefreshPeers \/ Tick
    BY <1>7 DEF FlipPolicy, RefreshPeers, Tick, sockVars
  <1> QED BY <1>2, <1>3, <1>4, <1>5, <1>6, <1>7 DEF Next, Settles, SettlesStray

\* A question is raised only by admit(), about a device that no record covers
\* (start.ts:1425-1427).
LEMMA AskStep ==
  ASSUME DoorInv, Next, NEW d \in Devices, decided[d] # "standing", decided'[d] = "standing"
  PROVE  consent[d] = 0 \/ d \in late
  <1>0. /\ TypeOK /\ Worth(d) /\ d \in Keys
        /\ decided \in [Keys -> {"none", "standing", "yes", "no"}]
        /\ consent[d] \in Nat /\ cover[d] \in Nat
    BY DEF DoorInv, CoverIsConsent, TypeOK, Keys
  <1>1. ASSUME NEW k \in Keys, NEW near \in BOOLEAN, Admit(k, near)
        PROVE  consent[d] = 0 \/ d \in late
    <2>1. d = k /\ ~Covered(d) BY <1>0, <1>1 DEF Admit
    <2> QED BY <1>0, <2>1 DEF Covered, Worth
  <1>2. ASSUME NEW c \in Conns, Arrives(c) PROVE consent[d] = 0 \/ d \in late
    <2>1. (\E i \in Ips : Connect(c, i)) => FALSE BY DEF Connect, gateVars
    <2>2. \A k \in Keys, near \in BOOLEAN :
            Authenticate(c, k, near) \/ Knock(c, k, near) => Admit(k, near)
      BY DEF Authenticate, Knock
    <2> QED BY <1>1, <1>2, <2>1, <2>2 DEF Arrives, Keys, HttpRequest, StreamRequest
  <1>3. ASSUME NEW D, Forget(D) PROVE FALSE BY <1>0, <1>3 DEF Forget
  <1>4. ASSUME NEW c \in Conns, Leaves(c) PROVE FALSE
    BY <1>3, <1>4 DEF Leaves, Shuts, Removed, Disconnect, HangupDone, RemoveAllReaches, gateVars
  <1>5. ASSUME NEW e \in Devices, DeviceStep(e) PROVE FALSE
    <2>1. CASE Approve(e) BY <1>0, <2>1 DEF Approve
    <2> QED
      BY <1>0, <1>3, <1>5, <2>1
      DEF DeviceStep, PairLocally, Register, Paired, Expire, ShellRemoves, ShellPosts,
          ShellGivesUp, RevokeFromPanel, RevokeToken, PanelForgets, gateVars
  <1>6. ASSUME NEW e \in Devices, NEW v \in {"yes", "no"}, AnswerStray(e, v) PROVE FALSE
    BY <1>6 DEF AnswerStray
  <1>7. ASSUME NEW k \in Keys, NEW v \in {"yes", "no"}, Answer(k, v) PROVE FALSE
    BY <1>0, <1>7 DEF Answer
  <1>8. CASE FlipPolicy \/ RefreshPeers \/ Tick
    BY <1>8 DEF FlipPolicy, RefreshPeers, Tick, gateVars
  <1> QED BY <1>2, <1>4, <1>5, <1>6, <1>7, <1>8 DEF Next, Settles, SettlesStray

\* A human is asked exactly when the door needs it: no device gets in uncovered
\* and none that is covered is asked about again (start.ts:1339-1347, 1425-1427),
\* for any number of devices and sockets and any grace.
THEOREM DoorAsksWhenItMust == Spec => AsksWhenItMust
  <1>1. DoorInv /\ [Next]_vars =>
          [\A c \in Conns : GetsIn(c) /\ key'[c] \in Devices =>
             LET d == key'[c] IN
             \/ st[c] = "asking" /\ decided[d] = "standing" /\ decided'[d] = "yes"
             \/ st[c] = "strayed" /\ d \in stray \ stray'
             \/ consent[d] > 0
             \/ ~asks /\ d \in known \cup admittedHere]_vars
    <2> SUFFICES ASSUME DoorInv, Next PROVE \A c \in Conns : Entitled(c)
      BY Zenon DEF Entitled
    <2> QED BY EntryStep
  <1>2. DoorInv /\ [Next]_vars =>
          [\A d \in Devices : decided[d] # "standing" /\ decided'[d] = "standing" =>
             consent[d] = 0 \/ d \in late]_vars
    BY AskStep
  <1> QED BY <1>1, <1>2, DoorInvariant, PTL DEF Spec, AsksWhenItMust, EntryIsCovered, NotAskedAgain

-----------------------------------------------------------------------------
(***************************************************************************)
(* Behind the door: proofs about Recorder for any number of recordings,    *)
(* sessions and panes, and any bounds.  The recorder shares no state with  *)
(* the sockets, so its variables are declared here; what Recorder assumes  *)
(* of its constants is a hypothesis of each lemma that needs it and a      *)
(* conjunct of the invariant.                                              *)
(***************************************************************************)
CONSTANTS Ids, Sessions, Panes, MaxTotal, MaxBoots, MaxTurns
VARIABLES up, boots, turns, active, at, target, stopping, why, writer, bridge,
          reading, job, orphans, there, clone, pipe, rows, fifo, cast, born,
          old, overtaken, overlap

Rec == INSTANCE Recorder

Early(r) == at[r] \in {"idle", "checked"}
Late(r) == at[r] \in {"running", "done"}

\* A recording is active from the announcement on and until it is stopped or
\* has failed; its start, once announced, belongs to one that is active or was
\* overtaken by a stop.
CourseOf(r) ==
    /\ Early(r) => r \notin active \cup overtaken /\ stopping[r] = "idle" /\ writer[r] = "none"
    /\ at[r] # "idle" => target[r] \in Rec!Targets
    /\ at[r] \in {"cloning", "locking"} => target[r] \in Sessions
    /\ at[r] \in {"checking", "piping"} => target[r] \in Panes
    /\ Rec!InStart(r) /\ at[r] # "checked" => r \in active \cup overtaken
    /\ r \in active => writer[r] = "open" /\ stopping[r] = "idle" /\ r \notin overtaken
    /\ stopping[r] # "idle" => writer[r] # "none" /\ why[r] \in Rec!Reasons
    /\ stopping[r] = "unpiping" => target[r] \in Panes
    /\ stopping[r] = "uncloning" => target[r] \in Sessions
    /\ stopping[r] = "patching" => why[r] = writer[r]
Course == \A r \in Ids : CourseOf(r)

\* Each update of the index runs while the coroutine that asked for it waits.
Updates ==
    /\ job[Rec!Sweeper].st \in {"idle", "loaded", "unlink"}
    /\ \A r \in Ids :
         /\ job[<<"put", r>>].st \in {"idle", "load", "loaded"}
         /\ job[<<"patch", r>>].st \in {"idle", "load", "loaded"}
         /\ job[<<"put", r>>].drop = {} /\ job[<<"patch", r>>].drop = {}
         /\ job[<<"put", r>>].st # "idle" <=> at[r] = "putting"
         /\ job[<<"patch", r>>].st # "idle" <=> stopping[r] = "patching"

\* A process that is down holds nothing in memory, and one that is up holds
\* nothing of those before it.
Processes ==
    /\ ~up => /\ active = {} /\ orphans = {}
              /\ \A a \in Rec!Actors : job[a] = Rec!Idle
              /\ \A r \in Ids : r \in old \/ at[r] = "idle"
    /\ \A r \in old : /\ at[r] = "done" /\ r \notin active \cup overtaken
                      /\ stopping[r] = "idle" /\ bridge[r] = "none" /\ ~reading[r]

\* Only the recording of a session has a clone and a pty, and only that of a
\* pane a FIFO and a pipe, which is on its pane.
MeansOf(r) ==
    /\ at[r] = "idle" => target[r] = None
    /\ clone[r] \/ bridge[r] # "none" => target[r] \in Sessions
    /\ reading[r] \/ fifo[r] => target[r] \in Panes
    /\ \A p \in Panes : pipe[p] = r => target[r] = p
Means == \A r \in Ids : MeansOf(r)

\* What a recording that was not overtaken holds at each point of its life.
HeldBy(r) ==
    /\ at[r] \in {"idle", "checked", "cloning", "checking"} => ~Rec!Holds(r)
    /\ at[r] = "locking" => bridge[r] \notin {"fresh", "ready"} /\ ~reading[r] /\ ~fifo[r]
    /\ at[r] \in {"locking", "piping"} => \A p \in Panes : pipe[p] # r
    /\ r \in active /\ target[r] \in Sessions /\ at[r] \in {"putting", "running", "done"}
          => bridge[r] # "none"
    /\ r \notin active /\ Late(r) =>
         /\ stopping[r] = "uncloning" => bridge[r] = "dead"
         /\ stopping[r] \notin {"unpiping", "uncloning"} => ~Rec!Holds(r)
Held == \A r \in Ids \ (old \cup overtaken) : HeldBy(r)

\* A version of the index, on disk or about to be, that says nothing untrue.
Truthful(file) ==
    \A r \in Ids :
      /\ file[r] # "none" => at[r] \in {"putting", "running", "done"}
      /\ file[r] \in Rec!Reasons => writer[r] = file[r]

Truth == Truthful(rows) /\ \A a \in Rec!Actors : Truthful(job[a].new)

\* Without overlaps one update at a time is under way, and what it is about to
\* write is what is on disk but for its own row.
Alone ==
    overlap # "now" =>
      \A a \in Rec!Actors : job[a].st = "loaded" =>
        /\ job[a].alone
        /\ \A b \in Rec!Actors : job[b].st = "loaded" => b = a
        /\ \A r \in Ids :
             /\ job[a].new[r] # "none" => rows[r] # "none" \/ a = <<"put", r>>
             /\ job[a].new[r] = "live" => rows[r] = "live" \/ a = <<"put", r>>

\* And a cast is unlinked only when its row is gone for good.
Fetchable ==
    overlap = "never" =>
      /\ \A r \in Ids :
           /\ Rec!InStart(r) /\ at[r] # "checked" => cast[r]
           /\ rows[r] # "none" => cast[r] /\ Late(r)
      /\ \A a \in Rec!Actors : \A r \in job[a].drop :
           /\ job[a].st \in {"loaded", "unlink"} => Late(r)
           /\ job[a].st = "loaded" => job[a].new[r] = "none"
           /\ job[a].st = "unlink" => rows[r] = "none"

\* The sweep closes what it finds open, and a stop its own row.
Closed ==
    /\ \A r \in Ids : job[Rec!Sweeper].new[r] # "live" /\ job[<<"patch", r>>].new[r] # "live"
    /\ Rec!LiveMeansLive

Orphans == up => \A r \in old : clone[r] => r \in orphans

RecorderInv ==
    /\ Rec!RecorderAssumption
    /\ Rec!TypeOK /\ Course /\ Updates /\ Processes /\ Means /\ Held
    /\ Truth /\ Alone /\ Fetchable /\ Closed /\ Orphans

-----------------------------------------------------------------------------
(***************************************************************************)
(* The updates in flight.                                                  *)
(***************************************************************************)
States == {"idle", "wait", "load", "loaded", "unlink"}
Jobs == [st: States, new: Rec!Rows, drop: SUBSET Ids, alone: BOOLEAN]

\* An update is the sweep's, or of one kind and about one recording.
LEMMA ActorIs ==
  /\ Rec!Sweeper \in Rec!Actors
  /\ \A r \in Ids : <<"put", r>> \in Rec!Actors /\ <<"patch", r>> \in Rec!Actors
                    /\ <<"remove", r>> \in Rec!Actors
  /\ \A a \in Rec!Actors : \/ a = Rec!Sweeper
                       \/ \E r \in Ids : a = <<"put", r>> \/ a = <<"patch", r>>
                                         \/ a = <<"remove", r>>
  BY DEF Rec!Actors, Rec!Sweeper

\* No two of these are the same.
LEMMA ActorsDiffer ==
  /\ Rec!Sweeper[1] = "sweep"
  /\ \A r \in Ids : /\ <<"put", r>> # Rec!Sweeper /\ <<"patch", r>> # Rec!Sweeper
                    /\ <<"remove", r>> # Rec!Sweeper
                    /\ \A q \in Ids : /\ <<"put", r>> # <<"patch", q>>
                                      /\ <<"put", r>> # <<"remove", q>>
                                      /\ <<"patch", r>> # <<"remove", q>>
                                      /\ <<"put", r>> = <<"put", q>> => r = q
                                      /\ <<"patch", r>> = <<"patch", q>> => r = q
                                      /\ <<"remove", r>> = <<"remove", q>> => r = q
  BY DEF Rec!Sweeper

\* The type of the jobs is the one TypeOK gives.
LEMMA JobsType == Rec!TypeOK => job \in [Rec!Actors -> Jobs]
  BY DEF Rec!TypeOK, Jobs, States

\* A row is one of five things, two of them reasons.
LEMMA RowIs ==
  /\ Rec!Row = {"none", "live", "interrupted", "limit", "other"}
  /\ Rec!Reasons = {"limit", "other"}
  /\ Rec!NoRows \in Rec!Rows /\ \A r \in Ids : Rec!NoRows[r] = "none"
  BY DEF Rec!Row, Rec!Reasons, Rec!NoRows, Rec!Rows

\* No update.
LEMMA IdleIs ==
  Rec!Idle \in Jobs /\ Rec!Idle.st = "idle" /\ Rec!Idle.new = Rec!NoRows /\ Rec!Idle.drop = {} /\ Rec!Idle.alone
  BY RowIs DEF Rec!Idle, Jobs, States

\* Moving an update on changes nothing else of it and no other.
LEMMA SetState ==
  ASSUME NEW js \in [Rec!Actors -> Jobs], NEW x \in Rec!Actors, NEW s \in States
  PROVE  /\ [js EXCEPT ![x].st = s] \in [Rec!Actors -> Jobs]
         /\ [js EXCEPT ![x].st = s][x].st = s
         /\ \A b \in Rec!Actors : /\ b # x => [js EXCEPT ![x].st = s][b] = js[b]
                              /\ [js EXCEPT ![x].st = s][b].new = js[b].new
                              /\ [js EXCEPT ![x].st = s][b].drop = js[b].drop
                              /\ [js EXCEPT ![x].st = s][b].alone = js[b].alone
  BY DEF Jobs

\* Replacing one.
LEMMA SetJob ==
  ASSUME NEW js \in [Rec!Actors -> Jobs], NEW x \in Rec!Actors, NEW j \in Jobs
  PROVE  /\ [js EXCEPT ![x] = j] \in [Rec!Actors -> Jobs]
         /\ [js EXCEPT ![x] = j][x] = j
         /\ \A b \in Rec!Actors : b # x => [js EXCEPT ![x] = j][b] = js[b]
  OBVIOUS

\* The deletion that waits for a stop.
LEMMA ResumedIs ==
  ASSUME NEW js \in [Rec!Actors -> Jobs], NEW a \in Rec!Actors, NEW ok \in BOOLEAN
  PROVE  /\ Rec!Resumed(a, ok, js) \in [Rec!Actors -> Jobs]
         /\ \A b \in Rec!Actors :
              /\ Rec!Resumed(a, ok, js)[b].new = js[b].new
              /\ Rec!Resumed(a, ok, js)[b].drop = js[b].drop
              /\ Rec!Resumed(a, ok, js)[b].alone = js[b].alone
              /\ \/ Rec!Resumed(a, ok, js)[b].st = js[b].st
                 \/ /\ b # a /\ \E r \in Ids : b = <<"remove", r>>
                    /\ js[b].st = "wait" /\ Rec!Resumed(a, ok, js)[b].st \in {"load", "idle"}
  <1>1. CASE a[1] = "patch" /\ js[<<"remove", a[2]>>].st = "wait"
    <2>1. PICK r \in Ids : a = <<"patch", r>> BY <1>1, ActorIs, ActorsDiffer
    <2> DEFINE x == <<"remove", r>>
               s == IF ok THEN "load" ELSE "idle"
    <2>2. Rec!Resumed(a, ok, js) = [js EXCEPT ![x].st = s] BY <1>1, <2>1 DEF Rec!Resumed
    <2>3. x \in Rec!Actors /\ s \in States /\ s \in {"load", "idle"} BY ActorIs DEF States
    <2>4. js[x].st = "wait" BY <1>1, <2>1
    <2>5. x # a /\ \E q \in Ids : x = <<"remove", q>> BY <2>1, ActorsDiffer
    <2> HIDE DEF x, s
    <2> QED BY <2>2, <2>3, <2>4, <2>5, SetState
  <1>2. CASE ~(a[1] = "patch" /\ js[<<"remove", a[2]>>].st = "wait")
    <2>1. Rec!Resumed(a, ok, js) = js BY <1>2 DEF Rec!Resumed
    <2> QED BY <2>1
  <1> QED BY <1>1, <1>2

\* The version of the index an update is about to write.
LEMMA UpdatedType ==
  ASSUME Rec!TypeOK, NEW a \in Rec!Actors,
         \A r \in Ids : a = <<"patch", r>> => why[r] \in Rec!Reasons
  PROVE  /\ Rec!Updated(a) \in Rec!Rows /\ Rec!Dropped(a) \in SUBSET Ids
         /\ a = Rec!Sweeper => \A r \in Ids : Rec!Updated(a)[r] \in {"none", Rec!Interrupted(rows[r])}
         /\ \A q \in Ids :
              /\ a = <<"put", q>> => Rec!Updated(a) = [rows EXCEPT ![q] = "live"] /\ Rec!Dropped(a) = {}
              /\ a = <<"patch", q>> => Rec!Updated(a) = [rows EXCEPT ![q] = why[q]] /\ Rec!Dropped(a) = {}
              /\ a = <<"remove", q>> => Rec!Updated(a) = [rows EXCEPT ![q] = "none"]
         /\ \A r \in Rec!Dropped(a) : rows[r] # "none" /\ Rec!Updated(a)[r] = "none"
  <1>0. rows \in Rec!Rows BY DEF Rec!TypeOK
  <1>1. CASE a = Rec!Sweeper
    <2>1. Rec!Updated(a) = Rec!Swept(rows) BY <1>1, ActorsDiffer DEF Rec!Updated
    <2>2. Rec!Swept(rows) \in Rec!Rows /\ \A r \in Ids : Rec!Swept(rows)[r] \in {"none", Rec!Interrupted(rows[r])}
      BY <1>0 DEF Rec!Swept, Rec!Rows, Rec!Row, Rec!Interrupted
    <2> QED BY <1>1, <2>1, <2>2, ActorsDiffer DEF Rec!Dropped
  <1>2. ASSUME NEW q \in Ids, a = <<"put", q>>
        PROVE  Rec!Updated(a) = [rows EXCEPT ![q] = "live"] /\ Rec!Dropped(a) = {}
    <2>1. a # Rec!Sweeper /\ a[1] = "put" /\ a[2] = q BY <1>2, ActorsDiffer
    <2> QED BY <2>1 DEF Rec!Updated, Rec!Dropped
  <1>3. ASSUME NEW q \in Ids, a = <<"patch", q>>
        PROVE  Rec!Updated(a) = [rows EXCEPT ![q] = why[q]] /\ Rec!Dropped(a) = {}
    <2>1. a # Rec!Sweeper /\ a[1] = "patch" /\ a[2] = q BY <1>3, ActorsDiffer
    <2> QED BY <2>1 DEF Rec!Updated, Rec!Dropped
  <1>4. ASSUME NEW q \in Ids, a = <<"remove", q>>
        PROVE  Rec!Updated(a) = [rows EXCEPT ![q] = "none"]
    <2>1. a # Rec!Sweeper /\ a[1] = "remove" /\ a[2] = q BY <1>4, ActorsDiffer
    <2> QED BY <2>1 DEF Rec!Updated
  <1>5. Rec!Updated(a) \in Rec!Rows
    <2>1. ASSUME NEW q \in Ids, NEW v \in Rec!Row PROVE [rows EXCEPT ![q] = v] \in Rec!Rows
      BY <1>0 DEF Rec!Rows
    <2>2. "live" \in Rec!Row /\ "none" \in Rec!Row /\ Rec!Reasons \subseteq Rec!Row BY RowIs
    <2> QED BY <1>1, <1>2, <1>3, <1>4, <2>1, <2>2, ActorIs
  <1>6. Rec!Dropped(a) \in SUBSET Ids /\ \A r \in Rec!Dropped(a) : rows[r] # "none" /\ Rec!Updated(a)[r] = "none"
    BY DEF Rec!Dropped
  <1> QED BY <1>1, <1>2, <1>3, <1>4, <1>5, <1>6, ActorIs

\* The update that begins.
LEMMA BegunIs ==
  ASSUME Rec!TypeOK, NEW a \in Rec!Actors,
         \A r \in Ids : a = <<"patch", r>> => why[r] \in Rec!Reasons
  PROVE  /\ Rec!Begun(a) \in [Rec!Actors -> Jobs]
         /\ Rec!Begun(a)[a].st = "loaded" /\ Rec!Begun(a)[a].new = Rec!Updated(a)
         /\ Rec!Begun(a)[a].drop = Rec!Dropped(a) /\ (Rec!Begun(a)[a].alone <=> Rec!Busy = {})
         /\ \A b \in Rec!Actors \ {a} :
              /\ Rec!Begun(a)[b].st = job[b].st /\ Rec!Begun(a)[b].new = job[b].new
              /\ Rec!Begun(a)[b].drop = job[b].drop
              /\ b \notin Rec!Busy => Rec!Begun(a)[b] = job[b]
  <1>0. job \in [Rec!Actors -> Jobs] BY JobsType
  <1>1. Rec!Updated(a) \in Rec!Rows /\ Rec!Dropped(a) \in SUBSET Ids BY UpdatedType
  <1> DEFINE A == (Rec!Busy = {})
             j == [st |-> "loaded", new |-> Rec!Updated(a), drop |-> Rec!Dropped(a), alone |-> Rec!Busy = {}]
  <1>2. j \in Jobs /\ j.st = "loaded" /\ j.new = Rec!Updated(a) /\ j.drop = Rec!Dropped(a)
        /\ (j.alone <=> Rec!Busy = {})
    BY <1>1 DEF Jobs, States
  <1>3. Rec!Begun(a) = [b \in Rec!Actors |-> IF b = a THEN j
                      ELSE IF b \in Rec!Busy THEN [job[b] EXCEPT !.alone = FALSE] ELSE job[b]]
    BY DEF Rec!Begun
  <1> HIDE DEF j
  <1>4. ASSUME NEW b \in Rec!Actors
        PROVE  /\ [job[b] EXCEPT !.alone = FALSE] \in Jobs
               /\ [job[b] EXCEPT !.alone = FALSE].st = job[b].st
               /\ [job[b] EXCEPT !.alone = FALSE].new = job[b].new
               /\ [job[b] EXCEPT !.alone = FALSE].drop = job[b].drop
    BY <1>0 DEF Jobs
  <1>5. Rec!Begun(a) \in [Rec!Actors -> Jobs] BY <1>0, <1>2, <1>3, <1>4
  <1>6. Rec!Begun(a)[a] = j BY <1>3
  <1> QED BY <1>2, <1>3, <1>4, <1>5, <1>6

\* What follows an update, at the coroutine that asked for it.
LEMMA OverIs ==
  ASSUME Rec!TypeOK, NEW a \in Rec!Actors, NEW ok \in BOOLEAN, Rec!Over(a, ok)
  PROVE  /\ at' \in [Ids -> {"idle", "checked", "cloning", "locking", "checking", "piping",
                             "putting", "running", "done"}]
         /\ stopping' \in [Ids -> {"idle", "unpiping", "uncloning", "closing", "patching"}]
         /\ why' \in [Ids -> Rec!Reasons \cup {"none"}]
         /\ \A r \in Ids :
              /\ at'[r] = IF a = <<"put", r>> THEN IF ok THEN "running" ELSE "done" ELSE at[r]
              /\ stopping'[r] = IF a = <<"patch", r>> THEN "idle" ELSE stopping[r]
              /\ why'[r] = IF a = <<"patch", r>> THEN "none" ELSE why[r]
  <1>1. CASE a = Rec!Sweeper
    <2>1. UNCHANGED <<at, stopping, why>> BY <1>1, ActorsDiffer DEF Rec!Over
    <2> QED BY <1>1, <2>1, ActorsDiffer DEF Rec!TypeOK
  <1>2. ASSUME NEW q \in Ids, a = <<"remove", q>> PROVE UNCHANGED <<at, stopping, why>>
    BY <1>2 DEF Rec!Over
  <1>3. ASSUME NEW q \in Ids, a = <<"put", q>>
        PROVE  /\ at' = [at EXCEPT ![q] = IF ok THEN "running" ELSE "done"]
               /\ UNCHANGED <<stopping, why>>
    <2>1. a[1] = "put" /\ a[2] = q BY <1>3
    <2> QED BY <2>1 DEF Rec!Over
  <1>4. ASSUME NEW q \in Ids, a = <<"patch", q>>
        PROVE  /\ stopping' = [stopping EXCEPT ![q] = "idle"]
               /\ why' = [why EXCEPT ![q] = "none"] /\ UNCHANGED at
    <2>1. a[1] = "patch" /\ a[2] = q BY <1>4
    <2> QED BY <2>1 DEF Rec!Over
  <1>5. ASSUME NEW q \in Ids, a = <<"remove", q>>
        PROVE  \A r \in Ids : a # <<"put", r>> /\ a # <<"patch", r>>
    BY <1>5, ActorsDiffer
  <1>6. ASSUME NEW q \in Ids, a = <<"put", q>>
        PROVE  \A r \in Ids : a # <<"patch", r>> /\ (a = <<"put", r>> <=> r = q)
    BY <1>6, ActorsDiffer
  <1>7. ASSUME NEW q \in Ids, a = <<"patch", q>>
        PROVE  \A r \in Ids : a # <<"put", r>> /\ (a = <<"patch", r>> <=> r = q)
    BY <1>7, ActorsDiffer
  <1>0. /\ at \in [Ids -> {"idle", "checked", "cloning", "locking", "checking", "piping",
                           "putting", "running", "done"}]
        /\ stopping \in [Ids -> {"idle", "unpiping", "uncloning", "closing", "patching"}]
        /\ why \in [Ids -> Rec!Reasons \cup {"none"}]
    BY DEF Rec!TypeOK
  <1>8. CASE \E q \in Ids : a = <<"remove", q>> BY <1>0, <1>2, <1>5, <1>8
  <1>9. CASE \E q \in Ids : a = <<"put", q>>
    <2>1. PICK q \in Ids : a = <<"put", q>> BY <1>9
    <2> QED BY <1>0, <1>3, <1>6, <2>1
  <1>10. CASE \E q \in Ids : a = <<"patch", q>>
    <2>1. PICK q \in Ids : a = <<"patch", q>> BY <1>10
    <2> QED BY <1>0, <1>4, <1>7, <2>1
  <1> QED BY <1>1, <1>8, <1>9, <1>10, ActorIs

\* An update that is over, or goes on to unlink, leaves the others alone, except
\* that a deletion may have waited for it.
LEMMA Finished ==
  ASSUME Rec!TypeOK, NEW a \in Rec!Actors, NEW ok \in BOOLEAN, NEW j \in Jobs,
         job' = Rec!Resumed(a, ok, [job EXCEPT ![a] = j])
  PROVE  /\ job' \in [Rec!Actors -> Jobs]
         /\ job'[a].st = j.st /\ job'[a].new = j.new
         /\ job'[a].drop = j.drop /\ job'[a].alone = j.alone
         /\ \A b \in Rec!Actors \ {a} :
              /\ job'[b].new = job[b].new /\ job'[b].drop = job[b].drop
              /\ job'[b].alone = job[b].alone
              /\ \/ job'[b].st = job[b].st
                 \/ /\ \E r \in Ids : b = <<"remove", r>>
                    /\ job[b].st = "wait" /\ job'[b].st \in {"load", "idle"}
  <1> DEFINE js == [job EXCEPT ![a] = j]
  <1>0. job \in [Rec!Actors -> Jobs] BY JobsType
  <1>1. js \in [Rec!Actors -> Jobs] /\ js[a] = j /\ \A b \in Rec!Actors : b # a => js[b] = job[b]
    BY <1>0, SetJob
  <1>2. job' = Rec!Resumed(a, ok, js) OBVIOUS
  <1> HIDE DEF js
  <1>a. js \in [Rec!Actors -> Jobs] BY <1>1
  <1>b. Rec!Resumed(a, ok, js) \in [Rec!Actors -> Jobs]
    BY <1>a, ResumedIs, Zenon
  <1>3. job' \in [Rec!Actors -> Jobs] BY <1>b, <1>2, Zenon
  <1>4. \A b \in Rec!Actors : /\ job'[b].new = js[b].new
                          /\ job'[b].drop = js[b].drop
    BY <1>1, <1>2, ResumedIs
  <1>5. \A b \in Rec!Actors : job'[b].alone = js[b].alone
    BY <1>1, <1>2, ResumedIs
  <1>6. \A b \in Rec!Actors : \/ job'[b].st = js[b].st
                          \/ /\ b # a /\ \E r \in Ids : b = <<"remove", r>>
                             /\ js[b].st = "wait" /\ job'[b].st \in {"load", "idle"}
    BY <1>1, <1>2, ResumedIs
  <1>7. \A b \in Rec!Actors \ {a} : js[b] = job[b] BY <1>1
  <1>8. js[a] = j BY <1>1
  <1>9. job'[a].st = j.st /\ job'[a].new = j.new
         /\ job'[a].drop = j.drop BY <1>4, <1>6, <1>8
  <1>10. job'[a].alone = j.alone BY <1>5, <1>8
  <1>11. \A b \in Rec!Actors \ {a} :
              /\ job'[b].new = job[b].new /\ job'[b].drop = job[b].drop
              /\ job'[b].alone = job[b].alone
     BY <1>4, <1>5, <1>7
  <1>12. \A b \in Rec!Actors \ {a} :
              \/ job'[b].st = job[b].st
                 \/ /\ \E r \in Ids : b = <<"remove", r>>
                    /\ job[b].st = "wait" /\ job'[b].st \in {"load", "idle"}
     BY <1>6, <1>7
  <1> QED BY <1>3, <1>9, <1>10, <1>11, <1>12

\* What an update is about to write is of the right type when it is read.
LEMMA PatchKnows ==
  ASSUME Course, Updates, NEW a \in Rec!Actors, job[a].st = "load"
  PROVE  \A r \in Ids : a = <<"patch", r>> =>
           why[r] \in Rec!Reasons /\ stopping[r] = "patching" /\ why[r] = writer[r]
  BY DEF Course, CourseOf, Updates

\* Reading the index: there is nothing to do, or the update begins.
LEMMA LoadIs ==
  ASSUME Rec!TypeOK, Course, Updates, NEW a \in Rec!Actors, Rec!Load(a)
  PROVE  \/ /\ Rec!NothingToDo(a) /\ Rec!Over(a, TRUE) /\ UNCHANGED overlap
            /\ job'[a].st = "idle" /\ job'[a].new = Rec!NoRows /\ job'[a].drop = {}
            /\ job' \in [Rec!Actors -> Jobs]
            /\ \A b \in Rec!Actors \ {a} :
                 /\ job'[b].new = job[b].new /\ job'[b].drop = job[b].drop
                 /\ job'[b].alone = job[b].alone
                 /\ \/ job'[b].st = job[b].st
                    \/ /\ \E r \in Ids : b = <<"remove", r>>
                       /\ job[b].st = "wait" /\ job'[b].st \in {"load", "idle"}
         \/ /\ ~Rec!NothingToDo(a) /\ UNCHANGED <<at, stopping, why>>
            /\ job' = Rec!Begun(a)
            /\ job' \in [Rec!Actors -> Jobs]
            /\ overlap' = IF Rec!Busy = {} THEN overlap ELSE "now"
  <1>1. CASE Rec!NothingToDo(a)
    <2>1. job' = Rec!Resumed(a, TRUE, [job EXCEPT ![a] = Rec!Idle]) /\ Rec!Over(a, TRUE) /\ UNCHANGED overlap
      BY <1>1 DEF Rec!Load
    <2> QED BY <1>1, <2>1, IdleIs, Finished
  <1>2. CASE ~Rec!NothingToDo(a)
    <2>1. /\ job' = Rec!Begun(a) /\ UNCHANGED <<at, stopping, why>>
          /\ overlap' = IF Rec!Busy = {} THEN overlap ELSE "now"
          /\ job[a].st = "load"
      BY <1>2 DEF Rec!Load
    <2>2. Rec!Begun(a) \in [Rec!Actors -> Jobs] BY <2>1, BegunIs, PatchKnows
    <2> QED BY <1>2, <2>1, <2>2
  <1> QED BY <1>1, <1>2

\* Writing it: what is written is its own version or, of two that overlap, the
\* other's, the old one or nothing.
LEMMA SaveIs ==
  ASSUME Rec!TypeOK, NEW a \in Rec!Actors, Rec!Save(a)
  PROVE  \E ok \in BOOLEAN :
           /\ Rec!Over(a, ok)
           /\ rows' \in Rec!Rows
           /\ \/ rows' = job[a].new /\ ok
              \/ /\ ~job[a].alone
                 /\ rows' \in {Rec!NoRows, rows} \cup {job[b].new : b \in Rec!Actors}
           /\ job' \in [Rec!Actors -> Jobs]
           /\ \/ job'[a].st = "idle" /\ job'[a].new = Rec!NoRows /\ job'[a].drop = {}
              \/ job'[a].st = "unlink" /\ job'[a].new = job[a].new /\ job'[a].drop = job[a].drop
                 /\ job[a].drop # {}
           /\ \A b \in Rec!Actors \ {a} :
                /\ job'[b].new = job[b].new /\ job'[b].drop = job[b].drop
                /\ job'[b].alone = job[b].alone
                /\ \/ job'[b].st = job[b].st
                   \/ /\ \E r \in Ids : b = <<"remove", r>>
                      /\ job[b].st = "wait" /\ job'[b].st \in {"load", "idle"}
  <1>0. job \in [Rec!Actors -> Jobs] /\ rows \in Rec!Rows BY JobsType DEF Rec!TypeOK
  <1>1. \A b \in Rec!Actors : job[b].new \in Rec!Rows BY <1>0 DEF Jobs
  <1>2. ASSUME NEW out \in Rec!Outcome(a)
        PROVE  /\ out[1] \in BOOLEAN /\ out[2] \in Rec!Rows
               /\ \/ out[2] = job[a].new /\ out[1]
                  \/ ~job[a].alone /\ out[2] \in {Rec!NoRows, rows} \cup {job[b].new : b \in Rec!Actors}
    <2>1. CASE job[a].alone
      <3>1. out = <<TRUE, job[a].new>> BY <2>1 DEF Rec!Outcome
      <3> QED BY <1>1, <3>1
    <2>2. CASE ~job[a].alone
      <3>1. \/ out \in {TRUE} \X ({job[a].new, Rec!NoRows} \cup {job[b].new : b \in Rec!Busy})
            \/ out \in {FALSE} \X {job[a].new, Rec!NoRows, rows}
        BY <2>2 DEF Rec!Outcome
      <3>2. /\ out[1] \in BOOLEAN
            /\ out[2] \in {job[a].new, Rec!NoRows, rows} \cup {job[b].new : b \in Rec!Busy}
        BY <3>1
      <3>3. Rec!Busy \subseteq Rec!Actors BY DEF Rec!Busy
      <3> QED BY <1>0, <1>1, <2>2, <3>2, <3>3, RowIs
    <2> QED BY <2>1, <2>2
  <1>3. PICK ok \in BOOLEAN, f \in Rec!Rows :
          /\ \/ f = job[a].new /\ ok
             \/ ~job[a].alone /\ f \in {Rec!NoRows, rows} \cup {job[b].new : b \in Rec!Actors}
          /\ rows' = f
          /\ Rec!Over(a, ok)
          /\ job' = Rec!Resumed(a, ok, [job EXCEPT ![a] = IF ok /\ job[a].drop # {}
                                         THEN [job[a] EXCEPT !.st = "unlink"] ELSE Rec!Idle])
    <2>1. PICK out \in Rec!Outcome(a) :
          /\ rows' = out[2]
          /\ Rec!Over(a, out[1])
          /\ job' = Rec!Resumed(a, out[1],
                      [job EXCEPT ![a] = IF out[1] /\ @.drop # {}
                                         THEN [@ EXCEPT !.st = "unlink"] ELSE Rec!Idle])
      BY DEF Rec!Save
    <2> QED BY <1>2, <2>1
  <1> DEFINE j == IF ok /\ job[a].drop # {} THEN [job[a] EXCEPT !.st = "unlink"] ELSE Rec!Idle
  <1>4. job' = Rec!Resumed(a, ok, [job EXCEPT ![a] = j]) BY <1>3
  <1>5. /\ j \in Jobs
        /\ \/ j = Rec!Idle
           \/ j.st = "unlink" /\ j.new = job[a].new /\ j.drop = job[a].drop /\ job[a].drop # {}
    BY <1>0, IdleIs DEF Jobs, States
  <1> HIDE DEF j
  <1>6. /\ job' \in [Rec!Actors -> Jobs]
        /\ job'[a].st = j.st /\ job'[a].new = j.new /\ job'[a].drop = j.drop
        /\ \A b \in Rec!Actors \ {a} :
              /\ job'[b].new = job[b].new /\ job'[b].drop = job[b].drop
              /\ job'[b].alone = job[b].alone
              /\ \/ job'[b].st = job[b].st
                 \/ /\ \E r \in Ids : b = <<"remove", r>>
                    /\ job[b].st = "wait" /\ job'[b].st \in {"load", "idle"}
    BY <1>4, <1>5, Finished
  <1> QED BY <1>3, <1>5, <1>6, IdleIs

-----------------------------------------------------------------------------
(***************************************************************************)
(* Types.                                                                  *)
(***************************************************************************)
\* The other way round.
LEMMA JobsTypeNext ==
  job' \in [Rec!Actors -> Jobs] =>
    job' \in [Rec!Actors -> [st: {"idle", "wait", "load", "loaded", "unlink"},
                         new: Rec!Rows, drop: SUBSET Ids, alone: BOOLEAN]]
  BY DEF Jobs, States

\* What a stop does before its first await (recorder.ts).
LEMMA StopIs ==
  ASSUME Rec!TypeOK, NEW R, NEW reason \in Rec!Reasons, Rec!Stop(R, reason)
  PROVE  /\ active' \in SUBSET Ids /\ overtaken' \in SUBSET Ids
         /\ stopping' \in [Ids -> {"idle", "unpiping", "uncloning", "closing", "patching"}]
         /\ why' \in [Ids -> Rec!Reasons \cup {"none"}]
         /\ \A r \in Ids :
              /\ r \in active' <=> r \in active /\ r \notin R
              /\ r \in overtaken' <=> r \in overtaken \/ (r \in R \cap active /\ Rec!InStart(r))
              /\ r \in R \cap active => stopping'[r] = Rec!FirstHalt(r) /\ why'[r] = reason
              /\ r \notin R \cap active => stopping'[r] = stopping[r] /\ why'[r] = why[r]
  <1>1. \A r \in Ids : Rec!FirstHalt(r) \in {"unpiping", "uncloning", "closing"} BY DEF Rec!FirstHalt
  <1> QED BY <1>1 DEF Rec!Stop, Rec!TypeOK

\* And to the ptys.
LEMMA KilledIs ==
  ASSUME Rec!TypeOK, NEW R
  PROVE  /\ Rec!Killed(R) \in [Ids -> {"none", "fresh", "ready", "dead"}]
         /\ \A r \in Ids : Rec!Killed(R)[r] = IF r \in R \cap active /\ bridge[r] # "none"
                                           THEN "dead" ELSE bridge[r]
  BY DEF Rec!Killed, Rec!TypeOK

\* The catch of a start.
LEMMA FailIs ==
  ASSUME Rec!TypeOK, NEW r \in Ids, Rec!Fail(r)
  PROVE  /\ active' \in SUBSET Ids
         /\ at' \in [Ids -> {"idle", "checked", "cloning", "locking", "checking", "piping",
                             "putting", "running", "done"}]
         /\ writer' \in [Ids -> {"none", "open"} \cup Rec!Reasons]
         /\ at'[r] = "done" /\ r \notin active'
         /\ writer'[r] = IF writer[r] = "open" THEN "other" ELSE writer[r]
         /\ \A q \in Ids \ {r} : /\ at'[q] = at[q] /\ writer'[q] = writer[q]
                                 /\ q \in active' <=> q \in active
  BY RowIs DEF Rec!Fail, Rec!TypeOK

\* An update that moves on.
LEMMA MoveJob ==
  ASSUME Rec!TypeOK, NEW x \in Rec!Actors, NEW s \in States, job' = [job EXCEPT ![x].st = s]
  PROVE  /\ job' \in [Rec!Actors -> Jobs] /\ job'[x].st = s
         /\ \A b \in Rec!Actors : /\ b # x => job'[b] = job[b]
                              /\ job'[b].new = job[b].new /\ job'[b].drop = job[b].drop
                              /\ job'[b].alone = job[b].alone
  <1>1. job \in [Rec!Actors -> Jobs] BY JobsType
  <1>2. job' \in [Rec!Actors -> Jobs] BY <1>1, SetState
  <1>3. job'[x].st = s BY <1>1, SetState
  <1>4. \A b \in Rec!Actors : b # x => job'[b] = job[b] BY <1>1, SetState
  <1>5. \A b \in Rec!Actors : /\ job'[b].new = job[b].new /\ job'[b].drop = job[b].drop
                           /\ job'[b].alone = job[b].alone
    BY <1>1, SetState
  <1> QED BY <1>2, <1>3, <1>4, <1>5

\* The end of a stop, up to the reading of the index.
LEMMA CloseIs ==
  ASSUME Rec!TypeOK, Course, NEW r \in Ids, stopping[r] # "idle", Rec!Close(r)
  PROVE  /\ why' \in [Ids -> Rec!Reasons \cup {"none"}]
         /\ writer' \in [Ids -> {"none", "open"} \cup Rec!Reasons]
         /\ stopping' \in [Ids -> {"idle", "unpiping", "uncloning", "closing", "patching"}]
         /\ stopping'[r] = "patching"
         /\ writer'[r] \in Rec!Reasons /\ why'[r] = writer'[r]
         /\ writer[r] # "open" => writer'[r] = writer[r]
         /\ \A q \in Ids \ {r} : /\ why'[q] = why[q] /\ writer'[q] = writer[q]
                                 /\ stopping'[q] = stopping[q]
         /\ job' \in [Rec!Actors -> Jobs] /\ job'[<<"patch", r>>].st = "load"
         /\ \A b \in Rec!Actors : /\ b # <<"patch", r>> => job'[b] = job[b]
                              /\ job'[b].new = job[b].new /\ job'[b].drop = job[b].drop
  <1>1. writer[r] \in {"open"} \cup Rec!Reasons /\ why[r] \in Rec!Reasons BY DEF Course, CourseOf, Rec!TypeOK
  <1>2. /\ job' = [job EXCEPT ![<<"patch", r>>].st = "load"]
        /\ why' = [why EXCEPT ![r] = IF writer[r] = "open" THEN why[r] ELSE writer[r]]
        /\ writer' = [writer EXCEPT ![r] = IF writer[r] = "open" THEN why[r] ELSE writer[r]]
        /\ stopping' = [stopping EXCEPT ![r] = "patching"]
    BY DEF Rec!Close, Rec!FinalReason
  <1>3. /\ job' \in [Rec!Actors -> Jobs] /\ job'[<<"patch", r>>].st = "load"
        /\ \A b \in Rec!Actors : /\ b # <<"patch", r>> => job'[b] = job[b]
                             /\ job'[b].new = job[b].new /\ job'[b].drop = job[b].drop
    <2> DEFINE x == <<"patch", r>>
    <2>1. x \in Rec!Actors /\ "load" \in States BY ActorIs DEF States
    <2>2. job \in [Rec!Actors -> Jobs] BY JobsType
    <2>3. job' = [job EXCEPT ![x].st = "load"] BY <1>2
    <2> HIDE DEF x
    <2>4. /\ job' \in [Rec!Actors -> Jobs] /\ job'[x].st = "load"
          /\ \A b \in Rec!Actors : /\ b # x => job'[b] = job[b]
                               /\ job'[b].new = job[b].new /\ job'[b].drop = job[b].drop
      BY <2>1, <2>2, <2>3, SetState
    <2> QED BY <2>4 DEF x
  <1>4. /\ why \in [Ids -> Rec!Reasons \cup {"none"}]
        /\ writer \in [Ids -> {"none", "open"} \cup Rec!Reasons]
        /\ stopping \in [Ids -> {"idle", "unpiping", "uncloning", "closing", "patching"}]
    BY DEF Rec!TypeOK
  <1> QED BY <1>1, <1>2, <1>3, <1>4, RowIs

\* A start that goes on to the index.
LEMMA PutIs ==
  ASSUME Rec!TypeOK, NEW r \in Ids, job' = [job EXCEPT ![<<"put", r>>].st = "load"]
  PROVE  /\ job' \in [Rec!Actors -> Jobs] /\ job'[<<"put", r>>].st = "load"
         /\ \A b \in Rec!Actors : /\ b # <<"put", r>> => job'[b] = job[b]
                              /\ job'[b].new = job[b].new /\ job'[b].drop = job[b].drop
  <1>1. <<"put", r>> \in Rec!Actors /\ "load" \in States BY ActorIs DEF States
  <1> QED BY <1>1, MoveJob

\* A deletion.
LEMMA DeleteIs ==
  ASSUME Rec!TypeOK, NEW r \in Ids, NEW first \in BOOLEAN, Rec!Delete(r, first)
  PROVE  /\ job' \in [Rec!Actors -> Jobs]
         /\ job'[<<"remove", r>>].st \in {"wait", "load"}
         /\ \A b \in Rec!Actors : /\ b # <<"remove", r>> => job'[b] = job[b]
                              /\ job'[b].new = job[b].new /\ job'[b].drop = job[b].drop
         /\ \/ Rec!Stop({r}, "other") /\ bridge' = Rec!Killed({r})
            \/ UNCHANGED <<active, bridge, Rec!stopVars>>
         /\ job[<<"remove", r>>].st = "idle"
  <1> DEFINE x == <<"remove", r>>
  <1>1. x \in Rec!Actors /\ "load" \in States /\ "wait" \in States BY ActorIs DEF States
  <1>2. job \in [Rec!Actors -> Jobs] BY JobsType
  <1>3. /\ \/ job' = [job EXCEPT ![x].st = "load"]
           \/ job' = [job EXCEPT ![x].st = "wait"]
        /\ \/ Rec!Stop({r}, "other") /\ bridge' = Rec!Killed({r})
           \/ UNCHANGED <<active, bridge, Rec!stopVars>>
        /\ job[x].st = "idle"
    BY DEF Rec!Delete
  <1> HIDE DEF x
  <1>4. ASSUME NEW s \in States, job' = [job EXCEPT ![x].st = s]
        PROVE  /\ job' \in [Rec!Actors -> Jobs] /\ job'[x].st = s
               /\ \A b \in Rec!Actors : /\ b # x => job'[b] = job[b]
                                    /\ job'[b].new = job[b].new /\ job'[b].drop = job[b].drop
    BY <1>1, <1>2, <1>4, SetState
  <1>5. /\ job' \in [Rec!Actors -> Jobs] /\ job'[x].st \in {"wait", "load"}
        /\ \A b \in Rec!Actors : /\ b # x => job'[b] = job[b]
                             /\ job'[b].new = job[b].new /\ job'[b].drop = job[b].drop
    BY <1>1, <1>3, <1>4
  <1> QED BY <1>3, <1>5 DEF x

\* Every step keeps the types.
LEMMA RecorderTypeStep ==
  ASSUME Rec!RecorderAssumption, Rec!TypeOK, Course, Updates, [Rec!Next]_Rec!vars
  PROVE  Rec!TypeOK'
  <1>1. ASSUME NEW r \in Ids, NEW t \in Rec!Targets, Rec!Start(r, t) PROVE Rec!TypeOK'
    BY <1>1 DEF Rec!Start, Rec!stopVars, Rec!procVars, Rec!tmuxVars, Rec!indexVars, Rec!TypeOK, Rec!RecorderAssumption
  <1>2. ASSUME NEW r \in Ids, Rec!RequestStop(r) PROVE Rec!TypeOK'
    <2>1. Rec!Stop({r}, "other") BY <1>2 DEF Rec!RequestStop
    <2>2. bridge' \in [Ids -> {"none", "fresh", "ready", "dead"}] BY <1>2, KilledIs DEF Rec!RequestStop, Rec!TypeOK
    <2> QED BY <1>2, <2>1, <2>2, StopIs, RowIs DEF Rec!RequestStop, Rec!TypeOK, Rec!startVars, Rec!stopVars, Rec!procVars, Rec!tmuxVars, Rec!indexVars
  <1>3. ASSUME NEW r \in Ids, NEW first \in BOOLEAN, Rec!Delete(r, first) PROVE Rec!TypeOK'
    <2>1. /\ active' \in SUBSET Ids /\ overtaken' \in SUBSET Ids
          /\ stopping' \in [Ids -> {"idle", "unpiping", "uncloning", "closing", "patching"}]
          /\ why' \in [Ids -> Rec!Reasons \cup {"none"}]
          /\ bridge' \in [Ids -> {"none", "fresh", "ready", "dead"}]
      <3>1. CASE Rec!Stop({r}, "other") /\ bridge' = Rec!Killed({r}) BY <3>1, StopIs, KilledIs, RowIs
      <3>2. CASE UNCHANGED <<active, bridge, Rec!stopVars>> BY <3>2 DEF Rec!stopVars, Rec!TypeOK
      <3> QED BY <1>3, <3>1, <3>2, DeleteIs
    <2>2. job' \in [Rec!Actors -> Jobs] BY <1>3, DeleteIs
    <2>3. turns' \in 0 .. MaxTurns BY <1>3 DEF Rec!Delete, Rec!Turn, Rec!TypeOK, Rec!RecorderAssumption
    <2> QED BY <1>3, <2>1, <2>2, <2>3, JobsTypeNext DEF Rec!Delete, Rec!Turn, Rec!TypeOK, Rec!tmuxVars
  <1>4. ASSUME NEW r \in Ids, Rec!StartRefused(r) PROVE Rec!TypeOK'
    BY <1>4 DEF Rec!StartRefused, Rec!stopVars, Rec!procVars, Rec!tmuxVars, Rec!indexVars, Rec!TypeOK, Rec!RecorderAssumption
  <1>5. ASSUME NEW r \in Ids, Rec!Announce(r) PROVE Rec!TypeOK'
    BY <1>5 DEF Rec!Announce, Rec!stopVars, Rec!procVars, Rec!tmuxVars, Rec!indexVars, Rec!TypeOK, Rec!RecorderAssumption
  <1>6. ASSUME NEW r \in Ids, Rec!Attach(r) PROVE Rec!TypeOK'
    <2>1. job' \in [Rec!Actors -> Jobs] BY <1>6, PutIs DEF Rec!Attach
    <2> QED BY <1>6, <2>1, JobsTypeNext DEF Rec!Attach, Rec!TypeOK, Rec!startVars, Rec!stopVars, Rec!procVars, Rec!tmuxVars, Rec!indexVars
  <1>7. ASSUME NEW r \in Ids, Rec!AttachFails(r) PROVE Rec!TypeOK'
    <2>1. Rec!Fail(r) BY <1>7 DEF Rec!AttachFails
    <2>2. /\ active' \in SUBSET Ids
          /\ at' \in [Ids -> {"idle", "checked", "cloning", "locking", "checking", "piping",
                             "putting", "running", "done"}]
          /\ writer' \in [Ids -> {"none", "open"} \cup Rec!Reasons]
      BY <2>1, FailIs
    <2>3. /\ UNCHANGED <<target, bridge, born, Rec!stopVars, Rec!procVars, there, pipe, Rec!indexVars, orphans,
                       cast>>
          /\ reading' \in [Ids -> BOOLEAN] /\ fifo' \in [Ids -> BOOLEAN] /\ clone' \in [Ids -> BOOLEAN]
      BY <1>7 DEF Rec!AttachFails, Rec!Fail, Rec!DestroyClone, Rec!TypeOK
    <2> QED BY <2>2, <2>3 DEF Rec!TypeOK, Rec!stopVars, Rec!procVars, Rec!indexVars
  <1>8. ASSUME NEW r \in Ids, Rec!MakeFifo(r) PROVE Rec!TypeOK'
    BY <1>8 DEF Rec!MakeFifo, Rec!stopVars, Rec!procVars, Rec!tmuxVars, Rec!indexVars, Rec!TypeOK, Rec!RecorderAssumption
  <1>9. ASSUME NEW r \in Ids, Rec!NoFifo(r) PROVE Rec!TypeOK'
    <2>1. Rec!Fail(r) BY <1>9 DEF Rec!NoFifo
    <2>2. /\ active' \in SUBSET Ids
          /\ at' \in [Ids -> {"idle", "checked", "cloning", "locking", "checking", "piping",
                             "putting", "running", "done"}]
          /\ writer' \in [Ids -> {"none", "open"} \cup Rec!Reasons]
      BY <2>1, FailIs
    <2>3. /\ UNCHANGED <<target, bridge, born, Rec!stopVars, Rec!procVars, there, pipe, Rec!indexVars, orphans,
                       cast, clone>>
          /\ reading' \in [Ids -> BOOLEAN] /\ fifo' \in [Ids -> BOOLEAN]
      BY <1>9 DEF Rec!NoFifo, Rec!Fail, Rec!UnlinkFifo, Rec!TypeOK
    <2> QED BY <2>2, <2>3 DEF Rec!TypeOK, Rec!stopVars, Rec!procVars, Rec!indexVars
  <1>10. ASSUME NEW r \in Ids, Rec!PipePane(r) PROVE Rec!TypeOK'
    <2>1. job' \in [Rec!Actors -> Jobs] BY <1>10, PutIs DEF Rec!PipePane
    <2> QED BY <1>10, <2>1, JobsTypeNext DEF Rec!PipePane, Rec!TypeOK, Rec!startVars, Rec!stopVars, Rec!procVars, Rec!tmuxVars, Rec!indexVars
  <1>11. ASSUME NEW r \in Ids, Rec!PipeFails(r) PROVE Rec!TypeOK'
    <2>1. Rec!Fail(r) BY <1>11 DEF Rec!PipeFails
    <2>2. /\ active' \in SUBSET Ids
          /\ at' \in [Ids -> {"idle", "checked", "cloning", "locking", "checking", "piping",
                             "putting", "running", "done"}]
          /\ writer' \in [Ids -> {"none", "open"} \cup Rec!Reasons]
      BY <2>1, FailIs
    <2>3. /\ UNCHANGED <<target, bridge, born, Rec!stopVars, Rec!procVars, there, pipe, Rec!indexVars, orphans,
                       cast, clone>>
          /\ reading' \in [Ids -> BOOLEAN] /\ fifo' \in [Ids -> BOOLEAN]
      BY <1>11 DEF Rec!PipeFails, Rec!Fail, Rec!UnlinkFifo, Rec!TypeOK
    <2> QED BY <2>2, <2>3 DEF Rec!TypeOK, Rec!stopVars, Rec!procVars, Rec!indexVars
  <1>12. ASSUME NEW r \in Ids, Rec!Unpipe(r) PROVE Rec!TypeOK'
    <2>1. Rec!Close(r) /\ stopping[r] # "idle" BY <1>12 DEF Rec!Unpipe
    <2>2. pipe' \in [Panes -> Ids \cup {"none", "theirs"}] BY <1>12 DEF Rec!Unpipe, Rec!TypeOK
    <2>3. reading' \in [Ids -> BOOLEAN] /\ fifo' \in [Ids -> BOOLEAN] /\ clone' \in [Ids -> BOOLEAN]
      BY <1>12 DEF Rec!Unpipe, Rec!UnlinkFifo, Rec!TypeOK
    <2> QED BY <1>12, <2>1, <2>2, <2>3, CloseIs, JobsTypeNext DEF Rec!Close, Rec!TypeOK, Rec!startVars, Rec!stopVars, Rec!procVars, Rec!tmuxVars, Rec!indexVars
  <1>13. ASSUME NEW r \in Ids, Rec!Unclone(r) PROVE Rec!TypeOK'
    <2>1. Rec!Close(r) /\ stopping[r] # "idle" BY <1>13 DEF Rec!Unclone
    <2>2. pipe' \in [Panes -> Ids \cup {"none", "theirs"}] BY <1>13 DEF Rec!Unclone, Rec!TypeOK
    <2>3. reading' \in [Ids -> BOOLEAN] /\ fifo' \in [Ids -> BOOLEAN] /\ clone' \in [Ids -> BOOLEAN]
      BY <1>13 DEF Rec!Unclone, Rec!DestroyClone, Rec!TypeOK
    <2> QED BY <1>13, <2>1, <2>2, <2>3, CloseIs, JobsTypeNext DEF Rec!Close, Rec!TypeOK, Rec!startVars, Rec!stopVars, Rec!procVars, Rec!tmuxVars, Rec!indexVars
  <1>14. ASSUME NEW r \in Ids, Rec!CloseAtOnce(r) PROVE Rec!TypeOK'
    <2>1. Rec!Close(r) /\ stopping[r] # "idle" BY <1>14 DEF Rec!CloseAtOnce
    <2>2. pipe' \in [Panes -> Ids \cup {"none", "theirs"}] BY <1>14 DEF Rec!CloseAtOnce, Rec!TypeOK
    <2>3. reading' \in [Ids -> BOOLEAN] /\ fifo' \in [Ids -> BOOLEAN] /\ clone' \in [Ids -> BOOLEAN]
      BY <1>14 DEF Rec!CloseAtOnce, Rec!TypeOK
    <2> QED BY <1>14, <2>1, <2>2, <2>3, CloseIs, JobsTypeNext DEF Rec!Close, Rec!TypeOK, Rec!startVars, Rec!stopVars, Rec!procVars, Rec!tmuxVars, Rec!indexVars
  <1>15. ASSUME NEW r \in Ids, Rec!Ready(r) PROVE Rec!TypeOK'
    BY <1>15 DEF Rec!Ready, Rec!stopVars, Rec!procVars, Rec!tmuxVars, Rec!indexVars, Rec!TypeOK, Rec!RecorderAssumption
  <1>16. ASSUME NEW r \in Ids, Rec!HitLimit(r) PROVE Rec!TypeOK'
    <2>1. Rec!Stop({r}, "limit") BY <1>16 DEF Rec!HitLimit
    <2>2. bridge' \in [Ids -> {"none", "fresh", "ready", "dead"}] BY <1>16, KilledIs DEF Rec!HitLimit, Rec!TypeOK
    <2> QED BY <1>16, <2>1, <2>2, StopIs, RowIs DEF Rec!HitLimit, Rec!TypeOK, Rec!startVars, Rec!stopVars, Rec!procVars, Rec!tmuxVars, Rec!indexVars
  <1>17. ASSUME NEW r \in Ids, Rec!PtyExits(r) PROVE Rec!TypeOK'
    <2>1. /\ active' \in SUBSET Ids /\ overtaken' \in SUBSET Ids
          /\ stopping' \in [Ids -> {"idle", "unpiping", "uncloning", "closing", "patching"}]
          /\ why' \in [Ids -> Rec!Reasons \cup {"none"}]
      <3>1. Rec!Stop({r}, "other") \/ UNCHANGED <<active, Rec!stopVars>> BY <1>17 DEF Rec!PtyExits
      <3> QED BY <3>1, StopIs, RowIs DEF Rec!stopVars, Rec!TypeOK
    <2> QED BY <1>17, <2>1 DEF Rec!PtyExits, Rec!TypeOK, Rec!startVars, Rec!stopVars, Rec!procVars, Rec!tmuxVars, Rec!indexVars
  <1>18. ASSUME NEW r \in Ids, Rec!FifoError(r) PROVE Rec!TypeOK'
    <2>1. Rec!Stop({r}, "other") BY <1>18 DEF Rec!FifoError
    <2>2. bridge' \in [Ids -> {"none", "fresh", "ready", "dead"}] BY <1>18, KilledIs DEF Rec!FifoError, Rec!TypeOK
    <2>3. /\ turns' \in 0 .. MaxTurns /\ UNCHANGED <<up, boots, old>>
          /\ reading' \in [Ids -> BOOLEAN]
      BY <1>18 DEF Rec!FifoError, Rec!Turn, Rec!TypeOK, Rec!RecorderAssumption
    <2> QED BY <1>18, <2>1, <2>2, <2>3, StopIs, RowIs DEF Rec!FifoError, Rec!TypeOK, Rec!startVars, Rec!stopVars, Rec!procVars, Rec!tmuxVars, Rec!indexVars
  <1>19. CASE Rec!StopAll
    <2>1. Rec!Stop(active, "other") BY <1>19 DEF Rec!StopAll
    <2>2. bridge' \in [Ids -> {"none", "fresh", "ready", "dead"}] BY <1>19, KilledIs DEF Rec!StopAll, Rec!TypeOK
    <2> QED BY <1>19, <2>1, <2>2, StopIs, RowIs DEF Rec!StopAll, Rec!TypeOK, Rec!startVars, Rec!stopVars, Rec!procVars, Rec!tmuxVars, Rec!indexVars
  <1>20. ASSUME NEW a \in Rec!Actors, Rec!Load(a) PROVE Rec!TypeOK'
    <2>1. job' \in [Rec!Actors -> Jobs] BY <1>20, LoadIs
    <2>2. overlap' \in {"never", "before", "now"} BY <1>20, LoadIs DEF Rec!TypeOK
    <2>3. Rec!Over(a, TRUE) \/ UNCHANGED <<at, stopping, why>> BY <1>20, LoadIs
    <2>4. /\ at' \in [Ids -> {"idle", "checked", "cloning", "locking", "checking", "piping",
                             "putting", "running", "done"}]
          /\ stopping' \in [Ids -> {"idle", "unpiping", "uncloning", "closing", "patching"}]
          /\ why' \in [Ids -> Rec!Reasons \cup {"none"}]
      BY <2>3, OverIs DEF Rec!TypeOK
    <2> QED BY <1>20, <2>1, <2>2, <2>4, JobsTypeNext DEF Rec!Load, Rec!TypeOK, Rec!tmuxVars, Rec!procVars
  <1>21. ASSUME NEW a \in Rec!Actors, Rec!Save(a) PROVE Rec!TypeOK'
    <2>1. PICK ok \in BOOLEAN : Rec!Over(a, ok) /\ rows' \in Rec!Rows /\ job' \in [Rec!Actors -> Jobs]
      BY <1>21, SaveIs
    <2>2. /\ at' \in [Ids -> {"idle", "checked", "cloning", "locking", "checking", "piping",
                             "putting", "running", "done"}]
          /\ stopping' \in [Ids -> {"idle", "unpiping", "uncloning", "closing", "patching"}]
          /\ why' \in [Ids -> Rec!Reasons \cup {"none"}]
      BY <2>1, OverIs
    <2> QED BY <1>21, <2>1, <2>2, JobsTypeNext DEF Rec!Save, Rec!TypeOK, Rec!tmuxVars, Rec!procVars
  <1>22. ASSUME NEW a \in Rec!Actors, Rec!Unlink(a) PROVE Rec!TypeOK'
    <2>1. job' \in [Rec!Actors -> Jobs] BY <1>22, SetJob, IdleIs, JobsType DEF Rec!Unlink
    <2>2. cast' \in [Ids -> BOOLEAN] BY <1>22, Zenon DEF Rec!Unlink, Rec!TypeOK
    <2> QED BY <1>22, <2>1, <2>2, JobsTypeNext DEF Rec!Unlink, Rec!TypeOK, Rec!startVars, Rec!stopVars, Rec!procVars, Rec!tmuxVars, Rec!indexVars
  <1>23. ASSUME NEW t \in Rec!Targets, Rec!TargetEnds(t) PROVE Rec!TypeOK'
    BY <1>23 DEF Rec!TargetEnds, Rec!Turn, Rec!startVars, Rec!stopVars, Rec!indexVars, Rec!TypeOK, Rec!RecorderAssumption
  <1>24. ASSUME NEW p \in Panes, Rec!TheyPipe(p) PROVE Rec!TypeOK'
    BY <1>24 DEF Rec!TheyPipe, Rec!Turn, Rec!startVars, Rec!stopVars, Rec!indexVars, Rec!TypeOK, Rec!RecorderAssumption
  <1>25. ASSUME NEW p \in Panes, Rec!PipeBreaks(p) PROVE Rec!TypeOK'
    BY <1>25 DEF Rec!PipeBreaks, Rec!startVars, Rec!stopVars, Rec!procVars, Rec!indexVars, Rec!TypeOK, Rec!RecorderAssumption
  <1>26. CASE Rec!Die
    <2>1. job' \in [Rec!Actors -> Jobs] BY <1>26, IdleIs DEF Rec!Die
    <2>2. up' \in BOOLEAN /\ reading' \in [Ids -> BOOLEAN] BY <1>26 DEF Rec!Die
    <2> QED BY <1>26, <2>1, <2>2, JobsTypeNext DEF Rec!Die, Rec!TypeOK, Rec!startVars, Rec!stopVars, Rec!procVars, Rec!tmuxVars, Rec!indexVars
  <1>27. CASE Rec!Boot
    <2>1. job' \in [Rec!Actors -> Jobs]
      <3>1. \A r \in Ids : Rec!Sweeper # <<"patch", r>> BY ActorsDiffer
      <3>2. Rec!Begun(Rec!Sweeper) \in [Rec!Actors -> Jobs] BY <3>1, ActorIs, BegunIs
      <3> QED BY <1>27, <3>2, JobsType DEF Rec!Boot
    <2>2. up' \in BOOLEAN /\ overlap' \in {"never", "before", "now"} /\ orphans' \in SUBSET Ids
      BY <1>27 DEF Rec!Boot, Rec!CloneSessions, Rec!TypeOK
    <2>3. boots' \in 0 .. MaxBoots BY <1>27 DEF Rec!Boot, Rec!TypeOK, Rec!RecorderAssumption
    <2> QED BY <1>27, <2>1, <2>2, <2>3, JobsTypeNext DEF Rec!Boot, Rec!TypeOK, Rec!startVars, Rec!stopVars, Rec!procVars, Rec!tmuxVars, Rec!indexVars
  <1>28. CASE Rec!SweepClone
    BY <1>28 DEF Rec!SweepClone, Rec!DestroyClone, Rec!startVars, Rec!stopVars, Rec!procVars, Rec!indexVars, Rec!TypeOK, Rec!RecorderAssumption
  <1>29. CASE UNCHANGED Rec!vars
    BY <1>29 DEF Rec!vars, Rec!startVars, Rec!stopVars, Rec!procVars, Rec!tmuxVars, Rec!indexVars, Rec!TypeOK, Rec!RecorderAssumption
  <1>30. ASSUME NEW r \in Ids, Rec!MakeClone(r) PROVE Rec!TypeOK'
    BY <1>30 DEF Rec!MakeClone, Rec!stopVars, Rec!procVars, Rec!indexVars, Rec!TypeOK, Rec!RecorderAssumption
  <1> QED BY <1>1, <1>2, <1>3, <1>4, <1>5, <1>6, <1>7, <1>8, <1>9, <1>10, <1>11, <1>12, <1>13, <1>14, <1>15, <1>16, <1>17, <1>18, <1>19, <1>20, <1>21, <1>22, <1>23, <1>24, <1>25, <1>26, <1>27, <1>28, <1>29, <1>30
          DEF Rec!Next, Rec!Request, Rec!StartStep, Rec!StopStep, Rec!Event, Rec!IndexStep

-----------------------------------------------------------------------------
(***************************************************************************)
(* The course of a recording.                                              *)
(***************************************************************************)
\* A stop, with the limit that may have caused it.
LEMMA StopKeepsCourse ==
  ASSUME Rec!TypeOK, Course, NEW R, NEW reason \in Rec!Reasons, Rec!Stop(R, reason),
         UNCHANGED <<at, target>>,
         \/ UNCHANGED writer
         \/ \E r \in R \cap Ids : writer[r] = "open" /\ writer' = [writer EXCEPT ![r] = "limit"]
  PROVE  Course'
  <1> SUFFICES ASSUME NEW r \in Ids PROVE CourseOf(r)' BY DEF Course
  <1>0. CourseOf(r) BY DEF Course
  <1>1. /\ r \in active' <=> r \in active /\ r \notin R
        /\ r \in overtaken' <=> r \in overtaken \/ (r \in R \cap active /\ Rec!InStart(r))
        /\ r \in R \cap active => stopping'[r] = Rec!FirstHalt(r) /\ why'[r] = reason
        /\ r \notin R \cap active => stopping'[r] = stopping[r] /\ why'[r] = why[r]
    BY StopIs
  <1>2. /\ writer'[r] = writer[r] \/ (r \in R /\ writer[r] = "open" /\ writer'[r] = "limit")
        /\ why[r] = writer[r] /\ why[r] \in Rec!Reasons => writer[r] # "open"
    BY RowIs DEF Rec!TypeOK
  <1>3. CASE r \in R \cap active
    <2>1. target[r] \in Rec!Targets /\ Rec!FirstHalt(r) \in {"unpiping", "uncloning", "closing"}
          /\ (Rec!FirstHalt(r) = "unpiping" <=> target[r] \in Panes)
      BY <1>0, <1>3 DEF CourseOf, Early, Rec!FirstHalt
    <2> QED BY <1>0, <1>1, <1>2, <1>3, <2>1 DEF CourseOf, Early, Rec!InStart, Rec!Targets
  <1>4. CASE r \notin R \cap active
    BY <1>0, <1>1, <1>2, <1>4 DEF CourseOf, Early, Rec!InStart, Rec!Targets
  <1> QED BY <1>3, <1>4

\* The catch of a start.
LEMMA FailKeepsCourse ==
  ASSUME Rec!TypeOK, Course, NEW r \in Ids, Rec!Fail(r), ~Early(r)
  PROVE  Course'
  <1> SUFFICES ASSUME NEW q \in Ids PROVE CourseOf(q)' BY DEF Course
  <1>0. CourseOf(q) BY DEF Course
  <1>1. UNCHANGED <<target, overtaken, stopping, why>> BY DEF Rec!Fail, Rec!stopVars
  <1>2. CASE q = r
    <2>1. at'[q] = "done" /\ q \notin active' BY <1>2, FailIs
    <2>2. writer'[q] = IF writer[q] = "open" THEN "other" ELSE writer[q] BY <1>2, FailIs
    <2>3. at[q] # "idle" /\ (stopping[q] = "patching" => writer[q] # "open")
      BY <1>0, <1>2, RowIs DEF CourseOf, Early
    <2> QED BY <1>0, <1>1, <1>2, <2>1, <2>2, <2>3 DEF CourseOf, Early, Rec!InStart
  <1>3. CASE q # r
    <2>1. at'[q] = at[q] /\ writer'[q] = writer[q] /\ (q \in active' <=> q \in active)
      BY <1>3, FailIs
    <2> QED BY <1>0, <1>1, <2>1 DEF CourseOf, Early, Rec!InStart
  <1> QED BY <1>2, <1>3

\* The end of a stop.
LEMMA CloseKeepsCourse ==
  ASSUME Rec!TypeOK, Course, NEW r \in Ids, Rec!Close(r),
         stopping[r] \in {"unpiping", "uncloning", "closing"}
  PROVE  Course'
  <1> SUFFICES ASSUME NEW q \in Ids PROVE CourseOf(q)' BY DEF Course
  <1>0. CourseOf(q) BY DEF Course
  <1>1. UNCHANGED <<at, target, active, overtaken>> BY DEF Rec!Close
  <1>2. CASE q = r
    <2>1. /\ stopping'[q] = "patching" /\ writer'[q] \in Rec!Reasons /\ why'[q] = writer'[q]
      BY <1>2, CloseIs
    <2>2. stopping[q] # "idle" /\ "none" \notin Rec!Reasons BY <1>2, RowIs
    <2> QED BY <1>0, <1>1, <2>1, <2>2 DEF CourseOf, Early, Rec!InStart
  <1>3. CASE q # r
    <2>1. stopping'[q] = stopping[q] /\ writer'[q] = writer[q] /\ why'[q] = why[q]
      BY <1>3, CloseIs
    <2> QED BY <1>0, <1>1, <2>1 DEF CourseOf, Early, Rec!InStart
  <1> QED BY <1>2, <1>3

\* The end of an update.
LEMMA OverKeepsCourse ==
  ASSUME Rec!TypeOK, Course, Updates, NEW a \in Rec!Actors, NEW ok \in BOOLEAN, Rec!Over(a, ok),
         job[a].st \in {"load", "loaded"},
         UNCHANGED <<active, target, writer, overtaken>>
  PROVE  Course'
  <1> SUFFICES ASSUME NEW q \in Ids PROVE CourseOf(q)' BY DEF Course
  <1>0. CourseOf(q) BY DEF Course
  <1>1. /\ at'[q] = IF a = <<"put", q>> THEN IF ok THEN "running" ELSE "done" ELSE at[q]
        /\ stopping'[q] = IF a = <<"patch", q>> THEN "idle" ELSE stopping[q]
        /\ why'[q] = IF a = <<"patch", q>> THEN "none" ELSE why[q]
    BY OverIs
  <1>2. a = <<"put", q>> => at[q] = "putting" BY DEF Updates
  <1> QED BY <1>0, <1>1, <1>2 DEF CourseOf, Early, Rec!InStart

\* Every step of the recorder.
LEMMA CourseStep ==
  ASSUME Rec!TypeOK, Course, Updates, Processes, [Rec!Next]_Rec!vars
  PROVE  Course'
  <1>1. ASSUME NEW r \in Ids, NEW t \in Rec!Targets, Rec!Start(r, t) PROVE Course'
    BY <1>1 DEF Rec!Start, Rec!stopVars, Rec!procVars, Rec!tmuxVars, Rec!indexVars, Course, CourseOf, Early, Rec!InStart, Rec!TypeOK, Rec!Targets
  <1>2. ASSUME NEW r \in Ids, Rec!RequestStop(r) PROVE Course'
    <2>1. Rec!Stop({r}, "other") /\ UNCHANGED <<at, target, writer>> BY <1>2 DEF Rec!RequestStop
    <2>2. "other" \in Rec!Reasons BY RowIs
    <2> QED BY <2>1, <2>2, StopKeepsCourse
  <1>3. ASSUME NEW r \in Ids, NEW first \in BOOLEAN, Rec!Delete(r, first) PROVE Course'
    <2>1. UNCHANGED <<at, target, writer>> /\ (Rec!Stop({r}, "other") \/ UNCHANGED <<active, Rec!stopVars>>)
      BY <1>3 DEF Rec!Delete
    <2>2. CASE Rec!Stop({r}, "other")
      <3>1. "other" \in Rec!Reasons BY RowIs
      <3> QED BY <2>1, <2>2, <3>1, StopKeepsCourse
    <2>3. CASE UNCHANGED <<active, Rec!stopVars>>
      BY <2>1, <2>3 DEF Rec!stopVars, Course, CourseOf, Early, Rec!InStart
    <2> QED BY <2>1, <2>2, <2>3
  <1>4. ASSUME NEW r \in Ids, Rec!StartRefused(r) PROVE Course'
    BY <1>4 DEF Rec!StartRefused, Rec!stopVars, Rec!procVars, Rec!tmuxVars, Rec!indexVars, Course, CourseOf, Early, Rec!InStart, Rec!TypeOK, Rec!Targets
  <1>5. ASSUME NEW r \in Ids, Rec!Announce(r) PROVE Course'
    BY <1>5 DEF Rec!Announce, Rec!stopVars, Rec!procVars, Rec!tmuxVars, Rec!indexVars, Course, CourseOf, Early, Rec!InStart, Rec!TypeOK, Rec!Targets
  <1>6. ASSUME NEW r \in Ids, Rec!Attach(r) PROVE Course'
    BY <1>6 DEF Rec!Attach, Rec!stopVars, Rec!procVars, Course, CourseOf, Early, Rec!InStart, Rec!TypeOK, Rec!Targets
  <1>7. ASSUME NEW r \in Ids, Rec!AttachFails(r) PROVE Course'
    <2>1. Rec!Fail(r) /\ ~Early(r) BY <1>7 DEF Rec!AttachFails, Early
    <2> QED BY <2>1, FailKeepsCourse
  <1>8. ASSUME NEW r \in Ids, Rec!MakeFifo(r) PROVE Course'
    BY <1>8 DEF Rec!MakeFifo, Rec!stopVars, Rec!procVars, Rec!tmuxVars, Rec!indexVars, Course, CourseOf, Early, Rec!InStart, Rec!TypeOK, Rec!Targets
  <1>9. ASSUME NEW r \in Ids, Rec!NoFifo(r) PROVE Course'
    <2>1. Rec!Fail(r) /\ ~Early(r) BY <1>9 DEF Rec!NoFifo, Early
    <2> QED BY <2>1, FailKeepsCourse
  <1>10. ASSUME NEW r \in Ids, Rec!PipePane(r) PROVE Course'
    BY <1>10 DEF Rec!PipePane, Rec!stopVars, Rec!procVars, Course, CourseOf, Early, Rec!InStart, Rec!TypeOK, Rec!Targets
  <1>11. ASSUME NEW r \in Ids, Rec!PipeFails(r) PROVE Course'
    <2>1. Rec!Fail(r) /\ ~Early(r) BY <1>11 DEF Rec!PipeFails, Early
    <2> QED BY <2>1, FailKeepsCourse
  <1>12. ASSUME NEW r \in Ids, Rec!Unpipe(r) PROVE Course'
    <2>1. Rec!Close(r) /\ stopping[r] \in {"unpiping", "uncloning", "closing"} BY <1>12 DEF Rec!Unpipe
    <2> QED BY <2>1, CloseKeepsCourse
  <1>13. ASSUME NEW r \in Ids, Rec!Unclone(r) PROVE Course'
    <2>1. Rec!Close(r) /\ stopping[r] \in {"unpiping", "uncloning", "closing"} BY <1>13 DEF Rec!Unclone
    <2> QED BY <2>1, CloseKeepsCourse
  <1>14. ASSUME NEW r \in Ids, Rec!CloseAtOnce(r) PROVE Course'
    <2>1. Rec!Close(r) /\ stopping[r] \in {"unpiping", "uncloning", "closing"} BY <1>14 DEF Rec!CloseAtOnce
    <2> QED BY <2>1, CloseKeepsCourse
  <1>15. ASSUME NEW r \in Ids, Rec!Ready(r) PROVE Course'
    BY <1>15 DEF Rec!Ready, Rec!stopVars, Rec!procVars, Rec!tmuxVars, Rec!indexVars, Course, CourseOf, Early, Rec!InStart, Rec!TypeOK, Rec!Targets
  <1>16. ASSUME NEW r \in Ids, Rec!HitLimit(r) PROVE Course'
    <2>1. Rec!Stop({r}, "limit") /\ UNCHANGED <<at, target>> BY <1>16 DEF Rec!HitLimit
    <2>2. "limit" \in Rec!Reasons BY RowIs
    <2>3. \E q \in {r} \cap Ids : writer[q] = "open" /\ writer' = [writer EXCEPT ![q] = "limit"]
      BY <1>16 DEF Rec!HitLimit
    <2> QED BY <2>1, <2>2, <2>3, StopKeepsCourse
  <1>17. ASSUME NEW r \in Ids, Rec!PtyExits(r) PROVE Course'
    <2>1. UNCHANGED <<at, target, writer>> /\ (Rec!Stop({r}, "other") \/ UNCHANGED <<active, Rec!stopVars>>)
      BY <1>17 DEF Rec!PtyExits
    <2>2. CASE Rec!Stop({r}, "other")
      <3>1. "other" \in Rec!Reasons BY RowIs
      <3> QED BY <2>1, <2>2, <3>1, StopKeepsCourse
    <2>3. CASE UNCHANGED <<active, Rec!stopVars>>
      BY <2>1, <2>3 DEF Rec!stopVars, Course, CourseOf, Early, Rec!InStart
    <2> QED BY <2>1, <2>2, <2>3
  <1>18. ASSUME NEW r \in Ids, Rec!FifoError(r) PROVE Course'
    <2>1. Rec!Stop({r}, "other") /\ UNCHANGED <<at, target, writer>> BY <1>18 DEF Rec!FifoError
    <2>2. "other" \in Rec!Reasons BY RowIs
    <2> QED BY <2>1, <2>2, StopKeepsCourse
  <1>19. CASE Rec!StopAll
    <2>1. Rec!Stop(active, "other") /\ UNCHANGED <<at, target, writer>> BY <1>19 DEF Rec!StopAll
    <2>2. "other" \in Rec!Reasons BY RowIs
    <2> QED BY <2>1, <2>2, StopKeepsCourse
  <1>20. ASSUME NEW a \in Rec!Actors, Rec!Load(a) PROVE Course'
    <2>1. UNCHANGED <<active, target, writer, overtaken>> BY <1>20 DEF Rec!Load
    <2>2. CASE Rec!Over(a, TRUE)
      BY <1>20, <2>1, <2>2, OverKeepsCourse DEF Rec!Load
    <2>3. CASE UNCHANGED <<at, stopping, why>> BY <2>1, <2>3 DEF Course, CourseOf, Early, Rec!InStart
    <2> QED BY <1>20, <2>2, <2>3, LoadIs
  <1>21. ASSUME NEW a \in Rec!Actors, Rec!Save(a) PROVE Course'
    <2>1. UNCHANGED <<active, target, writer, overtaken>> /\ job[a].st = "loaded" BY <1>21 DEF Rec!Save
    <2>2. PICK ok \in BOOLEAN : Rec!Over(a, ok) BY <1>21, SaveIs
    <2> QED BY <2>1, <2>2, OverKeepsCourse
  <1>22. ASSUME NEW a \in Rec!Actors, Rec!Unlink(a) PROVE Course'
    BY <1>22 DEF Rec!Unlink, Rec!startVars, Rec!stopVars, Rec!procVars, Rec!tmuxVars, Course, CourseOf, Early, Rec!InStart, Rec!TypeOK, Rec!Targets
  <1>23. ASSUME NEW t \in Rec!Targets, Rec!TargetEnds(t) PROVE Course'
    BY <1>23 DEF Rec!TargetEnds, Rec!Turn, Rec!startVars, Rec!stopVars, Rec!indexVars, Course, CourseOf, Early, Rec!InStart, Rec!TypeOK, Rec!Targets
  <1>24. ASSUME NEW p \in Panes, Rec!TheyPipe(p) PROVE Course'
    BY <1>24 DEF Rec!TheyPipe, Rec!Turn, Rec!startVars, Rec!stopVars, Rec!indexVars, Course, CourseOf, Early, Rec!InStart, Rec!TypeOK, Rec!Targets
  <1>25. ASSUME NEW p \in Panes, Rec!PipeBreaks(p) PROVE Course'
    BY <1>25 DEF Rec!PipeBreaks, Rec!startVars, Rec!stopVars, Rec!procVars, Rec!indexVars, Course, CourseOf, Early, Rec!InStart, Rec!TypeOK, Rec!Targets
  <1>26. CASE Rec!Die
    BY <1>26 DEF Rec!Die, Rec!tmuxVars, Course, CourseOf, Early, Rec!InStart, Rec!TypeOK, Rec!Targets
  <1>27. CASE Rec!Boot
    BY <1>27 DEF Rec!Boot, Rec!startVars, Rec!stopVars, Rec!tmuxVars, Course, CourseOf, Early, Rec!InStart, Rec!TypeOK, Rec!Targets
  <1>28. CASE Rec!SweepClone
    BY <1>28 DEF Rec!SweepClone, Rec!DestroyClone, Rec!startVars, Rec!stopVars, Rec!procVars, Rec!indexVars, Course, CourseOf, Early, Rec!InStart, Rec!TypeOK, Rec!Targets
  <1>29. CASE UNCHANGED Rec!vars
    BY <1>29 DEF Rec!vars, Rec!startVars, Rec!stopVars, Rec!procVars, Rec!tmuxVars, Rec!indexVars, Course, CourseOf, Early, Rec!InStart, Rec!TypeOK, Rec!Targets
  <1>30. ASSUME NEW r \in Ids, Rec!MakeClone(r) PROVE Course'
    BY <1>30 DEF Rec!MakeClone, Rec!stopVars, Rec!procVars, Rec!indexVars, Course, CourseOf, Early, Rec!InStart, Rec!TypeOK, Rec!Targets
  <1> QED BY <1>1, <1>2, <1>3, <1>4, <1>5, <1>6, <1>7, <1>8, <1>9, <1>10, <1>11, <1>12, <1>13, <1>14, <1>15, <1>16, <1>17, <1>18, <1>19, <1>20, <1>21, <1>22, <1>23, <1>24, <1>25, <1>26, <1>27, <1>28, <1>29, <1>30
          DEF Rec!Next, Rec!Request, Rec!StartStep, Rec!StopStep, Rec!Event, Rec!IndexStep

-----------------------------------------------------------------------------
(***************************************************************************)
(* Updates and the coroutines that wait for them.                          *)
(***************************************************************************)
\* What leaves the updates of starts, stops and the sweep alone, and starts and
\* stops that are not waiting for one.
LEMMA UpdatesKept ==
  ASSUME Updates,
         job'[Rec!Sweeper].st = job[Rec!Sweeper].st,
         \A r \in Ids :
           /\ job'[<<"put", r>>].st = job[<<"put", r>>].st
           /\ job'[<<"patch", r>>].st = job[<<"patch", r>>].st
           /\ job'[<<"put", r>>].drop = job[<<"put", r>>].drop
           /\ job'[<<"patch", r>>].drop = job[<<"patch", r>>].drop
           /\ at'[r] = "putting" <=> at[r] = "putting"
           /\ stopping'[r] = "patching" <=> stopping[r] = "patching"
  PROVE  Updates'
  BY DEF Updates

\* The same of a stop.
LEMMA StopKeepsUpdates ==
  ASSUME Rec!TypeOK, Course, Updates, NEW R, NEW reason \in Rec!Reasons, Rec!Stop(R, reason),
         UNCHANGED <<at, job>>
  PROVE  Updates'
  <1>1. ASSUME NEW r \in Ids PROVE stopping'[r] = "patching" <=> stopping[r] = "patching"
    BY StopIs DEF Rec!FirstHalt, Course, CourseOf
  <1> QED BY <1>1, UpdatesKept

\* The end of an update.
LEMMA OverKeepsUpdates ==
  ASSUME Rec!TypeOK, Updates, NEW a \in Rec!Actors, NEW ok \in BOOLEAN, Rec!Over(a, ok),
         job'[a].st \in {"idle", "unlink"}, job'[a].drop \in {{}, job[a].drop},
         job'[a].st = "unlink" => job[a].drop # {},
         \A b \in Rec!Actors \ {a} :
           /\ job'[b].drop = job[b].drop
           /\ job'[b].st = job[b].st \/ \E r \in Ids : b = <<"remove", r>>
  PROVE  Updates'
  <1>1. job'[Rec!Sweeper].st \in {"idle", "loaded", "unlink"}
    BY ActorIs, ActorsDiffer DEF Updates
  <1>2. ASSUME NEW r \in Ids
        PROVE  /\ job'[<<"put", r>>].st \in {"idle", "load", "loaded"}
               /\ job'[<<"put", r>>].drop = {}
               /\ job'[<<"put", r>>].st # "idle" <=> at'[r] = "putting"
    <2>0. <<"put", r>> \in Rec!Actors BY ActorIs
    <2>1. at'[r] = IF a = <<"put", r>> THEN IF ok THEN "running" ELSE "done" ELSE at[r] BY OverIs
    <2>2. CASE a = <<"put", r>> BY <2>1, <2>2 DEF Updates
    <2>3. CASE a # <<"put", r>>
      <3>1. \A q \in Ids : <<"put", r>> # <<"remove", q>> BY ActorsDiffer
      <3> QED BY <2>0, <2>1, <2>3, <3>1 DEF Updates
    <2> QED BY <2>2, <2>3
  <1>3. ASSUME NEW r \in Ids
        PROVE  /\ job'[<<"patch", r>>].st \in {"idle", "load", "loaded"}
               /\ job'[<<"patch", r>>].drop = {}
               /\ job'[<<"patch", r>>].st # "idle" <=> stopping'[r] = "patching"
    <2>0. <<"patch", r>> \in Rec!Actors BY ActorIs
    <2>1. stopping'[r] = IF a = <<"patch", r>> THEN "idle" ELSE stopping[r] BY OverIs
    <2>2. CASE a = <<"patch", r>> BY <2>1, <2>2 DEF Updates
    <2>3. CASE a # <<"patch", r>>
      <3>1. \A q \in Ids : <<"patch", r>> # <<"remove", q>> BY ActorsDiffer
      <3> QED BY <2>0, <2>1, <2>3, <3>1 DEF Updates
    <2> QED BY <2>2, <2>3
  <1> QED BY <1>1, <1>2, <1>3 DEF Updates

\* The end of a stop reads the index.
LEMMA CloseKeepsUpdates ==
  ASSUME Rec!TypeOK, Course, Updates, NEW r \in Ids, Rec!Close(r),
         stopping[r] \in {"unpiping", "uncloning", "closing"}
  PROVE  Updates'
  <1>0. stopping[r] # "idle" /\ UNCHANGED at BY DEF Rec!Close
  <1>1. /\ job'[<<"patch", r>>].st = "load" /\ stopping'[r] = "patching"
        /\ \A b \in Rec!Actors : /\ b # <<"patch", r>> => job'[b] = job[b]
                             /\ job'[b].drop = job[b].drop
        /\ \A q \in Ids \ {r} : stopping'[q] = stopping[q]
    BY <1>0, CloseIs
  <1>2. job'[Rec!Sweeper].st = job[Rec!Sweeper].st BY <1>1, ActorIs, ActorsDiffer
  <1>3. ASSUME NEW q \in Ids PROVE job'[<<"put", q>>] = job[<<"put", q>>]
    BY <1>1, ActorIs, ActorsDiffer
  <1>4. ASSUME NEW q \in Ids, q # r
        PROVE  job'[<<"patch", q>>] = job[<<"patch", q>>] /\ stopping'[q] = stopping[q]
    <2>1. <<"patch", q>> # <<"patch", r>> /\ <<"patch", q>> \in Rec!Actors
      BY <1>4, ActorIs, ActorsDiffer
    <2> QED BY <1>1, <1>4, <2>1
  <1>5. job'[<<"patch", r>>].drop = job[<<"patch", r>>].drop BY <1>1, ActorIs
  <1> QED BY <1>0, <1>1, <1>2, <1>3, <1>4, <1>5 DEF Updates

\* A start goes on to the index.
LEMMA PutKeepsUpdates ==
  ASSUME Rec!TypeOK, Updates, NEW r \in Ids, job' = [job EXCEPT ![<<"put", r>>].st = "load"],
         at' = [at EXCEPT ![r] = "putting"], UNCHANGED stopping
  PROVE  Updates'
  <1>1. /\ job'[<<"put", r>>].st = "load"
        /\ \A b \in Rec!Actors : /\ b # <<"put", r>> => job'[b] = job[b]
                             /\ job'[b].drop = job[b].drop
    BY PutIs
  <1>0. at'[r] = "putting" /\ \A q \in Ids \ {r} : at'[q] = at[q] BY DEF Rec!TypeOK
  <1>2. job'[Rec!Sweeper].st = job[Rec!Sweeper].st BY <1>1, ActorIs, ActorsDiffer
  <1>3. ASSUME NEW q \in Ids PROVE job'[<<"patch", q>>] = job[<<"patch", q>>]
    BY <1>1, ActorIs, ActorsDiffer
  <1>4. ASSUME NEW q \in Ids, q # r
        PROVE  job'[<<"put", q>>] = job[<<"put", q>>] /\ at'[q] = at[q]
    <2>1. <<"put", q>> # <<"put", r>> /\ <<"put", q>> \in Rec!Actors
      BY <1>4, ActorIs, ActorsDiffer
    <2> QED BY <1>0, <1>1, <1>4, <2>1
  <1>5. job'[<<"put", r>>].drop = job[<<"put", r>>].drop BY <1>1, ActorIs
  <1> QED BY <1>0, <1>1, <1>2, <1>3, <1>4, <1>5 DEF Updates

\* Every step of the recorder.
LEMMA UpdatesStep ==
  ASSUME Rec!TypeOK, Course, Updates, [Rec!Next]_Rec!vars
  PROVE  Updates'
  <1>1. ASSUME NEW r \in Ids, NEW t \in Rec!Targets, Rec!Start(r, t) PROVE Updates'
    <2>1. UNCHANGED <<job, stopping>> /\ \A q \in Ids : at'[q] = "putting" <=> at[q] = "putting"
      BY <1>1 DEF Rec!Start, Rec!stopVars, Rec!indexVars, Rec!TypeOK
    <2> QED BY <2>1, UpdatesKept
  <1>2. ASSUME NEW r \in Ids, Rec!RequestStop(r) PROVE Updates'
    <2>1. Rec!Stop({r}, "other") /\ UNCHANGED <<at, job>> BY <1>2 DEF Rec!RequestStop, Rec!indexVars
    <2>2. "other" \in Rec!Reasons BY RowIs
    <2> QED BY <2>1, <2>2, StopKeepsUpdates
  <1>3. ASSUME NEW r \in Ids, NEW first \in BOOLEAN, Rec!Delete(r, first) PROVE Updates'
    <2>1. UNCHANGED at BY <1>3 DEF Rec!Delete
    <2>2. ASSUME NEW q \in Ids PROVE stopping'[q] = "patching" <=> stopping[q] = "patching"
      <3>1. "other" \in Rec!Reasons BY RowIs
      <3>2. CASE Rec!Stop({r}, "other") BY <3>1, <3>2, StopIs DEF Rec!FirstHalt, Course, CourseOf
      <3>3. CASE UNCHANGED Rec!stopVars BY <3>3 DEF Rec!stopVars
      <3> QED BY <1>3, <3>2, <3>3, DeleteIs
    <2>3. \A b \in Rec!Actors : b # <<"remove", r>> => job'[b] = job[b] BY <1>3, DeleteIs
    <2>4. \A q \in Ids : job'[<<"put", q>>] = job[<<"put", q>>] /\ job'[<<"patch", q>>] = job[<<"patch", q>>]
      BY <2>3, ActorIs, ActorsDiffer
    <2>5. job'[Rec!Sweeper] = job[Rec!Sweeper] BY <2>3, ActorIs, ActorsDiffer
    <2> QED BY <2>1, <2>2, <2>4, <2>5, UpdatesKept
  <1>4. ASSUME NEW r \in Ids, Rec!StartRefused(r) PROVE Updates'
    <2>1. UNCHANGED <<job, stopping>> /\ \A q \in Ids : at'[q] = "putting" <=> at[q] = "putting"
      BY <1>4 DEF Rec!StartRefused, Rec!stopVars, Rec!indexVars, Rec!TypeOK
    <2> QED BY <2>1, UpdatesKept
  <1>5. ASSUME NEW r \in Ids, Rec!Announce(r) PROVE Updates'
    <2>1. UNCHANGED <<job, stopping>> /\ \A q \in Ids : at'[q] = "putting" <=> at[q] = "putting"
      BY <1>5 DEF Rec!Announce, Rec!stopVars, Rec!indexVars, Rec!TypeOK
    <2> QED BY <2>1, UpdatesKept
  <1>6. ASSUME NEW r \in Ids, Rec!Attach(r) PROVE Updates'
    BY <1>6, PutKeepsUpdates DEF Rec!Attach, Rec!stopVars
  <1>7. ASSUME NEW r \in Ids, Rec!AttachFails(r) PROVE Updates'
    <2>1. UNCHANGED <<job, stopping>> /\ \A q \in Ids : at'[q] = "putting" <=> at[q] = "putting"
      BY <1>7 DEF Rec!AttachFails, Rec!Fail, Rec!stopVars, Rec!indexVars, Rec!TypeOK
    <2> QED BY <2>1, UpdatesKept
  <1>8. ASSUME NEW r \in Ids, Rec!MakeFifo(r) PROVE Updates'
    <2>1. UNCHANGED <<job, stopping>> /\ \A q \in Ids : at'[q] = "putting" <=> at[q] = "putting"
      BY <1>8 DEF Rec!MakeFifo, Rec!stopVars, Rec!indexVars, Rec!TypeOK
    <2> QED BY <2>1, UpdatesKept
  <1>9. ASSUME NEW r \in Ids, Rec!NoFifo(r) PROVE Updates'
    <2>1. UNCHANGED <<job, stopping>> /\ \A q \in Ids : at'[q] = "putting" <=> at[q] = "putting"
      BY <1>9 DEF Rec!NoFifo, Rec!Fail, Rec!stopVars, Rec!indexVars, Rec!TypeOK
    <2> QED BY <2>1, UpdatesKept
  <1>10. ASSUME NEW r \in Ids, Rec!PipePane(r) PROVE Updates'
    BY <1>10, PutKeepsUpdates DEF Rec!PipePane, Rec!stopVars
  <1>11. ASSUME NEW r \in Ids, Rec!PipeFails(r) PROVE Updates'
    <2>1. UNCHANGED <<job, stopping>> /\ \A q \in Ids : at'[q] = "putting" <=> at[q] = "putting"
      BY <1>11 DEF Rec!PipeFails, Rec!Fail, Rec!UnlinkFifo, Rec!stopVars, Rec!indexVars, Rec!TypeOK
    <2> QED BY <2>1, UpdatesKept
  <1>12. ASSUME NEW r \in Ids, Rec!Unpipe(r) PROVE Updates'
    <2>1. Rec!Close(r) /\ stopping[r] \in {"unpiping", "uncloning", "closing"} BY <1>12 DEF Rec!Unpipe
    <2> QED BY <2>1, CloseKeepsUpdates
  <1>13. ASSUME NEW r \in Ids, Rec!Unclone(r) PROVE Updates'
    <2>1. Rec!Close(r) /\ stopping[r] \in {"unpiping", "uncloning", "closing"} BY <1>13 DEF Rec!Unclone
    <2> QED BY <2>1, CloseKeepsUpdates
  <1>14. ASSUME NEW r \in Ids, Rec!CloseAtOnce(r) PROVE Updates'
    <2>1. Rec!Close(r) /\ stopping[r] \in {"unpiping", "uncloning", "closing"} BY <1>14 DEF Rec!CloseAtOnce
    <2> QED BY <2>1, CloseKeepsUpdates
  <1>15. ASSUME NEW r \in Ids, Rec!Ready(r) PROVE Updates'
    BY <1>15, UpdatesKept DEF Rec!Ready, Rec!stopVars, Rec!indexVars
  <1>16. ASSUME NEW r \in Ids, Rec!HitLimit(r) PROVE Updates'
    <2>1. Rec!Stop({r}, "limit") /\ UNCHANGED <<at, job>> BY <1>16 DEF Rec!HitLimit, Rec!indexVars
    <2>2. "limit" \in Rec!Reasons BY RowIs
    <2> QED BY <2>1, <2>2, StopKeepsUpdates
  <1>17. ASSUME NEW r \in Ids, Rec!PtyExits(r) PROVE Updates'
    <2>1. UNCHANGED <<at, job>> /\ (Rec!Stop({r}, "other") \/ UNCHANGED stopping)
      BY <1>17 DEF Rec!PtyExits, Rec!indexVars, Rec!stopVars
    <2>2. "other" \in Rec!Reasons BY RowIs
    <2> QED BY <2>1, <2>2, StopKeepsUpdates, UpdatesKept
  <1>18. ASSUME NEW r \in Ids, Rec!FifoError(r) PROVE Updates'
    <2>1. Rec!Stop({r}, "other") /\ UNCHANGED <<at, job>> BY <1>18 DEF Rec!FifoError, Rec!indexVars
    <2>2. "other" \in Rec!Reasons BY RowIs
    <2> QED BY <2>1, <2>2, StopKeepsUpdates
  <1>19. CASE Rec!StopAll
    <2>1. Rec!Stop(active, "other") /\ UNCHANGED <<at, job>> BY <1>19 DEF Rec!StopAll, Rec!indexVars
    <2>2. "other" \in Rec!Reasons BY RowIs
    <2> QED BY <2>1, <2>2, StopKeepsUpdates
  <1>20. ASSUME NEW a \in Rec!Actors, Rec!Load(a) PROVE Updates'
    <2>0. job[a].st = "load" BY <1>20 DEF Rec!Load
    <2>1. CASE Rec!NothingToDo(a)
      <3>1. /\ Rec!Over(a, TRUE) /\ job'[a].st = "idle" /\ job'[a].drop = {}
            /\ \A b \in Rec!Actors \ {a} :
                 /\ job'[b].drop = job[b].drop
                 /\ job'[b].st = job[b].st \/ \E r \in Ids : b = <<"remove", r>>
        BY <1>20, <2>1, LoadIs
      <3> QED BY <3>1, OverKeepsUpdates
    <2>2. CASE ~Rec!NothingToDo(a)
      <3>0. /\ UNCHANGED <<at, stopping>> /\ job' = Rec!Begun(a) BY <1>20, <2>2, LoadIs
      <3>1. \A r \in Ids : a = <<"patch", r>> => why[r] \in Rec!Reasons BY <2>0, PatchKnows
      <3>2. /\ job'[a].st = "loaded" /\ job'[a].drop = Rec!Dropped(a)
            /\ \A b \in Rec!Actors \ {a} : job'[b].st = job[b].st /\ job'[b].drop = job[b].drop
        BY <3>0, <3>1, BegunIs
      <3>3. \A q \in Ids : a = <<"put", q>> \/ a = <<"patch", q>> => Rec!Dropped(a) = {}
        BY <3>1, UpdatedType
      <3>4. job'[Rec!Sweeper].st \in {"idle", "loaded", "unlink"} BY <3>2, ActorIs DEF Updates
      <3>5. ASSUME NEW q \in Ids, NEW b \in {<<"put", q>>, <<"patch", q>>}
            PROVE  /\ job'[b].drop = {} /\ job'[b].st \in {"idle", "load", "loaded"}
                   /\ job'[b].st = "idle" <=> job[b].st = "idle"
        <4>0. b \in Rec!Actors BY ActorIs
        <4>1. CASE b = a BY <2>0, <3>2, <3>3, <4>1
        <4>2. CASE b # a
          <5>1. job'[b].st = job[b].st /\ job'[b].drop = job[b].drop BY <3>2, <4>0, <4>2
          <5>2. job[b].drop = {} /\ job[b].st \in {"idle", "load", "loaded"} BY DEF Updates
          <5> QED BY <5>1, <5>2
        <4> QED BY <4>1, <4>2
      <3> QED BY <3>0, <3>4, <3>5 DEF Updates
    <2> QED BY <2>1, <2>2
  <1>21. ASSUME NEW a \in Rec!Actors, Rec!Save(a) PROVE Updates'
    <2>1. PICK ok \in BOOLEAN :
            /\ Rec!Over(a, ok)
            /\ \/ job'[a].st = "idle" /\ job'[a].new = Rec!NoRows /\ job'[a].drop = {}
               \/ job'[a].st = "unlink" /\ job'[a].new = job[a].new /\ job'[a].drop = job[a].drop
                  /\ job[a].drop # {}
            /\ \A b \in Rec!Actors \ {a} :
                 /\ job'[b].drop = job[b].drop
                 /\ job'[b].st = job[b].st \/ \E r \in Ids : b = <<"remove", r>>
      BY <1>21, SaveIs
    <2> QED BY <2>1, OverKeepsUpdates
  <1>22. ASSUME NEW a \in Rec!Actors, Rec!Unlink(a) PROVE Updates'
    <2>1. UNCHANGED <<at, stopping>> /\ job[a].st = "unlink" /\ job' = [job EXCEPT ![a] = Rec!Idle]
      BY <1>22 DEF Rec!Unlink, Rec!startVars, Rec!stopVars
    <2>2. job'[a] = Rec!Idle /\ \A b \in Rec!Actors : b # a => job'[b] = job[b]
      BY <2>1, SetJob, JobsType, IdleIs
    <2>3. \A q \in Ids : a # <<"put", q>> /\ a # <<"patch", q>> BY <2>1 DEF Updates
    <2>4. \A q \in Ids : job'[<<"put", q>>] = job[<<"put", q>>] /\ job'[<<"patch", q>>] = job[<<"patch", q>>]
      BY <2>2, <2>3, ActorIs
    <2>5. job'[Rec!Sweeper].st \in {"idle", "loaded", "unlink"} BY <2>2, IdleIs, ActorIs DEF Updates
    <2> QED BY <2>1, <2>4, <2>5 DEF Updates
  <1>23. ASSUME NEW t \in Rec!Targets, Rec!TargetEnds(t) PROVE Updates'
    BY <1>23, UpdatesKept DEF Rec!TargetEnds, Rec!startVars, Rec!stopVars, Rec!indexVars
  <1>24. ASSUME NEW p \in Panes, Rec!TheyPipe(p) PROVE Updates'
    BY <1>24, UpdatesKept DEF Rec!TheyPipe, Rec!startVars, Rec!stopVars, Rec!indexVars
  <1>25. ASSUME NEW p \in Panes, Rec!PipeBreaks(p) PROVE Updates'
    BY <1>25, UpdatesKept DEF Rec!PipeBreaks, Rec!startVars, Rec!stopVars, Rec!indexVars
  <1>26. CASE Rec!Die
    <2>1. \A a \in Rec!Actors : job'[a] = Rec!Idle BY <1>26 DEF Rec!Die
    <2>2. \A r \in Ids : at'[r] # "putting" /\ stopping'[r] # "patching" BY <1>26 DEF Rec!Die
    <2> QED BY <2>1, <2>2, ActorIs, IdleIs DEF Updates
  <1>27. CASE Rec!Boot
    <2>1. UNCHANGED <<at, stopping>> BY <1>27 DEF Rec!Boot, Rec!startVars, Rec!stopVars
    <2>2. CASE job' = job BY <2>1, <2>2, UpdatesKept
    <2>3. CASE job' = Rec!Begun(Rec!Sweeper)
      <3>1. \A r \in Ids : Rec!Sweeper # <<"patch", r>> /\ Rec!Sweeper # <<"put", r>> BY ActorsDiffer
      <3>2. /\ job'[Rec!Sweeper].st = "loaded"
            /\ \A b \in Rec!Actors \ {Rec!Sweeper} : job'[b].st = job[b].st /\ job'[b].drop = job[b].drop
        BY <2>3, <3>1, ActorIs, BegunIs
      <3>3. ASSUME NEW q \in Ids, NEW b \in {<<"put", q>>, <<"patch", q>>}
            PROVE  job'[b].st = job[b].st /\ job'[b].drop = job[b].drop
        BY <3>1, <3>2, ActorIs
      <3> QED BY <2>1, <3>2, <3>3 DEF Updates
    <2> QED BY <1>27, <2>2, <2>3 DEF Rec!Boot
  <1>28. CASE Rec!SweepClone
    BY <1>28, UpdatesKept DEF Rec!SweepClone, Rec!startVars, Rec!stopVars, Rec!indexVars
  <1>29. CASE UNCHANGED Rec!vars
    BY <1>29, UpdatesKept DEF Rec!vars, Rec!startVars, Rec!stopVars, Rec!indexVars
  <1>30. ASSUME NEW r \in Ids, Rec!MakeClone(r) PROVE Updates'
    <2>1. UNCHANGED <<job, stopping>> /\ \A q \in Ids : at'[q] = "putting" <=> at[q] = "putting"
      BY <1>30 DEF Rec!MakeClone, Rec!stopVars, Rec!indexVars, Rec!TypeOK
    <2> QED BY <2>1, UpdatesKept
  <1> QED BY <1>1, <1>2, <1>3, <1>4, <1>5, <1>6, <1>7, <1>8, <1>9, <1>10, <1>11, <1>12, <1>13, <1>14, <1>15, <1>16, <1>17, <1>18, <1>19, <1>20, <1>21, <1>22, <1>23, <1>24, <1>25, <1>26, <1>27, <1>28, <1>29, <1>30
          DEF Rec!Next, Rec!Request, Rec!StartStep, Rec!StopStep, Rec!Event, Rec!IndexStep

-----------------------------------------------------------------------------
(***************************************************************************)
(* Processes.                                                              *)
(***************************************************************************)
\* While no process is up nothing of one goes on.
LEMMA Down ==
  ASSUME Rec!TypeOK, Course, Processes, Held, ~up
  PROVE  /\ active = {} /\ orphans = {} /\ \A a \in Rec!Actors : job[a].st = "idle"
         /\ \A r \in Ids : /\ at[r] \in {"idle", "done"} /\ stopping[r] = "idle"
                            /\ bridge[r] \notin {"fresh", "ready"} /\ ~reading[r]
  <1>1. active = {} /\ orphans = {} /\ \A a \in Rec!Actors : job[a].st = "idle"
    BY IdleIs DEF Processes
  <1>2. ASSUME NEW r \in Ids
        PROVE  /\ at[r] \in {"idle", "done"} /\ stopping[r] = "idle"
               /\ bridge[r] \notin {"fresh", "ready"} /\ ~reading[r]
    <2>1. CASE r \in old BY <2>1 DEF Processes
    <2>2. CASE r \notin old
      <3>1. at[r] = "idle" BY <2>2 DEF Processes
      <3>2. r \notin overtaken /\ stopping[r] = "idle" BY <3>1 DEF Course, CourseOf, Early
      <3>3. ~Rec!Holds(r) BY <2>2, <3>1, <3>2 DEF Held, HeldBy
      <3> QED BY <3>1, <3>2, <3>3 DEF Rec!Holds
    <2> QED BY <2>1, <2>2
  <1> QED BY <1>1, <1>2

\* A step of a process that leaves the recordings of earlier ones alone.
LEMMA ProcessesKept ==
  ASSUME Processes, up', UNCHANGED old,
         \A q \in old :
           /\ at'[q] = at[q] /\ (q \in active' => q \in active)
           /\ q \in overtaken' => q \in overtaken
           /\ stopping'[q] = stopping[q] /\ bridge'[q] = bridge[q]
           /\ reading'[q] => reading[q]
  PROVE  Processes'
  BY DEF Processes

\* A stop leaves them alone.
LEMMA StopSparesOld ==
  ASSUME Rec!TypeOK, Processes, NEW R, NEW reason \in Rec!Reasons, Rec!Stop(R, reason), NEW q \in old
  PROVE  /\ q \in active' => q \in active
         /\ q \in overtaken' => q \in overtaken
         /\ stopping'[q] = stopping[q]
         /\ Rec!Killed(R)[q] = bridge[q]
  <1>1. q \in Ids /\ q \notin active BY DEF Processes, Rec!TypeOK
  <1> QED BY <1>1, StopIs, KilledIs

\* Every step of the recorder.
LEMMA ProcessesStep ==
  ASSUME Rec!TypeOK, Course, Updates, Processes, Held, [Rec!Next]_Rec!vars
  PROVE  Processes'
  <1>1. ASSUME NEW r \in Ids, NEW t \in Rec!Targets, Rec!Start(r, t) PROVE Processes'
    <2>1. at[r] # "done" /\ up BY <1>1, Down DEF Rec!Start
    <2>2. up' /\ UNCHANGED old BY <1>1, <2>1 DEF Rec!Start, Rec!procVars
    <2>3. \A q \in old : q \in Ids /\ q # r BY <2>1 DEF Processes, Rec!TypeOK
    <2> QED BY <1>1, <2>2, <2>3, ProcessesKept DEF Rec!Start, Rec!stopVars, Rec!TypeOK
  <1>2. ASSUME NEW r \in Ids, Rec!RequestStop(r) PROVE Processes'
    <2>1. Rec!Stop({r}, "other") /\ bridge' = Rec!Killed({r}) /\ UNCHANGED <<at, reading>>
      BY <1>2 DEF Rec!RequestStop
    <2>2. up' /\ UNCHANGED old BY <1>2, Down DEF Rec!RequestStop, Rec!procVars
    <2>3. "other" \in Rec!Reasons BY RowIs
    <2> QED BY <2>1, <2>2, <2>3, StopSparesOld, ProcessesKept
  <1>3. ASSUME NEW r \in Ids, NEW first \in BOOLEAN, Rec!Delete(r, first) PROVE Processes'
    <2>1. UNCHANGED <<at, reading>> BY <1>3 DEF Rec!Delete
    <2>2. up' /\ UNCHANGED old BY <1>3 DEF Rec!Delete, Rec!Turn
    <2>3. "other" \in Rec!Reasons BY RowIs
    <2>4. CASE Rec!Stop({r}, "other") /\ bridge' = Rec!Killed({r})
      BY <2>1, <2>2, <2>3, <2>4, StopSparesOld, ProcessesKept
    <2>5. CASE UNCHANGED <<active, bridge, Rec!stopVars>>
      BY <2>1, <2>2, <2>5, ProcessesKept DEF Rec!stopVars
    <2> QED BY <1>3, <2>4, <2>5, DeleteIs
  <1>4. ASSUME NEW r \in Ids, Rec!StartRefused(r) PROVE Processes'
    <2>1. at[r] # "done" /\ up BY <1>4, Down DEF Rec!StartRefused
    <2>2. up' /\ UNCHANGED old BY <1>4, <2>1 DEF Rec!StartRefused, Rec!procVars
    <2>3. \A q \in old : q \in Ids /\ q # r BY <2>1 DEF Processes, Rec!TypeOK
    <2> QED BY <1>4, <2>2, <2>3, ProcessesKept DEF Rec!StartRefused, Rec!stopVars, Rec!TypeOK
  <1>5. ASSUME NEW r \in Ids, Rec!Announce(r) PROVE Processes'
    <2>1. at[r] # "done" /\ up BY <1>5, Down DEF Rec!Announce
    <2>2. up' /\ UNCHANGED old BY <1>5, <2>1 DEF Rec!Announce, Rec!procVars
    <2>3. \A q \in old : q \in Ids /\ q # r BY <2>1 DEF Processes, Rec!TypeOK
    <2> QED BY <1>5, <2>2, <2>3, ProcessesKept DEF Rec!Announce, Rec!stopVars, Rec!TypeOK
  <1>6. ASSUME NEW r \in Ids, Rec!Attach(r) PROVE Processes'
    <2>1. at[r] # "done" /\ up BY <1>6, Down DEF Rec!Attach
    <2>2. up' /\ UNCHANGED old BY <1>6, <2>1 DEF Rec!Attach, Rec!procVars
    <2>3. \A q \in old : q \in Ids /\ q # r BY <2>1 DEF Processes, Rec!TypeOK
    <2> QED BY <1>6, <2>2, <2>3, ProcessesKept DEF Rec!Attach, Rec!stopVars, Rec!TypeOK
  <1>7. ASSUME NEW r \in Ids, Rec!AttachFails(r) PROVE Processes'
    <2>1. at[r] # "done" /\ up BY <1>7, Down DEF Rec!AttachFails
    <2>2. up' /\ UNCHANGED old BY <1>7, <2>1 DEF Rec!AttachFails, Rec!Fail, Rec!procVars
    <2>3. \A q \in old : q \in Ids /\ q # r BY <2>1 DEF Processes, Rec!TypeOK
    <2> QED BY <1>7, <2>2, <2>3, ProcessesKept DEF Rec!AttachFails, Rec!Fail, Rec!stopVars, Rec!TypeOK
  <1>8. ASSUME NEW r \in Ids, Rec!MakeFifo(r) PROVE Processes'
    <2>1. at[r] # "done" /\ up BY <1>8, Down DEF Rec!MakeFifo
    <2>2. up' /\ UNCHANGED old BY <1>8, <2>1 DEF Rec!MakeFifo, Rec!procVars
    <2>3. \A q \in old : q \in Ids /\ q # r BY <2>1 DEF Processes, Rec!TypeOK
    <2> QED BY <1>8, <2>2, <2>3, ProcessesKept DEF Rec!MakeFifo, Rec!stopVars, Rec!TypeOK
  <1>9. ASSUME NEW r \in Ids, Rec!NoFifo(r) PROVE Processes'
    <2>1. at[r] # "done" /\ up BY <1>9, Down DEF Rec!NoFifo
    <2>2. up' /\ UNCHANGED old BY <1>9, <2>1 DEF Rec!NoFifo, Rec!Fail, Rec!procVars
    <2>3. \A q \in old : q \in Ids /\ q # r BY <2>1 DEF Processes, Rec!TypeOK
    <2> QED BY <1>9, <2>2, <2>3, ProcessesKept DEF Rec!NoFifo, Rec!Fail, Rec!stopVars, Rec!TypeOK
  <1>10. ASSUME NEW r \in Ids, Rec!PipePane(r) PROVE Processes'
    <2>1. at[r] # "done" /\ up BY <1>10, Down DEF Rec!PipePane
    <2>2. up' /\ UNCHANGED old BY <1>10, <2>1 DEF Rec!PipePane, Rec!procVars
    <2>3. \A q \in old : q \in Ids /\ q # r BY <2>1 DEF Processes, Rec!TypeOK
    <2> QED BY <1>10, <2>2, <2>3, ProcessesKept DEF Rec!PipePane, Rec!stopVars, Rec!TypeOK
  <1>11. ASSUME NEW r \in Ids, Rec!PipeFails(r) PROVE Processes'
    <2>1. at[r] # "done" /\ up BY <1>11, Down DEF Rec!PipeFails
    <2>2. up' /\ UNCHANGED old BY <1>11, <2>1 DEF Rec!PipeFails, Rec!Fail, Rec!procVars
    <2>3. \A q \in old : q \in Ids /\ q # r BY <2>1 DEF Processes, Rec!TypeOK
    <2> QED BY <1>11, <2>2, <2>3, ProcessesKept DEF Rec!PipeFails, Rec!Fail, Rec!UnlinkFifo, Rec!stopVars, Rec!TypeOK
  <1>12. ASSUME NEW r \in Ids, Rec!Unpipe(r) PROVE Processes'
    <2>1. Rec!Close(r) /\ stopping[r] # "idle" /\ up BY <1>12, Down DEF Rec!Unpipe
    <2>2. up' /\ UNCHANGED <<old, active, at, overtaken, bridge>> BY <2>1 DEF Rec!Close, Rec!procVars
    <2>3. \A q \in old : q \in Ids /\ q # r BY <2>1 DEF Processes, Rec!TypeOK
    <2>4. \A q \in old : stopping'[q] = stopping[q] BY <2>1, <2>3, CloseIs
    <2>5. \A q \in old : reading'[q] = reading[q] BY <1>12, <2>3 DEF Rec!Unpipe, Rec!TypeOK
    <2> QED BY <2>2, <2>4, <2>5, ProcessesKept
  <1>13. ASSUME NEW r \in Ids, Rec!Unclone(r) PROVE Processes'
    <2>1. Rec!Close(r) /\ stopping[r] # "idle" /\ up BY <1>13, Down DEF Rec!Unclone
    <2>2. up' /\ UNCHANGED <<old, active, at, overtaken, bridge>> BY <2>1 DEF Rec!Close, Rec!procVars
    <2>3. \A q \in old : q \in Ids /\ q # r BY <2>1 DEF Processes, Rec!TypeOK
    <2>4. \A q \in old : stopping'[q] = stopping[q] BY <2>1, <2>3, CloseIs
    <2>5. \A q \in old : reading'[q] = reading[q] BY <1>13, <2>3 DEF Rec!Unclone, Rec!TypeOK
    <2> QED BY <2>2, <2>4, <2>5, ProcessesKept
  <1>14. ASSUME NEW r \in Ids, Rec!CloseAtOnce(r) PROVE Processes'
    <2>1. Rec!Close(r) /\ stopping[r] # "idle" /\ up BY <1>14, Down DEF Rec!CloseAtOnce
    <2>2. up' /\ UNCHANGED <<old, active, at, overtaken, bridge>> BY <2>1 DEF Rec!Close, Rec!procVars
    <2>3. \A q \in old : q \in Ids /\ q # r BY <2>1 DEF Processes, Rec!TypeOK
    <2>4. \A q \in old : stopping'[q] = stopping[q] BY <2>1, <2>3, CloseIs
    <2>5. \A q \in old : reading'[q] = reading[q] BY <1>14, <2>3 DEF Rec!CloseAtOnce, Rec!TypeOK
    <2> QED BY <2>2, <2>4, <2>5, ProcessesKept
  <1>15. ASSUME NEW r \in Ids, Rec!Ready(r) PROVE Processes'
    <2>1. UNCHANGED <<at, active, overtaken, stopping, reading>> /\ bridge[r] # "none"
          /\ bridge' = [bridge EXCEPT ![r] = "ready"]
      BY <1>15 DEF Rec!Ready, Rec!stopVars
    <2>2. up' /\ UNCHANGED old BY <1>15, Down DEF Rec!Ready, Rec!procVars
    <2>3. \A q \in old : q \in Ids /\ bridge'[q] = bridge[q] BY <2>1 DEF Rec!TypeOK, Processes
    <2> QED BY <2>1, <2>2, <2>3, ProcessesKept
  <1>16. ASSUME NEW r \in Ids, Rec!HitLimit(r) PROVE Processes'
    <2>1. Rec!Stop({r}, "limit") /\ bridge' = Rec!Killed({r}) /\ UNCHANGED <<at, reading>>
      BY <1>16 DEF Rec!HitLimit
    <2>2. up' /\ UNCHANGED old BY <1>16, Down DEF Rec!HitLimit, Rec!procVars, Rec!Feeds
    <2>3. "limit" \in Rec!Reasons BY RowIs
    <2> QED BY <2>1, <2>2, <2>3, StopSparesOld, ProcessesKept
  <1>17. ASSUME NEW r \in Ids, Rec!PtyExits(r) PROVE Processes'
    <2>1. UNCHANGED <<at, reading>> /\ (Rec!Stop({r}, "other") \/ UNCHANGED <<active, Rec!stopVars>>)
          /\ bridge[r] # "none" /\ bridge' = [bridge EXCEPT ![r] = "dead"]
      BY <1>17 DEF Rec!PtyExits
    <2>2. up' /\ UNCHANGED old BY <1>17, Down DEF Rec!PtyExits, Rec!procVars
    <2>3. "other" \in Rec!Reasons BY RowIs
    <2>4. \A q \in old : q \in Ids /\ bridge'[q] = bridge[q] BY <2>1 DEF Rec!TypeOK, Processes
    <2> QED BY <2>1, <2>2, <2>3, <2>4, StopSparesOld, ProcessesKept DEF Rec!stopVars
  <1>18. ASSUME NEW r \in Ids, Rec!FifoError(r) PROVE Processes'
    <2>1. Rec!Stop({r}, "other") /\ UNCHANGED <<at, bridge>> /\ reading' = [reading EXCEPT ![r] = FALSE]
      BY <1>18 DEF Rec!FifoError
    <2>2. up' /\ UNCHANGED old BY <1>18, Down DEF Rec!FifoError, Rec!Turn
    <2>3. "other" \in Rec!Reasons BY RowIs
    <2>4. \A q \in old : reading'[q] => reading[q] BY <2>1 DEF Rec!TypeOK
    <2> QED BY <2>1, <2>2, <2>3, <2>4, StopSparesOld, ProcessesKept
  <1>19. CASE Rec!StopAll
    <2>1. Rec!Stop(active, "other") /\ bridge' = Rec!Killed(active) /\ UNCHANGED <<at, reading>>
      BY <1>19 DEF Rec!StopAll
    <2>2. up' /\ UNCHANGED old BY <1>19, Down DEF Rec!StopAll, Rec!procVars
    <2>3. "other" \in Rec!Reasons BY RowIs
    <2> QED BY <2>1, <2>2, <2>3, StopSparesOld, ProcessesKept
  <1>20. ASSUME NEW a \in Rec!Actors, Rec!Load(a) PROVE Processes'
    <2>1. UNCHANGED <<active, overtaken, bridge, reading, old>> /\ job[a].st = "load"
      BY <1>20 DEF Rec!Load, Rec!procVars
    <2>2. up' BY <1>20, <2>1, Down DEF Rec!Load, Rec!procVars
    <2>3. (\E ok \in BOOLEAN : Rec!Over(a, ok)) \/ UNCHANGED <<at, stopping>> BY <1>20, LoadIs
    <2>4. ASSUME NEW q \in old PROVE at'[q] = at[q] /\ stopping'[q] = stopping[q]
      <3>1. q \in Ids /\ at[q] # "putting" /\ stopping[q] # "patching" BY DEF Processes, Rec!TypeOK
      <3>2. a # <<"put", q>> /\ a # <<"patch", q>> BY <2>1, <3>1 DEF Updates
      <3> QED BY <2>3, <3>1, <3>2, OverIs
    <2> QED BY <2>1, <2>2, <2>4, ProcessesKept
  <1>21. ASSUME NEW a \in Rec!Actors, Rec!Save(a) PROVE Processes'
    <2>1. UNCHANGED <<active, overtaken, bridge, reading, old>> /\ job[a].st = "loaded"
      BY <1>21 DEF Rec!Save, Rec!procVars
    <2>2. up' BY <1>21, <2>1, Down DEF Rec!Save, Rec!procVars
    <2>3. (\E ok \in BOOLEAN : Rec!Over(a, ok)) \/ UNCHANGED <<at, stopping>> BY <1>21, SaveIs
    <2>4. ASSUME NEW q \in old PROVE at'[q] = at[q] /\ stopping'[q] = stopping[q]
      <3>1. q \in Ids /\ at[q] # "putting" /\ stopping[q] # "patching" BY DEF Processes, Rec!TypeOK
      <3>2. a # <<"put", q>> /\ a # <<"patch", q>> BY <2>1, <3>1 DEF Updates
      <3> QED BY <2>3, <3>1, <3>2, OverIs
    <2> QED BY <2>1, <2>2, <2>4, ProcessesKept
  <1>22. ASSUME NEW a \in Rec!Actors, Rec!Unlink(a) PROVE Processes'
    <2>1. UNCHANGED <<at, stopping, active, overtaken, bridge, reading, old, up>> /\ job[a].st = "unlink"
      BY <1>22 DEF Rec!Unlink, Rec!startVars, Rec!stopVars, Rec!procVars
    <2>2. up' BY <2>1, Down
    <2> QED BY <2>1, <2>2, ProcessesKept
  <1>23. ASSUME NEW t \in Rec!Targets, Rec!TargetEnds(t) PROVE Processes'
    BY <1>23 DEF Rec!TargetEnds, Rec!Turn, Rec!startVars, Rec!stopVars, Rec!indexVars, Processes
  <1>24. ASSUME NEW p \in Panes, Rec!TheyPipe(p) PROVE Processes'
    BY <1>24 DEF Rec!TheyPipe, Rec!Turn, Rec!startVars, Rec!stopVars, Rec!indexVars, Processes
  <1>25. ASSUME NEW p \in Panes, Rec!PipeBreaks(p) PROVE Processes'
    BY <1>25 DEF Rec!PipeBreaks, Rec!procVars, Rec!startVars, Rec!stopVars, Rec!indexVars, Processes
  <1>26. CASE Rec!Die
    BY <1>26 DEF Rec!Die, Processes, Rec!TypeOK
  <1>27. CASE Rec!Boot
    BY <1>27, ProcessesKept DEF Rec!Boot, Rec!startVars, Rec!stopVars
  <1>28. CASE Rec!SweepClone
    <2>1. UNCHANGED <<at, stopping, active, overtaken, bridge, reading, old, up>> /\ orphans # {}
      BY <1>28 DEF Rec!SweepClone, Rec!startVars, Rec!stopVars, Rec!procVars
    <2>2. up' BY <2>1, Down
    <2> QED BY <2>1, <2>2, ProcessesKept
  <1>29. CASE UNCHANGED Rec!vars
    BY <1>29 DEF Rec!vars, Rec!startVars, Rec!stopVars, Rec!procVars, Rec!indexVars, Processes
  <1>30. ASSUME NEW r \in Ids, Rec!MakeClone(r) PROVE Processes'
    <2>1. at[r] # "done" /\ up BY <1>30, Down DEF Rec!MakeClone
    <2>2. up' /\ UNCHANGED old BY <1>30, <2>1 DEF Rec!MakeClone, Rec!procVars
    <2>3. \A q \in old : q \in Ids /\ q # r BY <2>1 DEF Processes, Rec!TypeOK
    <2> QED BY <1>30, <2>2, <2>3, ProcessesKept DEF Rec!MakeClone, Rec!stopVars, Rec!TypeOK
  <1> QED BY <1>1, <1>2, <1>3, <1>4, <1>5, <1>6, <1>7, <1>8, <1>9, <1>10, <1>11, <1>12, <1>13, <1>14, <1>15, <1>16, <1>17, <1>18, <1>19, <1>20, <1>21, <1>22, <1>23, <1>24, <1>25, <1>26, <1>27, <1>28, <1>29, <1>30
          DEF Rec!Next, Rec!Request, Rec!StartStep, Rec!StopStep, Rec!Event, Rec!IndexStep

-----------------------------------------------------------------------------
(***************************************************************************)
(* What a recording uses outside the process.                              *)
(***************************************************************************)
\* What only takes away.
LEMMA MeansKept ==
  ASSUME Means,
         \A r \in Ids : /\ target'[r] = target[r] /\ (at'[r] = "idle" => at[r] = "idle")
                        /\ clone'[r] => clone[r]
                        /\ bridge'[r] # "none" => bridge[r] # "none"
                        /\ reading'[r] => reading[r]
                        /\ fifo'[r] => fifo[r]
                        /\ \A p \in Panes : pipe'[p] = r => pipe[p] = r
  PROVE  Means'
  BY DEF Means, MeansOf

\* A stop and the ptys it kills.
LEMMA StopTakesAway ==
  ASSUME Rec!TypeOK, NEW R, NEW r \in Ids, Rec!Killed(R)[r] # "none"
  PROVE  bridge[r] # "none"
  BY KilledIs

\* Every step of the recorder.
LEMMA MeansStep ==
  ASSUME Rec!RecorderAssumption, Rec!TypeOK, Course, Updates, Means, [Rec!Next]_Rec!vars
  PROVE  Means'
  <1>1. ASSUME NEW r \in Ids, NEW t \in Rec!Targets, Rec!Start(r, t) PROVE Means'
    <2>1. UNCHANGED <<clone, bridge, reading, fifo, pipe>> /\ at[r] = "idle"
          /\ at' = [at EXCEPT ![r] = "checked"] /\ target' = [target EXCEPT ![r] = t]
      BY <1>1 DEF Rec!Start, Rec!tmuxVars
    <2>2. ASSUME NEW q \in Ids PROVE MeansOf(q)'
      <3>0. MeansOf(q) BY DEF Means
      <3>1. CASE q = r
        <4>1. target[q] = None BY <2>1, <3>0, <3>1 DEF MeansOf
        <4>2. ~clone[q] /\ bridge[q] = "none" /\ ~reading[q] /\ ~fifo[q] /\ \A p \in Panes : pipe[p] # q
          BY <3>0, <4>1 DEF MeansOf, Rec!RecorderAssumption
        <4> QED BY <2>1, <3>1, <4>2 DEF MeansOf, Rec!TypeOK
      <3>2. CASE q # r BY <2>1, <3>0, <3>2 DEF MeansOf, Rec!TypeOK
      <3> QED BY <3>1, <3>2
    <2> QED BY <2>2 DEF Means
  <1>2. ASSUME NEW r \in Ids, Rec!RequestStop(r) PROVE Means'
    <2>1. UNCHANGED <<at, target, clone, reading, fifo, pipe>> /\ bridge' = Rec!Killed({r})
      BY <1>2 DEF Rec!RequestStop, Rec!tmuxVars
    <2> QED BY <2>1, StopTakesAway, MeansKept
  <1>3. ASSUME NEW r \in Ids, NEW first \in BOOLEAN, Rec!Delete(r, first) PROVE Means'
    <2>1. UNCHANGED <<at, target, clone, reading, fifo, pipe>> /\ (bridge' = Rec!Killed({r}) \/ UNCHANGED bridge)
      BY <1>3 DEF Rec!Delete, Rec!tmuxVars
    <2> QED BY <2>1, StopTakesAway, MeansKept
  <1>4. ASSUME NEW r \in Ids, Rec!StartRefused(r) PROVE Means'
    BY <1>4, MeansKept DEF Rec!StartRefused, Rec!tmuxVars, Rec!TypeOK
  <1>5. ASSUME NEW r \in Ids, Rec!Announce(r) PROVE Means'
    BY <1>5, MeansKept DEF Rec!Announce, Rec!tmuxVars, Rec!TypeOK
  <1>6. ASSUME NEW r \in Ids, Rec!Attach(r) PROVE Means'
    <2>1. target[r] \in Sessions BY <1>6 DEF Rec!Attach, Course, CourseOf
    <2> QED BY <1>6, <2>1 DEF Rec!Attach, Rec!tmuxVars, Means, MeansOf, Rec!TypeOK
  <1>7. ASSUME NEW r \in Ids, Rec!AttachFails(r) PROVE Means'
    BY <1>7, MeansKept DEF Rec!AttachFails, Rec!Fail, Rec!DestroyClone, Rec!TypeOK
  <1>8. ASSUME NEW r \in Ids, Rec!MakeFifo(r) PROVE Means'
    <2>1. target[r] \in Panes BY <1>8 DEF Rec!MakeFifo, Course, CourseOf
    <2> QED BY <1>8, <2>1 DEF Rec!MakeFifo, Rec!tmuxVars, Means, MeansOf, Rec!TypeOK
  <1>9. ASSUME NEW r \in Ids, Rec!NoFifo(r) PROVE Means'
    BY <1>9, MeansKept DEF Rec!NoFifo, Rec!Fail, Rec!TypeOK
  <1>10. ASSUME NEW r \in Ids, Rec!PipePane(r) PROVE Means'
    <2>1. target[r] \in Panes BY <1>10 DEF Rec!PipePane, Course, CourseOf
    <2> QED BY <1>10, <2>1 DEF Rec!PipePane, Means, MeansOf, Rec!TypeOK, Rec!RecorderAssumption
  <1>11. ASSUME NEW r \in Ids, Rec!PipeFails(r) PROVE Means'
    BY <1>11, MeansKept DEF Rec!PipeFails, Rec!Fail, Rec!UnlinkFifo, Rec!TypeOK
  <1>12. ASSUME NEW r \in Ids, Rec!Unpipe(r) PROVE Means'
    BY <1>12, Rec!RecorderAssumption, MeansKept DEF Rec!Unpipe, Rec!Close, Rec!UnlinkFifo, Rec!TypeOK, Rec!RecorderAssumption
  <1>13. ASSUME NEW r \in Ids, Rec!Unclone(r) PROVE Means'
    BY <1>13, MeansKept DEF Rec!Unclone, Rec!Close, Rec!DestroyClone, Rec!TypeOK
  <1>14. ASSUME NEW r \in Ids, Rec!CloseAtOnce(r) PROVE Means'
    BY <1>14, MeansKept DEF Rec!CloseAtOnce, Rec!Close, Rec!TypeOK
  <1>15. ASSUME NEW r \in Ids, Rec!Ready(r) PROVE Means'
    BY <1>15, MeansKept DEF Rec!Ready, Rec!tmuxVars, Rec!TypeOK
  <1>16. ASSUME NEW r \in Ids, Rec!HitLimit(r) PROVE Means'
    <2>1. UNCHANGED <<at, target, clone, reading, fifo, pipe>> /\ bridge' = Rec!Killed({r})
      BY <1>16 DEF Rec!HitLimit, Rec!tmuxVars
    <2> QED BY <2>1, StopTakesAway, MeansKept
  <1>17. ASSUME NEW r \in Ids, Rec!PtyExits(r) PROVE Means'
    BY <1>17, MeansKept DEF Rec!PtyExits, Rec!Stop, Rec!tmuxVars, Rec!TypeOK
  <1>18. ASSUME NEW r \in Ids, Rec!FifoError(r) PROVE Means'
    BY <1>18, MeansKept DEF Rec!FifoError, Rec!Stop, Rec!Turn, Rec!tmuxVars, Rec!TypeOK
  <1>19. CASE Rec!StopAll
    <2>1. UNCHANGED <<at, target, clone, reading, fifo, pipe>> /\ bridge' = Rec!Killed(active)
      BY <1>19 DEF Rec!StopAll, Rec!tmuxVars
    <2> QED BY <2>1, StopTakesAway, MeansKept
  <1>20. ASSUME NEW a \in Rec!Actors, Rec!Load(a) PROVE Means'
    <2>1. UNCHANGED <<target, clone, bridge, reading, fifo, pipe>> BY <1>20 DEF Rec!Load, Rec!tmuxVars
    <2>2. (\E ok \in BOOLEAN : Rec!Over(a, ok)) \/ UNCHANGED at BY <1>20, LoadIs
    <2>3. \A r \in Ids : at'[r] = "idle" => at[r] = "idle" BY <2>2, OverIs
    <2> QED BY <2>1, <2>3, MeansKept
  <1>21. ASSUME NEW a \in Rec!Actors, Rec!Save(a) PROVE Means'
    <2>1. UNCHANGED <<target, clone, bridge, reading, fifo, pipe>> BY <1>21 DEF Rec!Save, Rec!tmuxVars
    <2>2. (\E ok \in BOOLEAN : Rec!Over(a, ok)) \/ UNCHANGED at BY <1>21, SaveIs
    <2>3. \A r \in Ids : at'[r] = "idle" => at[r] = "idle" BY <2>2, OverIs
    <2> QED BY <2>1, <2>3, MeansKept
  <1>22. ASSUME NEW a \in Rec!Actors, Rec!Unlink(a) PROVE Means'
    BY <1>22, MeansKept DEF Rec!Unlink, Rec!startVars, Rec!tmuxVars, Rec!TypeOK
  <1>23. ASSUME NEW t \in Rec!Targets, Rec!TargetEnds(t) PROVE Means'
    BY <1>23, Rec!RecorderAssumption, MeansKept DEF Rec!TargetEnds, Rec!Turn, Rec!startVars, Rec!TypeOK, Rec!RecorderAssumption
  <1>24. ASSUME NEW p \in Panes, Rec!TheyPipe(p) PROVE Means'
    BY <1>24, Rec!RecorderAssumption, MeansKept DEF Rec!TheyPipe, Rec!Turn, Rec!startVars, Rec!TypeOK, Rec!RecorderAssumption
  <1>25. ASSUME NEW p \in Panes, Rec!PipeBreaks(p) PROVE Means'
    BY <1>25, Rec!RecorderAssumption, MeansKept DEF Rec!PipeBreaks, Rec!startVars, Rec!TypeOK, Rec!RecorderAssumption
  <1>26. CASE Rec!Die
    BY <1>26, MeansKept DEF Rec!Die, Rec!tmuxVars, Rec!TypeOK
  <1>27. CASE Rec!Boot
    BY <1>27, MeansKept DEF Rec!Boot, Rec!startVars, Rec!tmuxVars, Rec!TypeOK
  <1>28. CASE Rec!SweepClone
    BY <1>28, MeansKept DEF Rec!SweepClone, Rec!DestroyClone, Rec!startVars, Rec!TypeOK
  <1>29. CASE UNCHANGED Rec!vars
    BY <1>29, MeansKept DEF Rec!vars, Rec!startVars, Rec!tmuxVars, Rec!TypeOK
  <1>30. ASSUME NEW r \in Ids, Rec!MakeClone(r) PROVE Means'
    <2>1. target[r] \in Sessions BY <1>30 DEF Rec!MakeClone, Course, CourseOf
    <2> QED BY <1>30, <2>1 DEF Rec!MakeClone, Means, MeansOf, Rec!TypeOK
  <1> QED BY <1>1, <1>2, <1>3, <1>4, <1>5, <1>6, <1>7, <1>8, <1>9, <1>10, <1>11, <1>12, <1>13, <1>14, <1>15, <1>16, <1>17, <1>18, <1>19, <1>20, <1>21, <1>22, <1>23, <1>24, <1>25, <1>26, <1>27, <1>28, <1>29, <1>30
          DEF Rec!Next, Rec!Request, Rec!StartStep, Rec!StopStep, Rec!Event, Rec!IndexStep

-----------------------------------------------------------------------------
(***************************************************************************)
(* What a recording that was not overtaken holds.                          *)
(***************************************************************************)
\* A recording that stays where it is and is given nothing.
LEMMA HeldKept ==
  ASSUME NEW q \in Ids, HeldBy(q), at'[q] = at[q], q \in active' <=> q \in active,
         stopping'[q] = stopping[q], target'[q] = target[q],
         clone'[q] => clone[q], reading'[q] => reading[q], fifo'[q] => fifo[q],
         bridge'[q] \in {"fresh", "ready"} => bridge[q] \in {"fresh", "ready"},
         bridge[q] # "none" => bridge'[q] # "none",
         bridge[q] = "dead" => bridge'[q] = "dead",
         \A p \in Panes : pipe'[p] = q => pipe[p] = q
  PROVE  HeldBy(q)'
  <1>1. Rec!Holds(q)' => Rec!Holds(q) BY DEF Rec!Holds
  <1> QED BY <1>1 DEF HeldBy, Late

\* A stop kills the pty, and what else it frees it still knows of.
LEMMA StopKeepsHeld ==
  ASSUME Rec!TypeOK, Course, Held, NEW R, NEW reason \in Rec!Reasons, Rec!Stop(R, reason),
         UNCHANGED <<at, target, clone, fifo, pipe, old>>,
         \A q \in Ids :
           /\ reading'[q] => reading[q]
           /\ bridge'[q] = bridge[q] \/ (bridge[q] # "none" /\ bridge'[q] = "dead")
           /\ q \in R \cap active /\ target[q] \in Sessions /\ bridge[q] # "none" => bridge'[q] = "dead"
  PROVE  Held'
  <1> SUFFICES ASSUME NEW q \in Ids \ (old \cup overtaken') PROVE HeldBy(q)' BY DEF Held
  <1>0. CourseOf(q) BY DEF Course
  <1>1. /\ q \in active' <=> q \in active /\ q \notin R
        /\ q \in overtaken' <=> q \in overtaken \/ (q \in R \cap active /\ Rec!InStart(q))
        /\ q \in R \cap active => stopping'[q] = Rec!FirstHalt(q)
        /\ q \notin R \cap active => stopping'[q] = stopping[q]
    BY StopIs
  <1>2. HeldBy(q) BY <1>1 DEF Held
  <1>3. CASE q \in R \cap active
    <2>1. Late(q) /\ target[q] \in Rec!Targets BY <1>0, <1>1, <1>3 DEF CourseOf, Early, Rec!InStart, Late, Rec!TypeOK
    <2>2. CASE target[q] \in Panes
      <3>1. stopping'[q] = "unpiping" /\ q \notin active' BY <1>1, <1>3, <2>2 DEF Rec!FirstHalt
      <3> QED BY <2>1, <3>1 DEF HeldBy, Late
    <2>3. CASE target[q] \notin Panes
      <3>1. target[q] \in Sessions BY <2>1, <2>3 DEF Rec!Targets
      <3>2. bridge[q] # "none" BY <1>2, <1>3, <2>1, <3>1 DEF HeldBy, Late
      <3>3. stopping'[q] = "uncloning" /\ q \notin active' /\ bridge'[q] = "dead"
        BY <1>1, <1>3, <2>3, <3>1, <3>2 DEF Rec!FirstHalt
      <3> QED BY <2>1, <3>3 DEF HeldBy, Late
    <2> QED BY <2>2, <2>3
  <1>4. CASE q \notin R \cap active
    BY <1>1, <1>2, <1>4, HeldKept
  <1> QED BY <1>3, <1>4

\* One recording moves on, and the others are as they were or freed of something.
LEMMA HeldStepOf ==
  ASSUME Held, NEW r \in Ids, UNCHANGED <<old, overtaken>>,
         r \notin old \cup overtaken => HeldBy(r)',
         \A q \in Ids \ {r} :
           /\ at'[q] = at[q] /\ (q \in active' <=> q \in active)
           /\ stopping'[q] = stopping[q] /\ target'[q] = target[q]
           /\ clone'[q] = clone[q] /\ reading'[q] = reading[q] /\ fifo'[q] = fifo[q]
           /\ bridge'[q] = bridge[q]
           /\ \A p \in Panes : pipe'[p] = q => pipe[p] = q
  PROVE  Held'
  <1> SUFFICES ASSUME NEW q \in Ids \ (old \cup overtaken), q # r PROVE HeldBy(q)'
    BY DEF Held
  <1>1. HeldBy(q) BY DEF Held
  <1> QED BY <1>1, HeldKept

\* A stop that overtook nothing is of a recording whose start is over.
LEMMA StoppedIsLate ==
  ASSUME Rec!TypeOK, Course, NEW r \in Ids, stopping[r] # "idle", r \notin overtaken
  PROVE  Late(r) /\ r \notin active
  BY DEF Course, CourseOf, Early, Late, Rec!InStart, Rec!TypeOK

\* Every step of the recorder.
LEMMA HeldStep ==
  ASSUME Rec!RecorderAssumption, Rec!TypeOK, Course, Updates, Processes, Means, Held, [Rec!Next]_Rec!vars
  PROVE  Held'
  <1>1. ASSUME NEW r \in Ids, NEW t \in Rec!Targets, Rec!Start(r, t) PROVE Held'
    <2>1. UNCHANGED <<old, overtaken>> BY <1>1 DEF Rec!Start, Rec!stopVars, Rec!procVars
    <2>2. r \notin old \cup overtaken => HeldBy(r)'
      <3> SUFFICES ASSUME r \notin old \cup overtaken PROVE HeldBy(r)' OBVIOUS
      <3>1. HeldBy(r) /\ CourseOf(r) BY DEF Held, Course
      <3> QED BY <1>1, <3>1 DEF Rec!Start, Rec!stopVars, Rec!procVars, Rec!tmuxVars, HeldBy, CourseOf, Rec!Holds, Late, Early, Rec!InStart, Rec!TypeOK
    <2> QED BY <1>1, <2>1, <2>2, HeldStepOf DEF Rec!Start, Rec!stopVars, Rec!procVars, Rec!tmuxVars, Rec!TypeOK
  <1>2. ASSUME NEW r \in Ids, Rec!RequestStop(r) PROVE Held'
    <2>1. Rec!Stop({r}, "other") /\ bridge' = Rec!Killed({r})
          /\ UNCHANGED <<at, target, clone, fifo, pipe, old, reading>>
      BY <1>2 DEF Rec!RequestStop, Rec!tmuxVars, Rec!procVars
    <2>2. "other" \in Rec!Reasons BY RowIs
    <2>3. ASSUME NEW q \in Ids
          PROVE  Rec!Killed({r})[q] = IF q \in {r} \cap active /\ bridge[q] # "none" THEN "dead" ELSE bridge[q]
      BY KilledIs
    <2> QED BY <2>1, <2>2, <2>3, StopKeepsHeld
  <1>3. ASSUME NEW r \in Ids, NEW first \in BOOLEAN, Rec!Delete(r, first) PROVE Held'
    <2>1. UNCHANGED <<at, target, clone, fifo, pipe, old, reading>> BY <1>3 DEF Rec!Delete, Rec!Turn, Rec!tmuxVars
    <2>2. "other" \in Rec!Reasons BY RowIs
    <2>3. ASSUME NEW q \in Ids
          PROVE  Rec!Killed({r})[q] = IF q \in {r} \cap active /\ bridge[q] # "none" THEN "dead" ELSE bridge[q]
      BY KilledIs
    <2>4. CASE Rec!Stop({r}, "other") /\ bridge' = Rec!Killed({r})
      BY <2>1, <2>2, <2>3, <2>4, StopKeepsHeld
    <2>5. CASE UNCHANGED <<active, bridge, Rec!stopVars>>
      BY <2>1, <2>5 DEF Rec!stopVars, Held, HeldBy, Rec!Holds, Late
    <2> QED BY <1>3, <2>4, <2>5, DeleteIs
  <1>4. ASSUME NEW r \in Ids, Rec!StartRefused(r) PROVE Held'
    <2>1. UNCHANGED <<old, overtaken>> BY <1>4 DEF Rec!StartRefused, Rec!stopVars, Rec!procVars
    <2>2. r \notin old \cup overtaken => HeldBy(r)'
      <3> SUFFICES ASSUME r \notin old \cup overtaken PROVE HeldBy(r)' OBVIOUS
      <3>1. HeldBy(r) /\ CourseOf(r) BY DEF Held, Course
      <3> QED BY <1>4, <3>1 DEF Rec!StartRefused, Rec!stopVars, Rec!procVars, Rec!tmuxVars, HeldBy, CourseOf, Rec!Holds, Late, Early, Rec!InStart, Rec!TypeOK
    <2> QED BY <1>4, <2>1, <2>2, HeldStepOf DEF Rec!StartRefused, Rec!stopVars, Rec!procVars, Rec!tmuxVars, Rec!TypeOK
  <1>5. ASSUME NEW r \in Ids, Rec!Announce(r) PROVE Held'
    <2>1. UNCHANGED <<old, overtaken>> BY <1>5 DEF Rec!Announce, Rec!stopVars, Rec!procVars
    <2>2. r \notin old \cup overtaken => HeldBy(r)'
      <3> SUFFICES ASSUME r \notin old \cup overtaken PROVE HeldBy(r)' OBVIOUS
      <3>1. HeldBy(r) /\ CourseOf(r) BY DEF Held, Course
      <3> QED BY <1>5, <3>1 DEF Rec!Announce, Rec!stopVars, Rec!procVars, Rec!tmuxVars, HeldBy, CourseOf, Rec!Holds, Late, Early, Rec!InStart, Rec!TypeOK
    <2> QED BY <1>5, <2>1, <2>2, HeldStepOf DEF Rec!Announce, Rec!stopVars, Rec!procVars, Rec!tmuxVars, Rec!TypeOK
  <1>6. ASSUME NEW r \in Ids, Rec!Attach(r) PROVE Held'
    <2>1. UNCHANGED <<old, overtaken>> BY <1>6 DEF Rec!Attach, Rec!stopVars, Rec!procVars
    <2>2. r \notin old \cup overtaken => HeldBy(r)'
      <3> SUFFICES ASSUME r \notin old \cup overtaken PROVE HeldBy(r)' OBVIOUS
      <3>1. HeldBy(r) /\ CourseOf(r) BY DEF Held, Course
      <3> QED BY <1>6, <3>1 DEF Rec!Attach, Rec!tmuxVars, Rec!stopVars, Rec!procVars, HeldBy, CourseOf, Rec!Holds, Late, Early, Rec!InStart, Rec!TypeOK
    <2> QED BY <1>6, <2>1, <2>2, HeldStepOf DEF Rec!Attach, Rec!tmuxVars, Rec!stopVars, Rec!procVars, Rec!TypeOK
  <1>7. ASSUME NEW r \in Ids, Rec!AttachFails(r) PROVE Held'
    <2>1. UNCHANGED <<old, overtaken>> BY <1>7 DEF Rec!AttachFails, Rec!Fail, Rec!stopVars, Rec!procVars
    <2>2. r \notin old \cup overtaken => HeldBy(r)'
      <3> SUFFICES ASSUME r \notin old \cup overtaken PROVE HeldBy(r)' OBVIOUS
      <3>1. HeldBy(r) /\ CourseOf(r) BY DEF Held, Course
      <3> QED BY <1>7, <3>1 DEF Rec!AttachFails, Rec!Fail, Rec!DestroyClone, Rec!stopVars, Rec!procVars, HeldBy, CourseOf, Rec!Holds, Late, Early, Rec!InStart, Rec!TypeOK
    <2> QED BY <1>7, <2>1, <2>2, HeldStepOf DEF Rec!AttachFails, Rec!Fail, Rec!DestroyClone, Rec!stopVars, Rec!procVars, Rec!TypeOK
  <1>8. ASSUME NEW r \in Ids, Rec!MakeFifo(r) PROVE Held'
    <2>1. UNCHANGED <<old, overtaken>> BY <1>8 DEF Rec!MakeFifo, Rec!stopVars, Rec!procVars
    <2>2. r \notin old \cup overtaken => HeldBy(r)'
      <3> SUFFICES ASSUME r \notin old \cup overtaken PROVE HeldBy(r)' OBVIOUS
      <3>1. HeldBy(r) /\ CourseOf(r) BY DEF Held, Course
      <3> QED BY <1>8, <3>1 DEF Rec!MakeFifo, Rec!stopVars, Rec!procVars, Rec!tmuxVars, HeldBy, CourseOf, Rec!Holds, Late, Early, Rec!InStart, Rec!TypeOK
    <2> QED BY <1>8, <2>1, <2>2, HeldStepOf DEF Rec!MakeFifo, Rec!stopVars, Rec!procVars, Rec!tmuxVars, Rec!TypeOK
  <1>9. ASSUME NEW r \in Ids, Rec!NoFifo(r) PROVE Held'
    <2>1. UNCHANGED <<old, overtaken>> BY <1>9 DEF Rec!NoFifo, Rec!Fail, Rec!stopVars, Rec!procVars
    <2>2. r \notin old \cup overtaken => HeldBy(r)'
      <3> SUFFICES ASSUME r \notin old \cup overtaken PROVE HeldBy(r)' OBVIOUS
      <3>1. HeldBy(r) /\ CourseOf(r) BY DEF Held, Course
      <3> QED BY <1>9, <3>1 DEF Rec!NoFifo, Rec!Fail, Rec!stopVars, Rec!procVars, HeldBy, CourseOf, Rec!Holds, Late, Early, Rec!InStart, Rec!TypeOK
    <2> QED BY <1>9, <2>1, <2>2, HeldStepOf DEF Rec!NoFifo, Rec!Fail, Rec!stopVars, Rec!procVars, Rec!TypeOK
  <1>10. ASSUME NEW r \in Ids, Rec!PipePane(r) PROVE Held'
    <2>1. UNCHANGED <<old, overtaken>> BY <1>10 DEF Rec!PipePane, Rec!stopVars, Rec!procVars
    <2>2. target[r] \in Panes /\ target[r] \notin Sessions
      BY <1>10 DEF Rec!PipePane, Course, CourseOf, Rec!RecorderAssumption
    <2>3. at'[r] = "putting" /\ UNCHANGED target BY <1>10 DEF Rec!PipePane, Rec!TypeOK
    <2>4. HeldBy(r)' BY <2>2, <2>3 DEF HeldBy, Late
    <2> QED BY <1>10, <2>1, <2>4, Rec!RecorderAssumption, HeldStepOf
            DEF Rec!PipePane, Rec!stopVars, Rec!TypeOK, Rec!RecorderAssumption
  <1>11. ASSUME NEW r \in Ids, Rec!PipeFails(r) PROVE Held'
    <2>1. UNCHANGED <<old, overtaken, pipe, bridge, clone, stopping>> /\ at[r] = "piping"
      BY <1>11 DEF Rec!PipeFails, Rec!Fail, Rec!stopVars, Rec!procVars
    <2>2. r \notin old \cup overtaken => HeldBy(r)'
      <3> SUFFICES ASSUME r \notin old \cup overtaken PROVE HeldBy(r)' OBVIOUS
      <3>1. HeldBy(r) /\ CourseOf(r) /\ MeansOf(r) BY DEF Held, Course, Means
      <3>2. target[r] \notin Sessions
        BY <2>1, <3>1 DEF CourseOf, Rec!RecorderAssumption
      <3>3. ~clone[r] /\ bridge[r] = "none" BY <3>1, <3>2 DEF MeansOf
      <3>4. ~reading'[r] /\ ~fifo'[r] /\ at'[r] = "done" BY <1>11 DEF Rec!PipeFails, Rec!Fail, Rec!UnlinkFifo, Rec!TypeOK
      <3>5. ~Rec!Holds(r)' BY <2>1, <3>1, <3>3, <3>4 DEF Rec!Holds, HeldBy
      <3>6. r \in active /\ stopping[r] = "idle" BY <2>1, <3>1 DEF CourseOf, Rec!InStart
      <3>7. r \notin active' BY <1>11 DEF Rec!PipeFails, Rec!Fail
      <3> QED BY <2>1, <3>4, <3>5, <3>6, <3>7 DEF HeldBy, Late
    <2> QED BY <1>11, <2>1, <2>2, HeldStepOf DEF Rec!PipeFails, Rec!Fail, Rec!UnlinkFifo, Rec!TypeOK
  <1>12. ASSUME NEW r \in Ids, Rec!Unpipe(r) PROVE Held'
    <2>1. Rec!Close(r) /\ stopping[r] # "idle" BY <1>12 DEF Rec!Unpipe
    <2>2. UNCHANGED <<old, overtaken, active, at, bridge, target>> BY <2>1 DEF Rec!Close, Rec!procVars
    <2>3. r \notin overtaken => Late(r) /\ r \notin active BY <2>1, StoppedIsLate
    <2>4. stopping'[r] = "patching" /\ \A q \in Ids \ {r} : stopping'[q] = stopping[q] BY <2>1, CloseIs
    <2>5. r \notin old \cup overtaken => HeldBy(r)'
      <3> SUFFICES ASSUME r \notin old \cup overtaken PROVE HeldBy(r)' OBVIOUS
      <3>1. HeldBy(r) /\ CourseOf(r) /\ MeansOf(r) BY DEF Held, Course, Means
      <3>2. target[r] \in Panes /\ target[r] \notin Sessions
        BY <1>12, <3>1 DEF Rec!Unpipe, CourseOf, Rec!RecorderAssumption
      <3>3. ~clone[r] /\ bridge[r] = "none" /\ \A p \in Panes : pipe[p] = r => target[r] = p
        BY <3>1, <3>2 DEF MeansOf
      <3>4. ~reading'[r] /\ ~fifo'[r] /\ UNCHANGED clone BY <1>12 DEF Rec!Unpipe, Rec!UnlinkFifo, Rec!TypeOK
      <3>5. \A p \in Panes : pipe'[p] # r
        BY <1>12, <3>2, <3>3 DEF Rec!Unpipe, Rec!TypeOK, Rec!RecorderAssumption
      <3>6. ~Rec!Holds(r)' BY <2>2, <3>3, <3>4, <3>5 DEF Rec!Holds
      <3> QED BY <2>2, <2>3, <2>4, <3>6 DEF HeldBy, Late
    <2>6. ASSUME NEW q \in Ids \ {r}
          PROVE  /\ clone'[q] = clone[q] /\ reading'[q] = reading[q] /\ fifo'[q] = fifo[q]
                 /\ \A p \in Panes : pipe'[p] = q => pipe[p] = q
      BY <1>12, Rec!RecorderAssumption, <2>6 DEF Rec!Unpipe, Rec!UnlinkFifo, Rec!TypeOK, Rec!RecorderAssumption
    <2> QED BY <2>2, <2>4, <2>5, <2>6, HeldStepOf
  <1>13. ASSUME NEW r \in Ids, Rec!Unclone(r) PROVE Held'
    <2>1. Rec!Close(r) /\ stopping[r] # "idle" BY <1>13 DEF Rec!Unclone
    <2>2. UNCHANGED <<old, overtaken, active, at, bridge, target>> BY <2>1 DEF Rec!Close, Rec!procVars
    <2>3. r \notin overtaken => Late(r) /\ r \notin active BY <2>1, StoppedIsLate
    <2>4. stopping'[r] = "patching" /\ \A q \in Ids \ {r} : stopping'[q] = stopping[q] BY <2>1, CloseIs
    <2>5. r \notin old \cup overtaken => HeldBy(r)'
      <3> SUFFICES ASSUME r \notin old \cup overtaken PROVE HeldBy(r)' OBVIOUS
      <3>1. HeldBy(r) /\ CourseOf(r) /\ MeansOf(r) BY DEF Held, Course, Means
      <3>2. target[r] \in Sessions /\ target[r] \notin Panes
        BY <1>13, <3>1 DEF Rec!Unclone, CourseOf, Rec!RecorderAssumption
      <3>3. ~reading[r] /\ ~fifo[r] /\ \A p \in Panes : pipe[p] # r
        BY <3>1, <3>2 DEF MeansOf
      <3>4. ~clone'[r] /\ UNCHANGED <<reading, pipe, fifo>> BY <1>13 DEF Rec!Unclone, Rec!DestroyClone, Rec!TypeOK
      <3>5. bridge[r] = "dead" BY <1>13, <2>3, <3>1 DEF Rec!Unclone, HeldBy
      <3>6. ~Rec!Holds(r)' BY <2>2, <3>3, <3>4, <3>5 DEF Rec!Holds
      <3> QED BY <2>2, <2>3, <2>4, <3>6 DEF HeldBy, Late
    <2>6. ASSUME NEW q \in Ids \ {r}
          PROVE  /\ clone'[q] = clone[q] /\ reading'[q] = reading[q] /\ fifo'[q] = fifo[q]
                 /\ \A p \in Panes : pipe'[p] = q => pipe[p] = q
      BY <1>13, <2>6 DEF Rec!Unclone, Rec!DestroyClone, Rec!TypeOK
    <2> QED BY <2>2, <2>4, <2>5, <2>6, HeldStepOf
  <1>14. ASSUME NEW r \in Ids, Rec!CloseAtOnce(r) PROVE Held'
    <2>1. Rec!Close(r) /\ stopping[r] # "idle" BY <1>14 DEF Rec!CloseAtOnce
    <2>2. UNCHANGED <<old, overtaken, active, at, bridge, target>> BY <2>1 DEF Rec!Close, Rec!procVars
    <2>3. r \notin overtaken => Late(r) /\ r \notin active BY <2>1, StoppedIsLate
    <2>4. stopping'[r] = "patching" /\ \A q \in Ids \ {r} : stopping'[q] = stopping[q] BY <2>1, CloseIs
    <2>5. r \notin old \cup overtaken => HeldBy(r)'
      <3> SUFFICES ASSUME r \notin old \cup overtaken PROVE HeldBy(r)' OBVIOUS
      <3>1. HeldBy(r) /\ CourseOf(r) /\ MeansOf(r) BY DEF Held, Course, Means
      <3>2. ~Rec!Holds(r) BY <1>14, <2>3, <3>1 DEF Rec!CloseAtOnce, HeldBy
      <3>3. UNCHANGED <<reading, clone, pipe, fifo>> BY <1>14 DEF Rec!CloseAtOnce
      <3>6. ~Rec!Holds(r)' BY <2>2, <3>2, <3>3 DEF Rec!Holds
      <3> QED BY <2>2, <2>3, <2>4, <3>6 DEF HeldBy, Late
    <2>6. ASSUME NEW q \in Ids \ {r}
          PROVE  /\ clone'[q] = clone[q] /\ reading'[q] = reading[q] /\ fifo'[q] = fifo[q]
                 /\ \A p \in Panes : pipe'[p] = q => pipe[p] = q
      BY <1>14, <2>6 DEF Rec!CloseAtOnce, Rec!TypeOK
    <2> QED BY <2>2, <2>4, <2>5, <2>6, HeldStepOf
  <1>15. ASSUME NEW r \in Ids, Rec!Ready(r) PROVE Held'
    <2> SUFFICES ASSUME NEW q \in Ids \ (old \cup overtaken) PROVE HeldBy(q)'
      BY <1>15 DEF Held, Rec!Ready, Rec!stopVars, Rec!procVars
    <2>1. HeldBy(q) BY DEF Held
    <2> QED BY <1>15, <2>1, HeldKept DEF Rec!Ready, Rec!stopVars, Rec!procVars, Rec!tmuxVars, Rec!TypeOK
  <1>16. ASSUME NEW r \in Ids, Rec!HitLimit(r) PROVE Held'
    <2>1. Rec!Stop({r}, "limit") /\ bridge' = Rec!Killed({r})
          /\ UNCHANGED <<at, target, clone, fifo, pipe, old, reading>>
      BY <1>16 DEF Rec!HitLimit, Rec!tmuxVars, Rec!procVars
    <2>2. "limit" \in Rec!Reasons BY RowIs
    <2>3. ASSUME NEW q \in Ids
          PROVE  Rec!Killed({r})[q] = IF q \in {r} \cap active /\ bridge[q] # "none" THEN "dead" ELSE bridge[q]
      BY KilledIs
    <2> QED BY <2>1, <2>2, <2>3, StopKeepsHeld
  <1>17. ASSUME NEW r \in Ids, Rec!PtyExits(r) PROVE Held'
    <2>1. UNCHANGED <<at, target, clone, fifo, pipe, old, reading>> /\ bridge[r] # "none"
          /\ bridge' = [bridge EXCEPT ![r] = "dead"]
          /\ (Rec!Stop({r}, "other") \/ UNCHANGED <<active, Rec!stopVars>>)
      BY <1>17 DEF Rec!PtyExits, Rec!tmuxVars, Rec!procVars
    <2>2. "other" \in Rec!Reasons BY RowIs
    <2>3. bridge'[r] = "dead" /\ \A q \in Ids \ {r} : bridge'[q] = bridge[q] BY <2>1 DEF Rec!TypeOK
    <2>4. CASE Rec!Stop({r}, "other") BY <2>1, <2>2, <2>3, <2>4, StopKeepsHeld
    <2>5. CASE UNCHANGED <<active, Rec!stopVars>>
      BY <2>1, <2>3, <2>5, HeldKept DEF Rec!stopVars, Held
    <2> QED BY <2>1, <2>4, <2>5
  <1>18. ASSUME NEW r \in Ids, Rec!FifoError(r) PROVE Held'
    <2>1. Rec!Stop({r}, "other") /\ reading[r] /\ reading' = [reading EXCEPT ![r] = FALSE]
          /\ UNCHANGED <<at, target, clone, fifo, pipe, old, bridge>>
      BY <1>18 DEF Rec!FifoError, Rec!tmuxVars, Rec!Turn
    <2>2. "other" \in Rec!Reasons BY RowIs
    <2>3. target[r] \notin Sessions
      BY <2>1 DEF Means, MeansOf, Rec!RecorderAssumption
    <2>4. \A q \in Ids : reading'[q] => reading[q] BY <2>1 DEF Rec!TypeOK
    <2> QED BY <2>1, <2>2, <2>3, <2>4, StopKeepsHeld
  <1>19. CASE Rec!StopAll
    <2>1. Rec!Stop(active, "other") /\ bridge' = Rec!Killed(active)
          /\ UNCHANGED <<at, target, clone, fifo, pipe, old, reading>>
      BY <1>19 DEF Rec!StopAll, Rec!tmuxVars, Rec!procVars
    <2>2. "other" \in Rec!Reasons BY RowIs
    <2>3. ASSUME NEW q \in Ids
          PROVE  Rec!Killed(active)[q] = IF q \in active \cap active /\ bridge[q] # "none" THEN "dead" ELSE bridge[q]
      BY KilledIs
    <2> QED BY <2>1, <2>2, <2>3, StopKeepsHeld
  <1>20. ASSUME NEW a \in Rec!Actors, Rec!Load(a) PROVE Held'
    <2>1. UNCHANGED <<old, overtaken, active, target, clone, bridge, reading, fifo, pipe>>
          /\ job[a].st \in {"load", "loaded"}
      BY <1>20 DEF Rec!Load, Rec!tmuxVars, Rec!procVars
    <2>2. (\E ok \in BOOLEAN : Rec!Over(a, ok)) \/ UNCHANGED <<at, stopping>> BY <1>20, LoadIs
    <2>3. ASSUME NEW q \in Ids \ (old \cup overtaken) PROVE HeldBy(q)'
      <3>0. HeldBy(q) /\ CourseOf(q) BY DEF Held, Course
      <3>1. /\ at'[q] = at[q] \/ (at[q] = "putting" /\ at'[q] \in {"running", "done"})
            /\ stopping'[q] = stopping[q] \/ (stopping[q] = "patching" /\ stopping'[q] = "idle")
        <4>1. CASE UNCHANGED <<at, stopping>> BY <4>1
        <4>2. ASSUME NEW ok \in BOOLEAN, Rec!Over(a, ok)
              PROVE  /\ at'[q] = at[q] \/ (at[q] = "putting" /\ at'[q] \in {"running", "done"})
                     /\ stopping'[q] = stopping[q]
                        \/ (stopping[q] = "patching" /\ stopping'[q] = "idle")
          <5>1. /\ at'[q] = IF a = <<"put", q>> THEN IF ok THEN "running" ELSE "done" ELSE at[q]
                /\ stopping'[q] = IF a = <<"patch", q>> THEN "idle" ELSE stopping[q]
            BY <4>2, OverIs
          <5>2. /\ a = <<"put", q>> => at[q] = "putting"
                /\ a = <<"patch", q>> => stopping[q] = "patching"
            BY <2>1 DEF Updates
          <5> QED BY <5>1, <5>2
        <4> QED BY <2>2, <4>1, <4>2
      <3>2. Rec!Holds(q)' = Rec!Holds(q) BY <2>1 DEF Rec!Holds
      <3>3. at[q] = "putting" => q \in active BY <3>0 DEF CourseOf, Rec!InStart
      <3> QED BY <2>1, <3>0, <3>1, <3>2, <3>3 DEF HeldBy, Late
    <2> QED BY <2>1, <2>3 DEF Held
  <1>21. ASSUME NEW a \in Rec!Actors, Rec!Save(a) PROVE Held'
    <2>1. UNCHANGED <<old, overtaken, active, target, clone, bridge, reading, fifo, pipe>>
          /\ job[a].st \in {"load", "loaded"}
      BY <1>21 DEF Rec!Save, Rec!tmuxVars, Rec!procVars
    <2>2. (\E ok \in BOOLEAN : Rec!Over(a, ok)) \/ UNCHANGED <<at, stopping>> BY <1>21, SaveIs
    <2>3. ASSUME NEW q \in Ids \ (old \cup overtaken) PROVE HeldBy(q)'
      <3>0. HeldBy(q) /\ CourseOf(q) BY DEF Held, Course
      <3>1. /\ at'[q] = at[q] \/ (at[q] = "putting" /\ at'[q] \in {"running", "done"})
            /\ stopping'[q] = stopping[q] \/ (stopping[q] = "patching" /\ stopping'[q] = "idle")
        <4>1. CASE UNCHANGED <<at, stopping>> BY <4>1
        <4>2. ASSUME NEW ok \in BOOLEAN, Rec!Over(a, ok)
              PROVE  /\ at'[q] = at[q] \/ (at[q] = "putting" /\ at'[q] \in {"running", "done"})
                     /\ stopping'[q] = stopping[q]
                        \/ (stopping[q] = "patching" /\ stopping'[q] = "idle")
          <5>1. /\ at'[q] = IF a = <<"put", q>> THEN IF ok THEN "running" ELSE "done" ELSE at[q]
                /\ stopping'[q] = IF a = <<"patch", q>> THEN "idle" ELSE stopping[q]
            BY <4>2, OverIs
          <5>2. /\ a = <<"put", q>> => at[q] = "putting"
                /\ a = <<"patch", q>> => stopping[q] = "patching"
            BY <2>1 DEF Updates
          <5> QED BY <5>1, <5>2
        <4> QED BY <2>2, <4>1, <4>2
      <3>2. Rec!Holds(q)' = Rec!Holds(q) BY <2>1 DEF Rec!Holds
      <3>3. at[q] = "putting" => q \in active BY <3>0 DEF CourseOf, Rec!InStart
      <3> QED BY <2>1, <3>0, <3>1, <3>2, <3>3 DEF HeldBy, Late
    <2> QED BY <2>1, <2>3 DEF Held
  <1>22. ASSUME NEW a \in Rec!Actors, Rec!Unlink(a) PROVE Held'
    <2> SUFFICES ASSUME NEW q \in Ids \ (old \cup overtaken) PROVE HeldBy(q)'
      BY <1>22 DEF Held, Rec!Unlink, Rec!stopVars, Rec!procVars
    <2>1. HeldBy(q) BY DEF Held
    <2> QED BY <1>22, <2>1, HeldKept DEF Rec!Unlink, Rec!startVars, Rec!stopVars, Rec!procVars, Rec!tmuxVars, Rec!TypeOK
  <1>23. ASSUME NEW t \in Rec!Targets, Rec!TargetEnds(t) PROVE Held'
    <2> SUFFICES ASSUME NEW q \in Ids \ (old \cup overtaken) PROVE HeldBy(q)'
      BY <1>23 DEF Held, Rec!TargetEnds, Rec!Turn, Rec!stopVars
    <2>1. HeldBy(q) BY DEF Held
    <2> QED BY <1>23, <2>1, Rec!RecorderAssumption, HeldKept DEF Rec!TargetEnds, Rec!Turn, Rec!startVars, Rec!stopVars, Rec!TypeOK, Rec!RecorderAssumption
  <1>24. ASSUME NEW p \in Panes, Rec!TheyPipe(p) PROVE Held'
    <2> SUFFICES ASSUME NEW q \in Ids \ (old \cup overtaken) PROVE HeldBy(q)'
      BY <1>24 DEF Held, Rec!TheyPipe, Rec!Turn, Rec!stopVars
    <2>1. HeldBy(q) BY DEF Held
    <2> QED BY <1>24, <2>1, Rec!RecorderAssumption, HeldKept DEF Rec!TheyPipe, Rec!Turn, Rec!startVars, Rec!stopVars, Rec!TypeOK, Rec!RecorderAssumption
  <1>25. ASSUME NEW p \in Panes, Rec!PipeBreaks(p) PROVE Held'
    <2> SUFFICES ASSUME NEW q \in Ids \ (old \cup overtaken) PROVE HeldBy(q)'
      BY <1>25 DEF Held, Rec!PipeBreaks, Rec!stopVars, Rec!procVars
    <2>1. HeldBy(q) BY DEF Held
    <2> QED BY <1>25, <2>1, Rec!RecorderAssumption, HeldKept DEF Rec!PipeBreaks, Rec!startVars, Rec!stopVars, Rec!procVars, Rec!TypeOK, Rec!RecorderAssumption
  <1>26. CASE Rec!Die
    <2> SUFFICES ASSUME NEW q \in Ids, at[q] = "idle" PROVE HeldBy(q)' BY <1>26 DEF Held, Rec!Die
    <2>1. q \notin old \cup overtaken BY DEF Processes, Course, CourseOf, Early
    <2>2. ~Rec!Holds(q) BY <2>1 DEF Held, HeldBy
    <2>3. ~Rec!Holds(q)' /\ at'[q] = "idle" BY <1>26, <2>2 DEF Rec!Die, Rec!Holds, Rec!tmuxVars
    <2> QED BY <2>3 DEF HeldBy, Late
  <1>27. CASE Rec!Boot
    <2> SUFFICES ASSUME NEW q \in Ids \ (old \cup overtaken) PROVE HeldBy(q)'
      BY <1>27 DEF Held, Rec!Boot, Rec!stopVars
    <2>1. HeldBy(q) BY DEF Held
    <2> QED BY <1>27, <2>1, HeldKept DEF Rec!Boot, Rec!startVars, Rec!stopVars, Rec!tmuxVars, Rec!TypeOK
  <1>28. CASE Rec!SweepClone
    <2> SUFFICES ASSUME NEW q \in Ids \ (old \cup overtaken) PROVE HeldBy(q)'
      BY <1>28 DEF Held, Rec!SweepClone, Rec!DestroyClone, Rec!stopVars, Rec!procVars
    <2>1. HeldBy(q) BY DEF Held
    <2> QED BY <1>28, <2>1, HeldKept DEF Rec!SweepClone, Rec!DestroyClone, Rec!startVars, Rec!stopVars, Rec!procVars, Rec!TypeOK
  <1>29. CASE UNCHANGED Rec!vars
    <2> SUFFICES ASSUME NEW q \in Ids \ (old \cup overtaken) PROVE HeldBy(q)'
      BY <1>29 DEF Held, Rec!vars, Rec!stopVars, Rec!procVars
    <2>1. HeldBy(q) BY DEF Held
    <2> QED BY <1>29, <2>1, HeldKept DEF Rec!vars, Rec!startVars, Rec!stopVars, Rec!procVars, Rec!tmuxVars, Rec!TypeOK
  <1>30. ASSUME NEW r \in Ids, Rec!MakeClone(r) PROVE Held'
    <2>1. UNCHANGED <<old, overtaken>> BY <1>30 DEF Rec!MakeClone, Rec!stopVars, Rec!procVars
    <2>2. r \notin old \cup overtaken => HeldBy(r)'
      <3> SUFFICES ASSUME r \notin old \cup overtaken PROVE HeldBy(r)' OBVIOUS
      <3>1. HeldBy(r) /\ at[r] = "cloning" BY <1>30 DEF Held, Rec!MakeClone
      <3>2. ~Rec!Holds(r) BY <3>1 DEF HeldBy
      <3>3. at'[r] = "locking" /\ UNCHANGED <<bridge, reading, fifo, pipe>>
        BY <1>30 DEF Rec!MakeClone, Rec!TypeOK
      <3> QED BY <3>2, <3>3 DEF HeldBy, Rec!Holds, Late
    <2> QED BY <1>30, <2>1, <2>2, HeldStepOf DEF Rec!MakeClone, Rec!stopVars, Rec!procVars, Rec!TypeOK
  <1> QED BY <1>1, <1>2, <1>3, <1>4, <1>5, <1>6, <1>7, <1>8, <1>9, <1>10, <1>11, <1>12, <1>13, <1>14, <1>15, <1>16, <1>17, <1>18, <1>19, <1>20, <1>21, <1>22, <1>23, <1>24, <1>25, <1>26, <1>27, <1>28, <1>29, <1>30
          DEF Rec!Next, Rec!Request, Rec!StartStep, Rec!StopStep, Rec!Event, Rec!IndexStep

-----------------------------------------------------------------------------
(***************************************************************************)
(* Steps that neither read nor write the index.                            *)
(***************************************************************************)
Listed(r) == at[r] \in {"putting", "running", "done"}
Recording(r) == r \in active \cup overtaken \/ stopping[r] # "idle"
Opened(r) == Rec!InStart(r) /\ at[r] # "checked"

\* The updates that have read the index are where they were.
SameJob(a) ==
    /\ job'[a].new = job[a].new /\ job'[a].drop = job[a].drop /\ job'[a].alone = job[a].alone
    /\ job'[a].st = "loaded" <=> job[a].st = "loaded"
    /\ job'[a].st = "unlink" <=> job[a].st = "unlink"
Quiet == UNCHANGED <<rows, overlap, up>> /\ \A a \in Rec!Actors : SameJob(a)

\* A recording goes on with its life: it takes no step back.
Onwards(r) ==
    /\ Listed(r) => Listed(r)'
    /\ Late(r) => Late(r)'
    /\ cast[r] => cast'[r]
    /\ Opened(r)' => Opened(r) \/ cast'[r]
    /\ writer[r] \in Rec!Reasons => writer'[r] = writer[r]
    /\ Listed(r) /\ Recording(r) => Recording(r)'

\* Nothing of the index is touched, nor of what the process is.
LEMMA SameJobs ==
  ASSUME UNCHANGED <<rows, overlap, up, job>> PROVE Quiet
  BY DEF Quiet, SameJob

\* An update is asked for, or waited for.
LEMMA AskedFor ==
  ASSUME Rec!TypeOK, UNCHANGED <<rows, overlap, up>>, NEW x \in Rec!Actors, NEW s \in {"load", "wait"},
         job[x].st \notin {"loaded", "unlink"}, job' = [job EXCEPT ![x].st = s]
  PROVE  Quiet
  <1>1. s \in States BY DEF States
  <1>2. /\ job'[x].st = s
        /\ \A b \in Rec!Actors : /\ b # x => job'[b] = job[b]
                             /\ job'[b].new = job[b].new /\ job'[b].drop = job[b].drop
                             /\ job'[b].alone = job[b].alone
    BY <1>1, MoveJob
  <1> QED BY <1>2 DEF Quiet, SameJob

\* A stop.
LEMMA StopGoesOn ==
  ASSUME Rec!TypeOK, Course, NEW R, NEW reason \in Rec!Reasons, Rec!Stop(R, reason), UNCHANGED <<at, cast>>,
         \A r \in Ids : writer'[r] = writer[r] \/ writer[r] = "open",
         NEW r \in Ids
  PROVE  Onwards(r)
  <1>1. /\ r \in active' <=> r \in active /\ r \notin R
        /\ r \in overtaken' <=> r \in overtaken \/ (r \in R \cap active /\ Rec!InStart(r))
        /\ r \in R \cap active => stopping'[r] = Rec!FirstHalt(r)
        /\ r \notin R \cap active => stopping'[r] = stopping[r]
    BY StopIs
  <1>2. Rec!FirstHalt(r) # "idle" BY DEF Rec!FirstHalt
  <1>3. writer[r] \in Rec!Reasons => writer[r] # "open" BY RowIs
  <1> QED BY <1>1, <1>2, <1>3 DEF Onwards, Listed, Late, Opened, Rec!InStart, Recording

\* The end of a stop.
LEMMA CloseGoesOn ==
  ASSUME Rec!TypeOK, Course, Updates, NEW r \in Ids, Rec!Close(r),
         stopping[r] \in {"unpiping", "uncloning", "closing"}
  PROVE  Quiet /\ \A q \in Ids : Onwards(q)
  <1>0. /\ stopping[r] # "idle" /\ UNCHANGED <<at, cast, rows, overlap, up, active, overtaken>>
        /\ job' = [job EXCEPT ![<<"patch", r>>].st = "load"]
    BY DEF Rec!Close, Rec!procVars
  <1>1. job[<<"patch", r>>].st = "idle" /\ <<"patch", r>> \in Rec!Actors
    BY ActorIs DEF Updates
  <1>2. Quiet BY <1>0, <1>1, AskedFor
  <1>3. /\ writer[r] # "open" => writer'[r] = writer[r]
        /\ stopping'[r] = "patching"
        /\ \A q \in Ids \ {r} : writer'[q] = writer[q] /\ stopping'[q] = stopping[q]
    BY <1>0, CloseIs
  <1>4. "open" \notin Rec!Reasons BY RowIs
  <1> QED BY <1>0, <1>2, <1>3, <1>4 DEF Onwards, Listed, Late, Opened, Rec!InStart, Recording

\* A start that failed before it came to the index.
LEMMA FailGoesOn ==
  ASSUME Rec!TypeOK, NEW r \in Ids, Rec!Fail(r), ~Listed(r)
  PROVE  Quiet /\ \A q \in Ids : Onwards(q)
  <1>0. UNCHANGED <<cast, rows, overlap, up, job, overtaken, stopping>>
    BY DEF Rec!Fail, Rec!procVars, Rec!indexVars, Rec!stopVars
  <1>1. Quiet BY <1>0, SameJobs
  <1>2. /\ at'[r] = "done"
        /\ writer'[r] = IF writer[r] = "open" THEN "other" ELSE writer[r]
        /\ \A q \in Ids \ {r} : /\ at'[q] = at[q] /\ writer'[q] = writer[q]
                                /\ q \in active' <=> q \in active
    BY FailIs
  <1>3. "open" \notin Rec!Reasons BY RowIs
  <1>4. Onwards(r)
    BY <1>0, <1>2, <1>3 DEF Onwards, Listed, Late, Opened, Rec!InStart, Recording
  <1>5. ASSUME NEW q \in Ids \ {r} PROVE Onwards(q)
    BY <1>0, <1>2, <1>3 DEF Onwards, Listed, Late, Opened, Rec!InStart, Recording
  <1> QED BY <1>1, <1>4, <1>5

\* A start that goes on to the index.
LEMMA PutGoesOn ==
  ASSUME Rec!TypeOK, Updates, NEW r \in Ids, at[r] \in {"locking", "piping"},
         at' = [at EXCEPT ![r] = "putting"],
         job' = [job EXCEPT ![<<"put", r>>].st = "load"],
         UNCHANGED <<rows, overlap, up, cast, writer, active, stopping, overtaken>>
  PROVE  Quiet /\ \A q \in Ids : Onwards(q)
  <1>1. job[<<"put", r>>].st = "idle" /\ <<"put", r>> \in Rec!Actors BY ActorIs DEF Updates
  <1>2. Quiet BY <1>1, AskedFor
  <1>3. at'[r] = "putting" /\ \A q \in Ids \ {r} : at'[q] = at[q] BY DEF Rec!TypeOK
  <1>4. ASSUME NEW q \in Ids PROVE Onwards(q)
    BY <1>3 DEF Onwards, Listed, Late, Opened, Rec!InStart, Recording
  <1> QED BY <1>2, <1>4

Touches == \/ \E a \in Rec!Actors : Rec!Load(a) \/ Rec!Save(a) \/ Rec!Unlink(a)
           \/ Rec!Die \/ Rec!Boot

\* Every other step of the recorder.
LEMMA QuietStep ==
  ASSUME Rec!TypeOK, Course, Updates, [Rec!Next]_Rec!vars
  PROVE  Touches \/ (Quiet /\ \A q \in Ids : Onwards(q))
  <1>1. ASSUME NEW r \in Ids, NEW t \in Rec!Targets, Rec!Start(r, t) PROVE Touches \/ (Quiet /\ \A q \in Ids : Onwards(q))
    <2>1. UNCHANGED <<rows, overlap, up, job>> BY <1>1 DEF Rec!Start, Rec!stopVars, Rec!procVars, Rec!tmuxVars, Rec!indexVars
    <2>2. Quiet BY <2>1, SameJobs
    <2>3. ASSUME NEW q \in Ids PROVE Onwards(q)
      BY <1>1 DEF Rec!Start, Rec!stopVars, Rec!procVars, Rec!tmuxVars, Rec!indexVars, Onwards, Listed, Late, Opened, Rec!InStart, Recording, Rec!TypeOK
    <2> QED BY <2>2, <2>3
  <1>2. ASSUME NEW r \in Ids, Rec!RequestStop(r) PROVE Touches \/ (Quiet /\ \A q \in Ids : Onwards(q))
    <2>1. Rec!Stop({r}, "other") /\ UNCHANGED <<at, cast, rows, overlap, up, job>>
          /\ UNCHANGED writer
      BY <1>2 DEF Rec!RequestStop, Rec!indexVars, Rec!procVars, Rec!Turn
    <2>2. "other" \in Rec!Reasons BY RowIs
    <2>3. Quiet BY <2>1, SameJobs
    <2>4. \A q \in Ids : writer'[q] = writer[q] \/ writer[q] = "open" BY <2>1 DEF Rec!TypeOK
    <2> QED BY <2>1, <2>2, <2>3, <2>4, StopGoesOn
  <1>3. ASSUME NEW r \in Ids, NEW first \in BOOLEAN, Rec!Delete(r, first) PROVE Touches \/ (Quiet /\ \A q \in Ids : Onwards(q))
    <2>1. UNCHANGED <<at, cast, rows, overlap, up, writer>> /\ job[<<"remove", r>>].st = "idle"
      BY <1>3 DEF Rec!Delete, Rec!Turn
    <2>2. "other" \in Rec!Reasons /\ <<"remove", r>> \in Rec!Actors BY RowIs, ActorIs
    <2>3. \/ job' = [job EXCEPT ![<<"remove", r>>].st = "load"]
          \/ job' = [job EXCEPT ![<<"remove", r>>].st = "wait"]
      BY <1>3 DEF Rec!Delete
    <2>4. Quiet BY <2>1, <2>2, <2>3, AskedFor
    <2>5. ASSUME UNCHANGED <<active, bridge, Rec!stopVars>>, NEW q \in Ids PROVE Onwards(q)
      BY <2>1, <2>5 DEF Rec!stopVars, Onwards, Listed, Late, Opened, Rec!InStart, Recording
    <2>6. ASSUME Rec!Stop({r}, "other"), NEW q \in Ids PROVE Onwards(q)
      BY <2>1, <2>2, <2>6, StopGoesOn
    <2> QED BY <1>3, <2>4, <2>5, <2>6, DeleteIs
  <1>4. ASSUME NEW r \in Ids, Rec!StartRefused(r) PROVE Touches \/ (Quiet /\ \A q \in Ids : Onwards(q))
    <2>1. UNCHANGED <<rows, overlap, up, job>> BY <1>4 DEF Rec!StartRefused, Rec!stopVars, Rec!procVars, Rec!tmuxVars, Rec!indexVars
    <2>2. Quiet BY <2>1, SameJobs
    <2>3. ASSUME NEW q \in Ids PROVE Onwards(q)
      BY <1>4 DEF Rec!StartRefused, Rec!stopVars, Rec!procVars, Rec!tmuxVars, Rec!indexVars, Onwards, Listed, Late, Opened, Rec!InStart, Recording, Rec!TypeOK
    <2> QED BY <2>2, <2>3
  <1>5. ASSUME NEW r \in Ids, Rec!Announce(r) PROVE Touches \/ (Quiet /\ \A q \in Ids : Onwards(q))
    <2>1. UNCHANGED <<rows, overlap, up, job>> BY <1>5 DEF Rec!Announce, Rec!stopVars, Rec!procVars, Rec!tmuxVars, Rec!indexVars
    <2>2. Quiet BY <2>1, SameJobs
    <2>3. ASSUME NEW q \in Ids PROVE Onwards(q)
      BY <1>5, RowIs DEF Rec!Announce, Rec!stopVars, Rec!procVars, Rec!tmuxVars, Rec!indexVars, Onwards, Listed, Late, Opened, Rec!InStart, Recording, Rec!TypeOK, Course, CourseOf, Early
    <2> QED BY <2>2, <2>3
  <1>6. ASSUME NEW r \in Ids, Rec!Attach(r) PROVE Touches \/ (Quiet /\ \A q \in Ids : Onwards(q))
    BY <1>6, PutGoesOn DEF Rec!Attach, Rec!stopVars, Rec!procVars
  <1>7. ASSUME NEW r \in Ids, Rec!AttachFails(r) PROVE Touches \/ (Quiet /\ \A q \in Ids : Onwards(q))
    BY <1>7, FailGoesOn DEF Rec!AttachFails, Listed
  <1>8. ASSUME NEW r \in Ids, Rec!MakeFifo(r) PROVE Touches \/ (Quiet /\ \A q \in Ids : Onwards(q))
    <2>1. UNCHANGED <<rows, overlap, up, job>> BY <1>8 DEF Rec!MakeFifo, Rec!stopVars, Rec!procVars, Rec!tmuxVars, Rec!indexVars
    <2>2. Quiet BY <2>1, SameJobs
    <2>3. ASSUME NEW q \in Ids PROVE Onwards(q)
      BY <1>8 DEF Rec!MakeFifo, Rec!stopVars, Rec!procVars, Rec!tmuxVars, Rec!indexVars, Onwards, Listed, Late, Opened, Rec!InStart, Recording, Rec!TypeOK
    <2> QED BY <2>2, <2>3
  <1>9. ASSUME NEW r \in Ids, Rec!NoFifo(r) PROVE Touches \/ (Quiet /\ \A q \in Ids : Onwards(q))
    BY <1>9, FailGoesOn DEF Rec!NoFifo, Listed
  <1>10. ASSUME NEW r \in Ids, Rec!PipePane(r) PROVE Touches \/ (Quiet /\ \A q \in Ids : Onwards(q))
    BY <1>10, PutGoesOn DEF Rec!PipePane, Rec!stopVars, Rec!procVars
  <1>11. ASSUME NEW r \in Ids, Rec!PipeFails(r) PROVE Touches \/ (Quiet /\ \A q \in Ids : Onwards(q))
    BY <1>11, FailGoesOn DEF Rec!PipeFails, Listed
  <1>12. ASSUME NEW r \in Ids, Rec!Unpipe(r) PROVE Touches \/ (Quiet /\ \A q \in Ids : Onwards(q))
    <2>1. Rec!Close(r) /\ stopping[r] \in {"unpiping", "uncloning", "closing"} BY <1>12 DEF Rec!Unpipe
    <2> QED BY <2>1, CloseGoesOn
  <1>13. ASSUME NEW r \in Ids, Rec!Unclone(r) PROVE Touches \/ (Quiet /\ \A q \in Ids : Onwards(q))
    <2>1. Rec!Close(r) /\ stopping[r] \in {"unpiping", "uncloning", "closing"} BY <1>13 DEF Rec!Unclone
    <2> QED BY <2>1, CloseGoesOn
  <1>14. ASSUME NEW r \in Ids, Rec!CloseAtOnce(r) PROVE Touches \/ (Quiet /\ \A q \in Ids : Onwards(q))
    <2>1. Rec!Close(r) /\ stopping[r] \in {"unpiping", "uncloning", "closing"} BY <1>14 DEF Rec!CloseAtOnce
    <2> QED BY <2>1, CloseGoesOn
  <1>15. ASSUME NEW r \in Ids, Rec!Ready(r) PROVE Touches \/ (Quiet /\ \A q \in Ids : Onwards(q))
    <2>1. UNCHANGED <<rows, overlap, up, job>> BY <1>15 DEF Rec!Ready, Rec!stopVars, Rec!procVars, Rec!tmuxVars, Rec!indexVars
    <2>2. Quiet BY <2>1, SameJobs
    <2>3. ASSUME NEW q \in Ids PROVE Onwards(q)
      BY <1>15 DEF Rec!Ready, Rec!stopVars, Rec!procVars, Rec!tmuxVars, Rec!indexVars, Onwards, Listed, Late, Opened, Rec!InStart, Recording, Rec!TypeOK
    <2> QED BY <2>2, <2>3
  <1>16. ASSUME NEW r \in Ids, Rec!HitLimit(r) PROVE Touches \/ (Quiet /\ \A q \in Ids : Onwards(q))
    <2>1. Rec!Stop({r}, "limit") /\ UNCHANGED <<at, cast, rows, overlap, up, job>>
          /\ writer' = [writer EXCEPT ![r] = "limit"] /\ writer[r] = "open"
      BY <1>16 DEF Rec!HitLimit, Rec!indexVars, Rec!procVars, Rec!Turn
    <2>2. "limit" \in Rec!Reasons BY RowIs
    <2>3. Quiet BY <2>1, SameJobs
    <2>4. \A q \in Ids : writer'[q] = writer[q] \/ writer[q] = "open" BY <2>1 DEF Rec!TypeOK
    <2> QED BY <2>1, <2>2, <2>3, <2>4, StopGoesOn
  <1>17. ASSUME NEW r \in Ids, Rec!PtyExits(r) PROVE Touches \/ (Quiet /\ \A q \in Ids : Onwards(q))
    <2>1. (Rec!Stop({r}, "other") \/ UNCHANGED <<active, Rec!stopVars>>)
          /\ UNCHANGED <<at, cast, rows, overlap, up, job, writer>>
      BY <1>17 DEF Rec!PtyExits, Rec!indexVars, Rec!procVars
    <2>2. "other" \in Rec!Reasons BY RowIs
    <2>3. Quiet BY <2>1, SameJobs
    <2>4. ASSUME UNCHANGED <<active, Rec!stopVars>>, NEW q \in Ids PROVE Onwards(q)
      BY <2>1, <2>4 DEF Rec!stopVars, Onwards, Listed, Late, Opened, Rec!InStart, Recording
    <2> QED BY <2>1, <2>2, <2>3, <2>4, StopGoesOn
  <1>18. ASSUME NEW r \in Ids, Rec!FifoError(r) PROVE Touches \/ (Quiet /\ \A q \in Ids : Onwards(q))
    <2>1. Rec!Stop({r}, "other") /\ UNCHANGED <<at, cast, rows, overlap, up, job>>
          /\ UNCHANGED writer
      BY <1>18 DEF Rec!FifoError, Rec!indexVars, Rec!procVars, Rec!Turn
    <2>2. "other" \in Rec!Reasons BY RowIs
    <2>3. Quiet BY <2>1, SameJobs
    <2>4. \A q \in Ids : writer'[q] = writer[q] \/ writer[q] = "open" BY <2>1 DEF Rec!TypeOK
    <2> QED BY <2>1, <2>2, <2>3, <2>4, StopGoesOn
  <1>19. CASE Rec!StopAll
    <2>1. Rec!Stop(active, "other") /\ UNCHANGED <<at, cast, rows, overlap, up, job>>
          /\ UNCHANGED writer
      BY <1>19 DEF Rec!StopAll, Rec!indexVars, Rec!procVars, Rec!Turn
    <2>2. "other" \in Rec!Reasons BY RowIs
    <2>3. Quiet BY <2>1, SameJobs
    <2>4. \A q \in Ids : writer'[q] = writer[q] \/ writer[q] = "open" BY <2>1 DEF Rec!TypeOK
    <2> QED BY <2>1, <2>2, <2>3, <2>4, StopGoesOn
  <1>20. ASSUME NEW a \in Rec!Actors, Rec!Load(a) PROVE Touches \/ (Quiet /\ \A q \in Ids : Onwards(q))
    BY <1>20 DEF Touches
  <1>21. ASSUME NEW a \in Rec!Actors, Rec!Save(a) PROVE Touches \/ (Quiet /\ \A q \in Ids : Onwards(q))
    BY <1>21 DEF Touches
  <1>22. ASSUME NEW a \in Rec!Actors, Rec!Unlink(a) PROVE Touches \/ (Quiet /\ \A q \in Ids : Onwards(q))
    BY <1>22 DEF Touches
  <1>23. ASSUME NEW t \in Rec!Targets, Rec!TargetEnds(t) PROVE Touches \/ (Quiet /\ \A q \in Ids : Onwards(q))
    <2>1. UNCHANGED <<rows, overlap, up, job>> BY <1>23 DEF Rec!TargetEnds, Rec!Turn, Rec!startVars, Rec!stopVars, Rec!indexVars
    <2>2. Quiet BY <2>1, SameJobs
    <2>3. ASSUME NEW q \in Ids PROVE Onwards(q)
      BY <1>23 DEF Rec!TargetEnds, Rec!Turn, Rec!startVars, Rec!stopVars, Rec!indexVars, Onwards, Listed, Late, Opened, Rec!InStart, Recording, Rec!TypeOK
    <2> QED BY <2>2, <2>3
  <1>24. ASSUME NEW p \in Panes, Rec!TheyPipe(p) PROVE Touches \/ (Quiet /\ \A q \in Ids : Onwards(q))
    <2>1. UNCHANGED <<rows, overlap, up, job>> BY <1>24 DEF Rec!TheyPipe, Rec!Turn, Rec!startVars, Rec!stopVars, Rec!indexVars
    <2>2. Quiet BY <2>1, SameJobs
    <2>3. ASSUME NEW q \in Ids PROVE Onwards(q)
      BY <1>24 DEF Rec!TheyPipe, Rec!Turn, Rec!startVars, Rec!stopVars, Rec!indexVars, Onwards, Listed, Late, Opened, Rec!InStart, Recording, Rec!TypeOK
    <2> QED BY <2>2, <2>3
  <1>25. ASSUME NEW p \in Panes, Rec!PipeBreaks(p) PROVE Touches \/ (Quiet /\ \A q \in Ids : Onwards(q))
    <2>1. UNCHANGED <<rows, overlap, up, job>> BY <1>25 DEF Rec!PipeBreaks, Rec!startVars, Rec!stopVars, Rec!procVars, Rec!indexVars
    <2>2. Quiet BY <2>1, SameJobs
    <2>3. ASSUME NEW q \in Ids PROVE Onwards(q)
      BY <1>25 DEF Rec!PipeBreaks, Rec!startVars, Rec!stopVars, Rec!procVars, Rec!indexVars, Onwards, Listed, Late, Opened, Rec!InStart, Recording, Rec!TypeOK
    <2> QED BY <2>2, <2>3
  <1>26. CASE Rec!Die
    BY <1>26 DEF Touches
  <1>27. CASE Rec!Boot
    BY <1>27 DEF Touches
  <1>28. CASE Rec!SweepClone
    <2>1. UNCHANGED <<rows, overlap, up, job>> BY <1>28 DEF Rec!SweepClone, Rec!DestroyClone, Rec!startVars, Rec!stopVars, Rec!procVars, Rec!indexVars
    <2>2. Quiet BY <2>1, SameJobs
    <2>3. ASSUME NEW q \in Ids PROVE Onwards(q)
      BY <1>28 DEF Rec!SweepClone, Rec!DestroyClone, Rec!startVars, Rec!stopVars, Rec!procVars, Rec!indexVars, Onwards, Listed, Late, Opened, Rec!InStart, Recording, Rec!TypeOK
    <2> QED BY <2>2, <2>3
  <1>29. CASE UNCHANGED Rec!vars
    <2>1. UNCHANGED <<rows, overlap, up, job>> BY <1>29 DEF Rec!vars, Rec!startVars, Rec!stopVars, Rec!procVars, Rec!tmuxVars, Rec!indexVars
    <2>2. Quiet BY <2>1, SameJobs
    <2>3. ASSUME NEW q \in Ids PROVE Onwards(q)
      BY <1>29 DEF Rec!vars, Rec!startVars, Rec!stopVars, Rec!procVars, Rec!tmuxVars, Rec!indexVars, Onwards, Listed, Late, Opened, Rec!InStart, Recording, Rec!TypeOK
    <2> QED BY <2>2, <2>3
  <1>30. ASSUME NEW r \in Ids, Rec!MakeClone(r) PROVE Touches \/ (Quiet /\ \A q \in Ids : Onwards(q))
    <2>1. UNCHANGED <<rows, overlap, up, job>> BY <1>30 DEF Rec!MakeClone, Rec!procVars, Rec!indexVars
    <2>2. Quiet BY <2>1, SameJobs
    <2>3. ASSUME NEW q \in Ids PROVE Onwards(q)
      BY <1>30 DEF Rec!MakeClone, Rec!stopVars, Rec!procVars, Rec!indexVars, Onwards, Listed, Late, Opened, Rec!InStart, Recording, Rec!TypeOK
    <2> QED BY <2>2, <2>3
  <1> QED BY <1>1, <1>2, <1>3, <1>4, <1>5, <1>6, <1>7, <1>8, <1>9, <1>10, <1>11, <1>12, <1>13, <1>14, <1>15, <1>16, <1>17, <1>18, <1>19, <1>20, <1>21, <1>22, <1>23, <1>24, <1>25, <1>26, <1>27, <1>28, <1>29, <1>30
          DEF Rec!Next, Rec!Request, Rec!StartStep, Rec!StopStep, Rec!Event, Rec!IndexStep

-----------------------------------------------------------------------------
(***************************************************************************)
(* The steps that touch the index.                                         *)
(***************************************************************************)
\* A version of the index about to be written differs from the one read in what
\* the update is for, and makes no row but the one it adds.
LEMMA UpdatedFollows ==
  ASSUME Rec!TypeOK, Course, Updates, NEW a \in Rec!Actors, a = Rec!Sweeper \/ job[a].st = "load",
         ~Rec!NothingToDo(a), NEW r \in Ids
  PROVE  /\ Rec!Updated(a)[r] # "none" => rows[r] # "none" \/ a = <<"put", r>>
         /\ Rec!Updated(a)[r] = "live" => rows[r] = "live" \/ a = <<"put", r>>
         /\ Rec!Updated(a)[r] \in Rec!Reasons => rows[r] = Rec!Updated(a)[r] \/ writer[r] = Rec!Updated(a)[r]
         /\ a = Rec!Sweeper \/ a = <<"patch", r>> => Rec!Updated(a)[r] # "live"
  <1>0. rows \in [Ids -> Rec!Row] BY DEF Rec!TypeOK, Rec!Rows
  <1>1. \A q \in Ids : a = <<"patch", q>> =>
           why[q] \in Rec!Reasons /\ stopping[q] = "patching" /\ why[q] = writer[q]
    BY PatchKnows, ActorsDiffer
  <1>2. /\ a = Rec!Sweeper => Rec!Updated(a)[r] \in {"none", Rec!Interrupted(rows[r])}
        /\ \A q \in Ids :
              /\ a = <<"put", q>> => Rec!Updated(a) = [rows EXCEPT ![q] = "live"]
              /\ a = <<"patch", q>> => Rec!Updated(a) = [rows EXCEPT ![q] = why[q]]
              /\ a = <<"remove", q>> => Rec!Updated(a) = [rows EXCEPT ![q] = "none"]
    BY <1>1, UpdatedType
  <1>3. CASE a = Rec!Sweeper
    <2>1. \A q \in Ids : a # <<"put", q>> /\ a # <<"patch", q>> BY <1>3, ActorsDiffer
    <2> QED BY <1>0, <1>2, <1>3, <2>1, RowIs DEF Rec!Interrupted
  <1>4. ASSUME NEW q \in Ids, a = <<"put", q>>
        PROVE  /\ Rec!Updated(a)[r] = IF r = q THEN "live" ELSE rows[r]
               /\ a # Rec!Sweeper /\ a # <<"patch", r>>
    BY <1>0, <1>2, <1>4, ActorsDiffer
  <1>5. ASSUME NEW q \in Ids, a = <<"patch", q>>
        PROVE  /\ Rec!Updated(a)[r] = IF r = q THEN why[r] ELSE rows[r]
               /\ a # Rec!Sweeper /\ (a = <<"patch", r>> <=> r = q)
               /\ rows[q] # "none" /\ why[q] \in Rec!Reasons /\ why[q] = writer[q]
    <2>1. a # Rec!Sweeper /\ (a = <<"patch", r>> <=> r = q) BY <1>5, ActorsDiffer
    <2>2. a[1] # "put" /\ a[2] = q BY <1>5
    <2>3. rows[q] # "none" BY <2>1, <2>2 DEF Rec!NothingToDo
    <2> QED BY <1>0, <1>1, <1>2, <1>5, <2>1, <2>3
  <1>6. ASSUME NEW q \in Ids, a = <<"remove", q>>
        PROVE  /\ Rec!Updated(a)[r] = IF r = q THEN "none" ELSE rows[r]
               /\ a # Rec!Sweeper /\ a # <<"patch", r>>
    BY <1>0, <1>2, <1>6, ActorsDiffer
  <1>7. CASE \E q \in Ids : a = <<"put", q>> BY <1>4, <1>7, RowIs
  <1>8. CASE \E q \in Ids : a = <<"patch", q>> BY <1>5, <1>8, RowIs
  <1>9. CASE \E q \in Ids : a = <<"remove", q>> BY <1>6, <1>9, RowIs
  <1> QED BY <1>3, <1>7, <1>8, <1>9, ActorIs

\* Reading the index changes nothing else than the update, and ends a stop that
\* finds no row.
LEMMA LoadMoves ==
  ASSUME Rec!TypeOK, Course, Updates, NEW a \in Rec!Actors, Rec!Load(a)
  PROVE  /\ UNCHANGED <<at, writer, cast, rows, up, active, overtaken, clone, old, orphans>>
         /\ a # Rec!Sweeper /\ job[a].st = "load"
         /\ \A r \in Ids : stopping'[r] = stopping[r] \/ rows[r] = "none"
  <1>1. UNCHANGED <<writer, cast, rows, up, active, overtaken, clone, old, orphans>>
        /\ job[a].st = "load"
    BY DEF Rec!Load, Rec!procVars, Rec!tmuxVars
  <1>2. a # Rec!Sweeper BY <1>1 DEF Updates
  <1>3. CASE ~Rec!NothingToDo(a) BY <1>1, <1>2, <1>3, LoadIs
  <1>4. CASE Rec!NothingToDo(a)
    <2>1. Rec!Over(a, TRUE) BY <1>4, LoadIs
    <2>2. a[1] # "put" /\ rows[a[2]] = "none" BY <1>2, <1>4 DEF Rec!NothingToDo
    <2>3. UNCHANGED at BY <2>1, <2>2 DEF Rec!Over
    <2>4. ASSUME NEW r \in Ids PROVE stopping'[r] = stopping[r] \/ rows[r] = "none"
      <3>1. stopping'[r] = IF a = <<"patch", r>> THEN "idle" ELSE stopping[r] BY <2>1, OverIs
      <3>2. a = <<"patch", r>> => rows[r] = "none" BY <2>2
      <3> QED BY <3>1, <3>2
    <2> QED BY <1>1, <1>2, <2>3, <2>4
  <1> QED BY <1>3, <1>4

\* Writing it moves the coroutine that waited for it.
LEMMA SaveMoves ==
  ASSUME Rec!TypeOK, Updates, NEW a \in Rec!Actors, Rec!Save(a)
  PROVE  /\ UNCHANGED <<writer, cast, up, active, overtaken, clone, old, orphans, overlap>>
         /\ job[a].st = "loaded"
         /\ \A r \in Ids :
              /\ at'[r] = at[r] \/ (a = <<"put", r>> /\ at[r] = "putting"
                                    /\ at'[r] \in {"running", "done"})
              /\ a = <<"put", r>> => at[r] = "putting" /\ at'[r] \in {"running", "done"}
              /\ stopping'[r] = stopping[r] \/ a = <<"patch", r>>
  <1>1. UNCHANGED <<writer, cast, up, active, overtaken, clone, old, orphans, overlap>>
        /\ job[a].st = "loaded"
    BY DEF Rec!Save, Rec!procVars, Rec!tmuxVars
  <1>2. PICK ok \in BOOLEAN : Rec!Over(a, ok) BY SaveIs
  <1>3. ASSUME NEW r \in Ids
        PROVE  /\ at'[r] = IF a = <<"put", r>> THEN IF ok THEN "running" ELSE "done" ELSE at[r]
               /\ stopping'[r] = IF a = <<"patch", r>> THEN "idle" ELSE stopping[r]
    BY <1>2, OverIs
  <1>4. ASSUME NEW r \in Ids, a = <<"put", r>> PROVE at[r] = "putting"
    BY <1>1, <1>4 DEF Updates
  <1> QED BY <1>1, <1>3, <1>4

\* Unlinking what a deletion or the sweep dropped.
LEMMA UnlinkMoves ==
  ASSUME Rec!TypeOK, NEW a \in Rec!Actors, Rec!Unlink(a)
  PROVE  /\ UNCHANGED <<Rec!startVars, Rec!stopVars, rows, overlap, up, old, clone, orphans>>
         /\ job[a].st = "unlink"
         /\ \A r \in Ids : cast'[r] <=> cast[r] /\ r \notin job[a].drop
         /\ job'[a] = Rec!Idle /\ \A b \in Rec!Actors : b # a => job'[b] = job[b]
  <1>1. job' = [job EXCEPT ![a] = Rec!Idle] BY DEF Rec!Unlink
  <1>2. job'[a] = Rec!Idle /\ \A b \in Rec!Actors : b # a => job'[b] = job[b]
    BY <1>1, SetJob, JobsType, IdleIs
  <1> QED BY <1>2 DEF Rec!Unlink, Rec!procVars, Rec!tmuxVars

\* The end of the process.
LEMMA DieMoves ==
  ASSUME Rec!TypeOK, Rec!Die
  PROVE  /\ ~up' /\ \A a \in Rec!Actors : job'[a] = Rec!Idle
         /\ UNCHANGED <<writer, rows, overlap, cast>>
         /\ \A r \in Ids : at'[r] = IF at[r] = "idle" THEN "idle" ELSE "done"
  BY DEF Rec!Die

\* The next one: the sweep finds no row, or begins.
LEMMA BootMoves ==
  ASSUME Rec!TypeOK, Processes, Rec!Boot
  PROVE  /\ UNCHANGED <<Rec!startVars, Rec!stopVars, rows, cast, old, clone>> /\ up'
         /\ orphans' = Rec!CloneSessions /\ overlap' # "now"
         /\ overlap' = "never" => overlap = "never"
         /\ Rec!Busy = {} /\ \A a \in Rec!Actors : job[a] = Rec!Idle
         /\ \/ Rec!NothingToDo(Rec!Sweeper) /\ UNCHANGED job
            \/ ~Rec!NothingToDo(Rec!Sweeper) /\ job' = Rec!Begun(Rec!Sweeper)
  <1>1. \A a \in Rec!Actors : job[a] = Rec!Idle BY DEF Rec!Boot, Processes
  <1>2. Rec!Busy = {} BY <1>1, IdleIs DEF Rec!Busy
  <1> QED BY <1>1, <1>2 DEF Rec!Boot, Rec!tmuxVars, Rec!TypeOK

-----------------------------------------------------------------------------
(***************************************************************************)
(* The index says nothing untrue.                                          *)
(***************************************************************************)
\* What was true stays true of recordings that go on.
LEMMA TruthGoesOn ==
  ASSUME NEW file, Truthful(file),
         \A r \in Ids : /\ Listed(r) => Listed(r)'
                        /\ writer[r] \in Rec!Reasons => writer'[r] = writer[r]
  PROVE  \A r \in Ids : /\ file[r] # "none" => at'[r] \in {"putting", "running", "done"}
                        /\ file[r] \in Rec!Reasons => writer'[r] = file[r]
  BY DEF Truthful, Listed

\* An update begins from the truth.
LEMMA UpdatedTruthful ==
  ASSUME Rec!TypeOK, Course, Updates, Truth, NEW a \in Rec!Actors, a = Rec!Sweeper \/ job[a].st = "load",
         ~Rec!NothingToDo(a)
  PROVE  Truthful(Rec!Updated(a))
  <1> SUFFICES ASSUME NEW r \in Ids
               PROVE  /\ Rec!Updated(a)[r] # "none" => at[r] \in {"putting", "running", "done"}
                      /\ Rec!Updated(a)[r] \in Rec!Reasons => writer[r] = Rec!Updated(a)[r]
    BY DEF Truthful
  <1>1. /\ Rec!Updated(a)[r] # "none" => rows[r] # "none" \/ a = <<"put", r>>
        /\ Rec!Updated(a)[r] \in Rec!Reasons => rows[r] = Rec!Updated(a)[r] \/ writer[r] = Rec!Updated(a)[r]
    BY UpdatedFollows
  <1>2. /\ rows[r] # "none" => at[r] \in {"putting", "running", "done"}
        /\ rows[r] \in Rec!Reasons => writer[r] = rows[r]
    BY DEF Truth, Truthful
  <1>3. a = <<"put", r>> => at[r] = "putting" BY ActorsDiffer DEF Updates
  <1> QED BY <1>1, <1>2, <1>3

\* Every step of the recorder.
LEMMA TruthStep ==
  ASSUME Rec!TypeOK, Course, Updates, Processes, Truth, [Rec!Next]_Rec!vars
  PROVE  Truth'
  <1> DEFINE On == \A r \in Ids : /\ Listed(r) => Listed(r)'
                                  /\ writer[r] \in Rec!Reasons => writer'[r] = writer[r]
             T(file) == \A r \in Ids : /\ file[r] # "none" => at'[r] \in {"putting", "running", "done"}
                                       /\ file[r] \in Rec!Reasons => writer'[r] = file[r]
  <1>0. SUFFICES T(rows') /\ \A b \in Rec!Actors : T(job'[b].new)
    BY DEF Truth, Truthful
  <1>a. ASSUME On PROVE T(rows) /\ \A b \in Rec!Actors : T(job[b].new)
    BY <1>a, TruthGoesOn DEF Truth
  <1>b. T(Rec!NoRows) /\ T(Rec!Idle.new) BY RowIs, IdleIs
  <1>c. ASSUME On, NEW a \in Rec!Actors, a = Rec!Sweeper \/ job[a].st = "load", ~Rec!NothingToDo(a),
               job' = Rec!Begun(a), UNCHANGED rows
        PROVE  T(rows') /\ \A b \in Rec!Actors : T(job'[b].new)
    <2>1. Truthful(Rec!Updated(a)) BY <1>c, UpdatedTruthful
    <2>2. T(Rec!Updated(a)) BY <1>c, <2>1, TruthGoesOn
    <2>3. \A r \in Ids : a = <<"patch", r>> => why[r] \in Rec!Reasons
      BY <1>c, PatchKnows, ActorsDiffer
    <2>4. \A b \in Rec!Actors : job'[b].new = IF b = a THEN Rec!Updated(a) ELSE job[b].new
      BY <1>c, <2>3, BegunIs
    <2> QED BY <1>a, <1>c, <2>2, <2>4
  <1>1. CASE Quiet /\ \A q \in Ids : Onwards(q)
    <2>1. On BY <1>1 DEF Onwards
    <2>2. rows' = rows /\ \A b \in Rec!Actors : job'[b].new = job[b].new BY <1>1 DEF Quiet, SameJob
    <2> HIDE DEF On, T
    <2> QED BY <1>a, <2>1, <2>2
  <1>2. ASSUME NEW a \in Rec!Actors, Rec!Load(a) PROVE T(rows') /\ \A b \in Rec!Actors : T(job'[b].new)
    <2>1. UNCHANGED <<at, writer, rows>> /\ job[a].st = "load" BY <1>2, LoadMoves
    <2>2. On BY <2>1 DEF Listed
    <2>3. CASE Rec!NothingToDo(a)
      <3>1. job'[a].new = Rec!NoRows /\ \A b \in Rec!Actors \ {a} : job'[b].new = job[b].new
        BY <1>2, <2>3, LoadIs
      <3> HIDE DEF On, T
      <3> QED BY <1>a, <1>b, <2>1, <2>2, <3>1
    <2>4. CASE ~Rec!NothingToDo(a)
      <3>1. job' = Rec!Begun(a) BY <1>2, <2>4, LoadIs
      <3> HIDE DEF On, T
      <3> QED BY <1>c, <2>1, <2>2, <2>4, <3>1
    <2> QED BY <2>3, <2>4
  <1>3. ASSUME NEW a \in Rec!Actors, Rec!Save(a) PROVE T(rows') /\ \A b \in Rec!Actors : T(job'[b].new)
    <2>1. /\ UNCHANGED writer
          /\ \A r \in Ids : at'[r] = at[r] \/ (at[r] = "putting" /\ at'[r] \in {"running", "done"})
      BY <1>3, SaveMoves
    <2>2. On BY <2>1 DEF Listed
    <2>3. /\ rows' \in {Rec!NoRows, rows} \cup {job[b].new : b \in Rec!Actors}
          /\ job'[a].new \in {Rec!NoRows, job[a].new}
          /\ \A b \in Rec!Actors \ {a} : job'[b].new = job[b].new
      BY <1>3, SaveIs
    <2> HIDE DEF On, T
    <2> QED BY <1>a, <1>b, <2>2, <2>3
  <1>4. ASSUME NEW a \in Rec!Actors, Rec!Unlink(a) PROVE T(rows') /\ \A b \in Rec!Actors : T(job'[b].new)
    <2>1. /\ UNCHANGED <<at, writer, rows>> /\ job'[a] = Rec!Idle
          /\ \A b \in Rec!Actors : b # a => job'[b] = job[b]
      BY <1>4, UnlinkMoves DEF Rec!startVars
    <2>2. On BY <2>1 DEF Listed
    <2> HIDE DEF On, T
    <2> QED BY <1>a, <1>b, <2>1, <2>2
  <1>5. CASE Rec!Die
    <2>1. /\ \A a \in Rec!Actors : job'[a] = Rec!Idle
          /\ UNCHANGED <<writer, rows>>
          /\ \A r \in Ids : at'[r] = IF at[r] = "idle" THEN "idle" ELSE "done"
      BY <1>5, DieMoves
    <2>2. On BY <2>1 DEF Listed
    <2> HIDE DEF On, T
    <2> QED BY <1>a, <1>b, <2>1, <2>2
  <1>6. CASE Rec!Boot
    <2>1. /\ UNCHANGED <<at, writer, rows>>
          /\ \/ Rec!NothingToDo(Rec!Sweeper) /\ UNCHANGED job
             \/ ~Rec!NothingToDo(Rec!Sweeper) /\ job' = Rec!Begun(Rec!Sweeper)
      BY <1>6, BootMoves DEF Rec!startVars
    <2>2. On BY <2>1 DEF Listed
    <2> HIDE DEF On, T
    <2> QED BY <1>a, <1>c, <2>1, <2>2, ActorIs
  <1> QED BY <1>1, <1>2, <1>3, <1>4, <1>5, <1>6, QuietStep DEF Touches

-----------------------------------------------------------------------------
(***************************************************************************)
(* Updates that do not overlap.                                            *)
(***************************************************************************)
\* An update that begins while none is under way.
LEMMA BeginsAlone ==
  ASSUME Rec!TypeOK, Course, Updates, NEW a \in Rec!Actors, a = Rec!Sweeper \/ job[a].st = "load",
         ~Rec!NothingToDo(a), job' = Rec!Begun(a), Rec!Busy = {}, UNCHANGED rows
  PROVE  /\ Alone'
         /\ job'[a].st = "loaded" /\ job'[a].new = Rec!Updated(a) /\ job'[a].drop = Rec!Dropped(a)
         /\ \A b \in Rec!Actors \ {a} : job'[b] = job[b] /\ job[b].st # "loaded"
  <1>1. \A r \in Ids : a = <<"patch", r>> => why[r] \in Rec!Reasons BY PatchKnows, ActorsDiffer
  <1>2. /\ job'[a].st = "loaded" /\ job'[a].new = Rec!Updated(a) /\ job'[a].drop = Rec!Dropped(a)
        /\ job'[a].alone
        /\ \A b \in Rec!Actors \ {a} : job'[b] = job[b]
    BY <1>1, BegunIs
  <1>3. \A b \in Rec!Actors : job[b].st # "loaded" BY DEF Rec!Busy
  <1>4. \A b \in Rec!Actors : job'[b].st = "loaded" => b = a BY <1>2, <1>3
  <1>5. \A r \in Ids : /\ Rec!Updated(a)[r] # "none" => rows[r] # "none" \/ a = <<"put", r>>
                       /\ Rec!Updated(a)[r] = "live" => rows[r] = "live" \/ a = <<"put", r>>
    BY UpdatedFollows
  <1>6. Alone' BY <1>2, <1>4, <1>5 DEF Alone
  <1> QED BY <1>2, <1>3, <1>6

\* No update that has read the index is new, and the index is as it was.
LEMMA AloneKept ==
  ASSUME Alone, UNCHANGED rows, overlap' # "now" => overlap # "now",
         \A b \in Rec!Actors : job'[b].st = "loaded" =>
            job[b].st = "loaded" /\ job'[b].new = job[b].new /\ job'[b].alone = job[b].alone
  PROVE  Alone'
  <1> SUFFICES ASSUME overlap' # "now", NEW a \in Rec!Actors, job'[a].st = "loaded"
      PROVE  /\ job'[a].alone
             /\ \A b \in Rec!Actors : job'[b].st = "loaded" => b = a
             /\ \A r \in Ids :
                  /\ job'[a].new[r] # "none" => rows'[r] # "none" \/ a = <<"put", r>>
                  /\ job'[a].new[r] = "live" => rows'[r] = "live" \/ a = <<"put", r>>
    BY DEF Alone
  <1>1. job[a].st = "loaded" /\ overlap # "now" /\ job'[a].new = job[a].new /\ job'[a].alone = job[a].alone OBVIOUS
  <1>2. /\ job[a].alone
        /\ \A b \in Rec!Actors : job[b].st = "loaded" => b = a
        /\ \A r \in Ids :
             /\ job[a].new[r] # "none" => rows[r] # "none" \/ a = <<"put", r>>
             /\ job[a].new[r] = "live" => rows[r] = "live" \/ a = <<"put", r>>
    BY <1>1 DEF Alone
  <1> QED BY <1>1, <1>2

\* One that reads the index with nothing to do, or while no other is under way.
LEMMA LoadAlone ==
  ASSUME Rec!TypeOK, Course, Updates, NEW a \in Rec!Actors, Rec!Load(a), overlap' # "now"
  PROVE  /\ overlap' = overlap
         /\ \/ /\ Rec!NothingToDo(a)
               /\ job'[a].st = "idle" /\ job'[a].new = Rec!NoRows /\ job'[a].drop = {}
               /\ \A b \in Rec!Actors \ {a} : SameJob(b)
            \/ ~Rec!NothingToDo(a) /\ Rec!Busy = {} /\ job' = Rec!Begun(a)
  <1>1. CASE Rec!NothingToDo(a)
    <2>1. /\ UNCHANGED overlap
          /\ job'[a].st = "idle" /\ job'[a].new = Rec!NoRows /\ job'[a].drop = {}
          /\ \A b \in Rec!Actors \ {a} :
                 /\ job'[b].new = job[b].new /\ job'[b].drop = job[b].drop
                 /\ job'[b].alone = job[b].alone
                 /\ job'[b].st = job[b].st
                    \/ (job[b].st = "wait" /\ job'[b].st \in {"load", "idle"})
      BY <1>1, LoadIs
    <2>2. \A b \in Rec!Actors \ {a} : SameJob(b) BY <2>1 DEF SameJob
    <2> QED BY <1>1, <2>1, <2>2
  <1>2. CASE ~Rec!NothingToDo(a) BY <1>2, LoadIs
  <1> QED BY <1>1, <1>2

\* One that writes it is the only one that had read it, and writes what it meant to.
LEMMA SaveAlone ==
  ASSUME Rec!TypeOK, Updates, Alone, overlap # "now", NEW a \in Rec!Actors, Rec!Save(a)
  PROVE  /\ rows' = job[a].new
         /\ \/ job'[a].st = "idle" /\ job'[a].new = Rec!NoRows /\ job'[a].drop = {}
            \/ job'[a].st = "unlink" /\ job'[a].new = job[a].new /\ job'[a].drop = job[a].drop
         /\ \A b \in Rec!Actors \ {a} : SameJob(b) /\ job[b].st # "loaded"
         /\ \A r \in Ids :
              /\ rows'[r] # "none" => rows[r] # "none" \/ a = <<"put", r>>
              /\ rows'[r] = "live" => rows[r] = "live" \/ a = <<"put", r>>
              /\ a = <<"put", r>> => at[r] = "putting" /\ at'[r] = "running"
  <1>0. job[a].st = "loaded" BY SaveMoves
  <1>1. /\ job[a].alone /\ \A b \in Rec!Actors : job[b].st = "loaded" => b = a
        /\ \A r \in Ids :
             /\ job[a].new[r] # "none" => rows[r] # "none" \/ a = <<"put", r>>
             /\ job[a].new[r] = "live" => rows[r] = "live" \/ a = <<"put", r>>
    BY <1>0 DEF Alone
  <1>2. PICK ok \in BOOLEAN :
           /\ Rec!Over(a, ok)
           /\ rows' = job[a].new /\ ok
           /\ \/ job'[a].st = "idle" /\ job'[a].new = Rec!NoRows /\ job'[a].drop = {}
              \/ job'[a].st = "unlink" /\ job'[a].new = job[a].new /\ job'[a].drop = job[a].drop
           /\ \A b \in Rec!Actors \ {a} :
                /\ job'[b].new = job[b].new /\ job'[b].drop = job[b].drop
                /\ job'[b].alone = job[b].alone
                /\ job'[b].st = job[b].st
                   \/ (job[b].st = "wait" /\ job'[b].st \in {"load", "idle"})
    BY <1>1, SaveIs
  <1>3. \A b \in Rec!Actors \ {a} : SameJob(b) /\ job[b].st # "loaded"
    BY <1>1, <1>2 DEF SameJob
  <1>4. ASSUME NEW r \in Ids, a = <<"put", r>> PROVE at[r] = "putting" /\ at'[r] = "running"
    <2>1. at'[r] = IF a = <<"put", r>> THEN IF ok THEN "running" ELSE "done" ELSE at[r]
      BY <1>2, OverIs
    <2> QED BY <1>2, <1>4, <2>1, SaveMoves
  <1> QED BY <1>1, <1>2, <1>3, <1>4

\* Every step of the recorder.
LEMMA AloneStep ==
  ASSUME Rec!TypeOK, Course, Updates, Processes, Alone, [Rec!Next]_Rec!vars
  PROVE  Alone'
  <1>1. CASE Quiet BY <1>1, AloneKept DEF Quiet, SameJob
  <1>2. ASSUME NEW a \in Rec!Actors, Rec!Load(a) PROVE Alone'
    <2> SUFFICES ASSUME overlap' # "now" PROVE Alone' BY DEF Alone
    <2>1. UNCHANGED rows /\ job[a].st = "load" BY <1>2, LoadMoves
    <2>2. overlap' = overlap BY <1>2, LoadAlone
    <2>3. CASE Rec!NothingToDo(a)
      <3>1. job'[a].st = "idle" /\ \A b \in Rec!Actors \ {a} : SameJob(b) BY <1>2, <2>3, LoadAlone
      <3> QED BY <2>1, <2>2, <3>1, AloneKept DEF SameJob
    <2>4. CASE ~Rec!NothingToDo(a)
      <3>1. Rec!Busy = {} /\ job' = Rec!Begun(a) BY <1>2, <2>4, LoadAlone
      <3> QED BY <2>1, <2>4, <3>1, BeginsAlone
    <2> QED BY <2>3, <2>4
  <1>3. ASSUME NEW a \in Rec!Actors, Rec!Save(a) PROVE Alone'
    <2> SUFFICES ASSUME overlap' # "now" PROVE Alone' BY DEF Alone
    <2>1. overlap # "now" BY <1>3, SaveMoves
    <2>2. /\ job'[a].st # "loaded"
          /\ \A b \in Rec!Actors \ {a} : SameJob(b) /\ job[b].st # "loaded"
      BY <1>3, <2>1, SaveAlone
    <2>3. \A b \in Rec!Actors : job'[b].st # "loaded" BY <2>2 DEF SameJob
    <2> QED BY <2>3 DEF Alone
  <1>4. ASSUME NEW a \in Rec!Actors, Rec!Unlink(a) PROVE Alone'
    <2>1. /\ UNCHANGED <<rows, overlap>> /\ job'[a] = Rec!Idle
          /\ \A b \in Rec!Actors : b # a => job'[b] = job[b]
      BY <1>4, UnlinkMoves
    <2> QED BY <2>1, IdleIs, AloneKept
  <1>5. CASE Rec!Die
    <2>1. \A a \in Rec!Actors : job'[a].st = "idle" BY <1>5, DieMoves, IdleIs
    <2> QED BY <2>1 DEF Alone
  <1>6. CASE Rec!Boot
    <2>1. /\ UNCHANGED rows /\ Rec!Busy = {} /\ \A a \in Rec!Actors : job[a] = Rec!Idle
          /\ \/ Rec!NothingToDo(Rec!Sweeper) /\ UNCHANGED job
             \/ ~Rec!NothingToDo(Rec!Sweeper) /\ job' = Rec!Begun(Rec!Sweeper)
      BY <1>6, BootMoves
    <2>2. CASE UNCHANGED job
      <3>1. \A a \in Rec!Actors : job'[a].st = "idle" BY <2>1, <2>2, IdleIs
      <3> QED BY <3>1 DEF Alone
    <2>3. CASE ~Rec!NothingToDo(Rec!Sweeper) /\ job' = Rec!Begun(Rec!Sweeper)
      BY <2>1, <2>3, ActorIs, BeginsAlone
    <2> QED BY <2>1, <2>2, <2>3
  <1> QED BY <1>1, <1>2, <1>3, <1>4, <1>5, <1>6, QuietStep DEF Touches

-----------------------------------------------------------------------------
(***************************************************************************)
(* What is listed is there.                                                *)
(***************************************************************************)
FetchableRow(r) ==
    /\ Opened(r) => cast[r]
    /\ rows[r] # "none" => cast[r] /\ Late(r)
FetchableDrop(a) ==
    \A r \in job[a].drop :
      /\ job[a].st \in {"loaded", "unlink"} => Late(r)
      /\ job[a].st = "loaded" => job[a].new[r] = "none"
      /\ job[a].st = "unlink" => rows[r] = "none"

\* The parts of Fetchable.
LEMMA FetchableIs ==
  Fetchable <=> (overlap = "never" => /\ \A r \in Ids : FetchableRow(r)
                                      /\ \A a \in Rec!Actors : FetchableDrop(a))
  BY DEF Fetchable, FetchableRow, FetchableDrop, Opened

\* And after a step.
LEMMA FetchableNext ==
  ASSUME overlap' = "never" => /\ \A r \in Ids : FetchableRow(r)'
                               /\ \A a \in Rec!Actors : FetchableDrop(a)'
  PROVE  Fetchable'
  BY DEF Fetchable, FetchableRow, FetchableDrop, Opened

\* What is to be unlinked goes on being so.
LEMMA DropKept ==
  ASSUME NEW a \in Rec!Actors, FetchableDrop(a), SameJob(a), Rec!TypeOK,
         \A r \in Ids : (Late(r) => Late(r)') /\ (Late(r) /\ rows[r] = "none" => rows'[r] = "none")
  PROVE  FetchableDrop(a)'
  <1>1. job[a].drop \subseteq Ids BY JobsType DEF Jobs
  <1> QED BY <1>1 DEF FetchableDrop, SameJob

\* One that begins has only rows to drop that are there.
LEMMA DropBegun ==
  ASSUME Rec!TypeOK, Course, Updates, NEW a \in Rec!Actors, a = Rec!Sweeper \/ job[a].st = "load",
         ~Rec!NothingToDo(a), job' = Rec!Begun(a), Rec!Busy = {}, UNCHANGED <<rows, at>>,
         \A r \in Ids : FetchableRow(r), \A b \in Rec!Actors : FetchableDrop(b)
  PROVE  \A b \in Rec!Actors : FetchableDrop(b)'
  <1>1. /\ job'[a].st = "loaded" /\ job'[a].new = Rec!Updated(a) /\ job'[a].drop = Rec!Dropped(a)
        /\ \A b \in Rec!Actors \ {a} : job'[b] = job[b]
    BY BeginsAlone
  <1>2. \A r \in Ids : a = <<"patch", r>> => why[r] \in Rec!Reasons BY PatchKnows, ActorsDiffer
  <1>3. Rec!Dropped(a) \in SUBSET Ids /\ \A r \in Rec!Dropped(a) : rows[r] # "none" /\ Rec!Updated(a)[r] = "none"
    BY <1>2, UpdatedType
  <1>4. \A r \in Rec!Dropped(a) : at[r] \in {"running", "done"} BY <1>3 DEF FetchableRow, Late
  <1>5. FetchableDrop(a)' BY <1>1, <1>3, <1>4 DEF FetchableDrop, Late
  <1>6. ASSUME NEW b \in Rec!Actors \ {a} PROVE FetchableDrop(b)'
    BY <1>1, <1>6 DEF FetchableDrop, Late
  <1> QED BY <1>5, <1>6

\* One that is over, or not begun, drops nothing.
LEMMA NoDrop ==
  ASSUME NEW a \in Rec!Actors, job'[a].drop = {} \/ job'[a].st \notin {"loaded", "unlink"}
  PROVE  FetchableDrop(a)'
  BY DEF FetchableDrop

\* Every step of the recorder.
LEMMA FetchableStep ==
  ASSUME Rec!TypeOK, Course, Updates, Processes, Alone, Fetchable, [Rec!Next]_Rec!vars
  PROVE  Fetchable'
  <1> DEFINE G == (\A r \in Ids : FetchableRow(r)') /\ (\A a \in Rec!Actors : FetchableDrop(a)')
  <1>0. SUFFICES ASSUME overlap' = "never" PROVE G BY FetchableNext
  <1>a. ASSUME overlap = "never"
        PROVE  (\A r \in Ids : FetchableRow(r)) /\ (\A a \in Rec!Actors : FetchableDrop(a))
    BY <1>a, FetchableIs
  <1>1. CASE Quiet /\ \A q \in Ids : Onwards(q)
    <2>1. overlap = "never" /\ rows' = rows /\ \A a \in Rec!Actors : SameJob(a) BY <1>0, <1>1 DEF Quiet
    <2>2. ASSUME NEW r \in Ids PROVE FetchableRow(r)'
      <3>1. FetchableRow(r) BY <1>a, <2>1
      <3>2. Onwards(r) BY <1>1
      <3> QED BY <2>1, <3>1, <3>2 DEF FetchableRow, Onwards
    <2>3. ASSUME NEW a \in Rec!Actors PROVE FetchableDrop(a)'
      BY <1>1, <1>a, <2>1, DropKept DEF Onwards
    <2> QED BY <2>2, <2>3
  <1>2. ASSUME NEW a \in Rec!Actors, Rec!Load(a) PROVE G
    <2>1. UNCHANGED <<at, cast, rows>> /\ job[a].st = "load" BY <1>2, LoadMoves
    <2>2. overlap = "never" BY <1>0, <1>2, LoadAlone
    <2>3. \A r \in Ids : FetchableRow(r)'
      BY <1>a, <2>1, <2>2 DEF FetchableRow, Opened, Rec!InStart, Late
    <2>4. CASE Rec!NothingToDo(a)
      <3>1. job'[a].drop = {} /\ \A b \in Rec!Actors \ {a} : SameJob(b)
        BY <1>0, <1>2, <2>4, LoadAlone
      <3>2. \A r \in Ids : (Late(r) => Late(r)') /\ (Late(r) /\ rows[r] = "none" => rows'[r] = "none")
        BY <2>1 DEF Late
      <3>3. ASSUME NEW b \in Rec!Actors \ {a} PROVE FetchableDrop(b)'
        BY <1>a, <2>2, <3>1, <3>2, DropKept
      <3> QED BY <2>3, <3>1, <3>3, NoDrop
    <2>5. CASE ~Rec!NothingToDo(a)
      <3>1. Rec!Busy = {} /\ job' = Rec!Begun(a) BY <1>0, <1>2, <2>5, LoadAlone
      <3> QED BY <1>a, <2>1, <2>2, <2>3, <2>5, <3>1, DropBegun
    <2> QED BY <2>4, <2>5
  <1>3. ASSUME NEW a \in Rec!Actors, Rec!Save(a) PROVE G
    <2>1. /\ UNCHANGED <<cast, overlap>> /\ overlap = "never" /\ job[a].st = "loaded"
          /\ \A r \in Ids : at'[r] = at[r] \/ (at[r] = "putting" /\ at'[r] \in {"running", "done"})
      BY <1>0, <1>3, SaveMoves
    <2>2. /\ rows' = job[a].new
          /\ \/ job'[a].st = "idle" /\ job'[a].new = Rec!NoRows /\ job'[a].drop = {}
             \/ job'[a].st = "unlink" /\ job'[a].new = job[a].new /\ job'[a].drop = job[a].drop
          /\ \A b \in Rec!Actors \ {a} : SameJob(b) /\ job[b].st # "loaded"
          /\ \A r \in Ids :
               /\ rows'[r] # "none" => rows[r] # "none" \/ a = <<"put", r>>
               /\ a = <<"put", r>> => at[r] = "putting" /\ at'[r] = "running"
      BY <1>3, <2>1, SaveAlone
    <2>3. ASSUME NEW r \in Ids PROVE FetchableRow(r)'
      <3>1. FetchableRow(r) BY <1>a, <2>1
      <3>2. Opened(r)' => Opened(r) BY <2>1 DEF Opened, Rec!InStart
      <3>3. Late(r) => Late(r)' BY <2>1 DEF Late
      <3>4. a = <<"put", r>> => Opened(r) /\ Late(r)' BY <2>2 DEF Opened, Rec!InStart, Late
      <3>5. rows'[r] # "none" => rows[r] # "none" \/ a = <<"put", r>> BY <2>2
      <3> QED BY <2>1, <3>1, <3>2, <3>3, <3>4, <3>5 DEF FetchableRow
    <2>4. \A r \in Ids : (Late(r) => Late(r)') /\ (Late(r) /\ rows[r] = "none" => rows'[r] = "none")
      BY <2>1, <2>2 DEF Late
    <2>5. ASSUME NEW b \in Rec!Actors \ {a} PROVE FetchableDrop(b)'
      BY <1>a, <2>1, <2>2, <2>4, DropKept
    <2>6. FetchableDrop(a)'
      <3>1. job[a].drop \subseteq Ids BY JobsType DEF Jobs
      <3>2. FetchableDrop(a) BY <1>a, <2>1
      <3>3. \A r \in job[a].drop : Late(r)' /\ rows'[r] = "none"
        BY <2>1, <2>2, <2>4, <3>1, <3>2 DEF FetchableDrop
      <3> QED BY <2>2, <3>3 DEF FetchableDrop
    <2> QED BY <2>3, <2>5, <2>6
  <1>4. ASSUME NEW a \in Rec!Actors, Rec!Unlink(a) PROVE G
    <2>1. /\ UNCHANGED <<at, rows, overlap>> /\ job[a].st = "unlink" /\ overlap = "never"
          /\ \A r \in Ids : cast'[r] <=> cast[r] /\ r \notin job[a].drop
          /\ job'[a] = Rec!Idle /\ \A b \in Rec!Actors : b # a => job'[b] = job[b]
      BY <1>0, <1>4, UnlinkMoves DEF Rec!startVars
    <2>2. ASSUME NEW r \in Ids PROVE FetchableRow(r)'
      <3>1. FetchableRow(r) /\ FetchableDrop(a) BY <1>a, <2>1
      <3>2. r \in job[a].drop => Late(r) /\ rows[r] = "none" BY <2>1, <3>1 DEF FetchableDrop
      <3>3. Late(r) => ~Opened(r) BY DEF Late, Opened, Rec!InStart
      <3>4. (Opened(r)' <=> Opened(r)) /\ (Late(r)' <=> Late(r)) BY <2>1 DEF Opened, Rec!InStart, Late
      <3> QED BY <2>1, <3>1, <3>2, <3>3, <3>4 DEF FetchableRow
    <2>3. \A r \in Ids : (Late(r) => Late(r)') /\ (Late(r) /\ rows[r] = "none" => rows'[r] = "none")
      BY <2>1 DEF Late
    <2>4. ASSUME NEW b \in Rec!Actors \ {a} PROVE FetchableDrop(b)'
      BY <1>a, <2>1, <2>3, DropKept DEF SameJob
    <2>5. FetchableDrop(a)' BY <2>1, IdleIs, NoDrop
    <2> QED BY <2>2, <2>4, <2>5
  <1>5. CASE Rec!Die
    <2>1. /\ \A a \in Rec!Actors : job'[a] = Rec!Idle
          /\ UNCHANGED <<rows, cast, overlap>> /\ overlap = "never"
          /\ \A r \in Ids : at'[r] = IF at[r] = "idle" THEN "idle" ELSE "done"
      BY <1>0, <1>5, DieMoves
    <2>2. ASSUME NEW r \in Ids PROVE FetchableRow(r)'
      BY <1>a, <2>1 DEF FetchableRow, Opened, Rec!InStart, Late
    <2>3. \A a \in Rec!Actors : FetchableDrop(a)' BY <2>1, IdleIs, NoDrop
    <2> QED BY <2>2, <2>3
  <1>6. CASE Rec!Boot
    <2>1. /\ UNCHANGED <<at, cast, rows>> /\ Rec!Busy = {} /\ \A a \in Rec!Actors : job[a] = Rec!Idle
          /\ overlap = "never"
          /\ \/ Rec!NothingToDo(Rec!Sweeper) /\ UNCHANGED job
             \/ ~Rec!NothingToDo(Rec!Sweeper) /\ job' = Rec!Begun(Rec!Sweeper)
      BY <1>0, <1>6, BootMoves DEF Rec!startVars
    <2>2. \A r \in Ids : FetchableRow(r)'
      BY <1>a, <2>1 DEF FetchableRow, Opened, Rec!InStart, Late
    <2>3. CASE UNCHANGED job
      <3>1. \A a \in Rec!Actors : FetchableDrop(a)' BY <2>1, <2>3, IdleIs, NoDrop
      <3> QED BY <2>2, <3>1
    <2>4. CASE ~Rec!NothingToDo(Rec!Sweeper) /\ job' = Rec!Begun(Rec!Sweeper)
      BY <1>a, <2>1, <2>2, <2>4, ActorIs, DropBegun
    <2> QED BY <2>1, <2>3, <2>4
  <1> QED BY <1>1, <1>2, <1>3, <1>4, <1>5, <1>6, QuietStep DEF Touches

-----------------------------------------------------------------------------
(***************************************************************************)
(* What the sweeps at boot put right.                                      *)
(***************************************************************************)
\* What an update is about to write closes the rows it should.
ClosedJob(a) ==
    \A r \in Ids : a = Rec!Sweeper \/ a = <<"patch", r>> => job[a].new[r] # "live"

\* Closed, update by update.
LEMMA ClosedIs ==
  Closed <=> (\A a \in Rec!Actors : ClosedJob(a)) /\ Rec!LiveMeansLive
  BY ActorIs DEF Closed, ClosedJob

\* And after a step.
LEMMA ClosedNext ==
  ASSUME \A a \in Rec!Actors : ClosedJob(a)', Rec!LiveMeansLive'
  PROVE  Closed'
  BY ActorIs DEF Closed, ClosedJob

\* An update that begins.
LEMMA BegunClosed ==
  ASSUME Rec!TypeOK, Course, Updates, NEW a \in Rec!Actors, a = Rec!Sweeper \/ job[a].st = "load",
         ~Rec!NothingToDo(a), job' = Rec!Begun(a), \A b \in Rec!Actors : ClosedJob(b)
  PROVE  \A b \in Rec!Actors : ClosedJob(b)'
  <1>1. \A r \in Ids : a = <<"patch", r>> => why[r] \in Rec!Reasons BY PatchKnows, ActorsDiffer
  <1>2. job'[a].new = Rec!Updated(a) /\ \A b \in Rec!Actors \ {a} : job'[b].new = job[b].new
    BY <1>1, BegunIs
  <1>3. \A r \in Ids : a = Rec!Sweeper \/ a = <<"patch", r>> => Rec!Updated(a)[r] # "live"
    BY UpdatedFollows
  <1> QED BY <1>2, <1>3 DEF ClosedJob

\* One that stays as it was, or is over.
LEMMA SameClosed ==
  ASSUME NEW a \in Rec!Actors, ClosedJob(a), job'[a].new = job[a].new \/ job'[a].new = Rec!NoRows
  PROVE  ClosedJob(a)'
  BY RowIs DEF ClosedJob

\* Every step of the recorder.
LEMMA ClosedStep ==
  ASSUME Rec!TypeOK, Course, Updates, Processes, Truth, Alone, Closed, [Rec!Next]_Rec!vars
  PROVE  Closed'
  <1> DEFINE G == (\A a \in Rec!Actors : ClosedJob(a)') /\ Rec!LiveMeansLive'
  <1>0. SUFFICES G BY ClosedNext
  <1>a. (\A a \in Rec!Actors : ClosedJob(a)) /\ Rec!LiveMeansLive BY ClosedIs
  <1>b. ASSUME up' /\ Rec!SweepDone' /\ overlap' # "now"
                 => up /\ Rec!SweepDone /\ overlap # "now",
               \A r \in Ids : /\ rows'[r] = "live" => rows[r] = "live"
                              /\ Listed(r) /\ rows'[r] = "live" /\ Recording(r) => Recording(r)'
        PROVE  Rec!LiveMeansLive'
    <2>1. \A r \in Ids : rows[r] = "live" => Listed(r) BY DEF Truth, Truthful, Listed
    <2> QED BY <1>a, <1>b, <2>1 DEF Rec!LiveMeansLive, Recording
  <1>1. CASE Quiet /\ \A q \in Ids : Onwards(q)
    <2>1. UNCHANGED <<rows, overlap, up>> /\ \A a \in Rec!Actors : SameJob(a) BY <1>1 DEF Quiet
    <2>2. \A a \in Rec!Actors : ClosedJob(a)' BY <1>a, <2>1, SameClosed DEF SameJob
    <2>3. Rec!SweepDone' => Rec!SweepDone BY <2>1, ActorIs DEF Rec!SweepDone, SameJob, Updates
    <2>4. Rec!LiveMeansLive' BY <1>1, <1>b, <2>1, <2>3 DEF Onwards
    <2> QED BY <2>2, <2>4
  <1>2. ASSUME NEW a \in Rec!Actors, Rec!Load(a) PROVE G
    <2>1. /\ UNCHANGED <<at, rows, up, active, overtaken>> /\ a # Rec!Sweeper /\ job[a].st = "load"
          /\ \A r \in Ids : stopping'[r] = stopping[r] \/ rows[r] = "none"
      BY <1>2, LoadMoves
    <2>2. overlap' # "now" => overlap # "now" BY <1>2, LoadAlone
    <2>3. CASE Rec!NothingToDo(a)
      <3>1. /\ job'[a].new = Rec!NoRows
            /\ \A b \in Rec!Actors \ {a} :
                 /\ job'[b].new = job[b].new
                 /\ \/ job'[b].st = job[b].st
                    \/ /\ \E r \in Ids : b = <<"remove", r>>
                       /\ job[b].st = "wait" /\ job'[b].st \in {"load", "idle"}
        BY <1>2, <2>3, LoadIs
      <3>2. \A b \in Rec!Actors : ClosedJob(b)' BY <1>a, <3>1, SameClosed
      <3>3. Rec!SweepDone' => Rec!SweepDone BY <2>1, <3>1, ActorIs, ActorsDiffer DEF Rec!SweepDone
      <3>4. Rec!LiveMeansLive' BY <1>b, <2>1, <2>2, <3>3 DEF Recording
      <3> QED BY <3>2, <3>4
    <2>4. CASE ~Rec!NothingToDo(a)
      <3>1. job' = Rec!Begun(a) BY <1>2, <2>4, LoadIs
      <3>2. \A b \in Rec!Actors : ClosedJob(b)' BY <1>a, <2>1, <2>4, <3>1, BegunClosed
      <3>3. \A r \in Ids : a = <<"patch", r>> => why[r] \in Rec!Reasons BY <2>1, PatchKnows
      <3>4. Rec!SweepDone' => Rec!SweepDone BY <2>1, <3>1, <3>3, BegunIs, ActorIs DEF Rec!SweepDone
      <3>5. Rec!LiveMeansLive' BY <1>b, <2>1, <2>2, <3>4 DEF Recording
      <3> QED BY <3>2, <3>5
    <2> QED BY <2>3, <2>4
  <1>3. ASSUME NEW a \in Rec!Actors, Rec!Save(a) PROVE G
    <2>1. /\ UNCHANGED <<up, overlap, active, overtaken>>
          /\ job[a].st = "loaded"
          /\ \A r \in Ids : stopping'[r] = stopping[r] \/ a = <<"patch", r>>
      BY <1>3, SaveMoves
    <2>2. /\ job'[a].new \in {Rec!NoRows, job[a].new}
          /\ \A b \in Rec!Actors \ {a} :
                /\ job'[b].new = job[b].new
                /\ \/ job'[b].st = job[b].st
                   \/ \E r \in Ids : b = <<"remove", r>>
      BY <1>3, SaveIs
    <2>3. \A b \in Rec!Actors : ClosedJob(b)' BY <1>a, <2>2, SameClosed
    <2>4. ASSUME up', Rec!SweepDone', overlap' # "now", NEW r \in Ids, rows'[r] = "live"
          PROVE  Recording(r)'
      <3>1. /\ rows' = job[a].new
            /\ rows[r] = "live" \/ a = <<"put", r>>
            /\ a = <<"put", r>> => at[r] = "putting"
        BY <1>3, <2>1, <2>4, SaveAlone
      <3>2. a # Rec!Sweeper /\ a # <<"patch", r>> BY <1>a, <2>4, <3>1 DEF ClosedJob
      <3>3. Rec!SweepDone BY <2>2, <2>4, <3>2, ActorIs, ActorsDiffer DEF Rec!SweepDone
      <3>4. Recording(r)
        <4>1. CASE rows[r] = "live"
          BY <1>a, <2>1, <2>4, <3>3, <4>1 DEF Rec!LiveMeansLive, Recording
        <4>2. CASE at[r] = "putting"
          BY <4>2 DEF Course, CourseOf, Rec!InStart, Recording
        <4> QED BY <3>1, <4>1, <4>2
      <3> QED BY <2>1, <3>2, <3>4 DEF Recording
    <2>5. Rec!LiveMeansLive' BY <2>4 DEF Rec!LiveMeansLive, Recording
    <2> QED BY <2>3, <2>5
  <1>4. ASSUME NEW a \in Rec!Actors, Rec!Unlink(a) PROVE G
    <2>1. /\ UNCHANGED <<Rec!startVars, Rec!stopVars, rows, overlap, up>>
          /\ job[a].st = "unlink" /\ job'[a] = Rec!Idle
          /\ \A b \in Rec!Actors : b # a => job'[b] = job[b]
      BY <1>4, UnlinkMoves
    <2>2. \A b \in Rec!Actors : ClosedJob(b)' BY <1>a, <2>1, IdleIs, SameClosed
    <2>3. Rec!SweepDone' => Rec!SweepDone BY <2>1, ActorIs DEF Rec!SweepDone
    <2>4. Rec!LiveMeansLive' BY <1>b, <2>1, <2>3 DEF Recording, Rec!startVars, Rec!stopVars
    <2> QED BY <2>2, <2>4
  <1>5. CASE Rec!Die
    <2>1. ~up' /\ \A a \in Rec!Actors : job'[a] = Rec!Idle BY <1>5, DieMoves
    <2>2. \A b \in Rec!Actors : ClosedJob(b)' BY <1>a, <2>1, IdleIs, SameClosed
    <2> QED BY <2>1, <2>2 DEF Rec!LiveMeansLive
  <1>6. CASE Rec!Boot
    <2>1. /\ UNCHANGED rows
          /\ \/ Rec!NothingToDo(Rec!Sweeper) /\ UNCHANGED job
             \/ ~Rec!NothingToDo(Rec!Sweeper) /\ job' = Rec!Begun(Rec!Sweeper)
      BY <1>6, BootMoves
    <2>2. CASE Rec!NothingToDo(Rec!Sweeper) /\ UNCHANGED job
      <3>1. \A b \in Rec!Actors : ClosedJob(b)' BY <1>a, <2>2, SameClosed
      <3>2. rows' = Rec!NoRows BY <2>1, <2>2 DEF Rec!NothingToDo
      <3>3. Rec!LiveMeansLive' BY <3>2, RowIs DEF Rec!LiveMeansLive
      <3> QED BY <3>1, <3>3
    <2>3. CASE ~Rec!NothingToDo(Rec!Sweeper) /\ job' = Rec!Begun(Rec!Sweeper)
      <3>1. \A b \in Rec!Actors : ClosedJob(b)' BY <1>a, <2>3, ActorIs, BegunClosed
      <3>2. \A r \in Ids : Rec!Sweeper = <<"patch", r>> => why[r] \in Rec!Reasons BY ActorsDiffer
      <3>3. job'[Rec!Sweeper].st = "loaded" BY <2>3, <3>2, ActorIs, BegunIs
      <3>4. Rec!LiveMeansLive' BY <3>3 DEF Rec!LiveMeansLive, Rec!SweepDone
      <3> QED BY <3>1, <3>4
    <2> QED BY <2>1, <2>2, <2>3
  <1> QED BY <1>1, <1>2, <1>3, <1>4, <1>5, <1>6, QuietStep DEF Touches

\* The clones of the processes before are known from boot on.
LEMMA OrphansStep ==
  ASSUME Rec!TypeOK, Processes, Orphans, [Rec!Next]_Rec!vars
  PROVE  Orphans'
  <1>1. ASSUME NEW r \in Ids, NEW t \in Rec!Targets, Rec!Start(r, t) PROVE Orphans'
    BY <1>1 DEF Rec!Start, Rec!procVars, Rec!tmuxVars, Orphans, Rec!TypeOK
  <1>2. ASSUME NEW r \in Ids, Rec!RequestStop(r) PROVE Orphans'
    BY <1>2 DEF Rec!RequestStop, Rec!Stop, Rec!Killed, Rec!procVars, Rec!tmuxVars, Orphans, Rec!TypeOK
  <1>3. ASSUME NEW r \in Ids, NEW first \in BOOLEAN, Rec!Delete(r, first) PROVE Orphans'
    BY <1>3 DEF Rec!Delete, Rec!Stop, Rec!Killed, Rec!Turn, Rec!tmuxVars, Orphans, Rec!TypeOK
  <1>4. ASSUME NEW r \in Ids, Rec!StartRefused(r) PROVE Orphans'
    BY <1>4 DEF Rec!StartRefused, Rec!procVars, Rec!tmuxVars, Orphans, Rec!TypeOK
  <1>5. ASSUME NEW r \in Ids, Rec!Announce(r) PROVE Orphans'
    BY <1>5 DEF Rec!Announce, Rec!procVars, Rec!tmuxVars, Orphans, Rec!TypeOK
  <1>6. ASSUME NEW r \in Ids, Rec!Attach(r) PROVE Orphans'
    BY <1>6 DEF Rec!Attach, Rec!procVars, Rec!tmuxVars, Orphans, Rec!TypeOK
  <1>7. ASSUME NEW r \in Ids, Rec!AttachFails(r) PROVE Orphans'
    BY <1>7 DEF Rec!AttachFails, Rec!Fail, Rec!DestroyClone, Rec!procVars, Orphans, Rec!TypeOK
  <1>8. ASSUME NEW r \in Ids, Rec!MakeFifo(r) PROVE Orphans'
    BY <1>8 DEF Rec!MakeFifo, Rec!procVars, Rec!tmuxVars, Orphans, Rec!TypeOK
  <1>9. ASSUME NEW r \in Ids, Rec!NoFifo(r) PROVE Orphans'
    BY <1>9 DEF Rec!NoFifo, Rec!Fail, Rec!procVars, Orphans, Rec!TypeOK
  <1>10. ASSUME NEW r \in Ids, Rec!PipePane(r) PROVE Orphans'
    BY <1>10 DEF Rec!PipePane, Rec!procVars, Orphans, Rec!TypeOK
  <1>11. ASSUME NEW r \in Ids, Rec!PipeFails(r) PROVE Orphans'
    BY <1>11 DEF Rec!PipeFails, Rec!Fail, Rec!UnlinkFifo, Rec!procVars, Orphans, Rec!TypeOK
  <1>12. ASSUME NEW r \in Ids, Rec!Unpipe(r) PROVE Orphans'
    BY <1>12 DEF Rec!Unpipe, Rec!Close, Rec!UnlinkFifo, Rec!procVars, Orphans, Rec!TypeOK
  <1>13. ASSUME NEW r \in Ids, Rec!Unclone(r) PROVE Orphans'
    BY <1>13 DEF Rec!Unclone, Rec!Close, Rec!DestroyClone, Rec!procVars, Orphans, Rec!TypeOK
  <1>14. ASSUME NEW r \in Ids, Rec!CloseAtOnce(r) PROVE Orphans'
    BY <1>14 DEF Rec!CloseAtOnce, Rec!Close, Rec!procVars, Orphans, Rec!TypeOK
  <1>15. ASSUME NEW r \in Ids, Rec!Ready(r) PROVE Orphans'
    BY <1>15 DEF Rec!Ready, Rec!procVars, Rec!tmuxVars, Orphans, Rec!TypeOK
  <1>16. ASSUME NEW r \in Ids, Rec!HitLimit(r) PROVE Orphans'
    BY <1>16 DEF Rec!HitLimit, Rec!Stop, Rec!Killed, Rec!procVars, Rec!tmuxVars, Orphans, Rec!TypeOK
  <1>17. ASSUME NEW r \in Ids, Rec!PtyExits(r) PROVE Orphans'
    BY <1>17 DEF Rec!PtyExits, Rec!Stop, Rec!procVars, Rec!tmuxVars, Orphans, Rec!TypeOK
  <1>18. ASSUME NEW r \in Ids, Rec!FifoError(r) PROVE Orphans'
    BY <1>18 DEF Rec!FifoError, Rec!Stop, Rec!Turn, Rec!tmuxVars, Orphans, Rec!TypeOK
  <1>19. CASE Rec!StopAll
    BY <1>19 DEF Rec!StopAll, Rec!Stop, Rec!Killed, Rec!procVars, Rec!tmuxVars, Orphans, Rec!TypeOK
  <1>20. ASSUME NEW a \in Rec!Actors, Rec!Load(a) PROVE Orphans'
    BY <1>20 DEF Rec!Load, Rec!procVars, Rec!tmuxVars, Orphans, Rec!TypeOK
  <1>21. ASSUME NEW a \in Rec!Actors, Rec!Save(a) PROVE Orphans'
    BY <1>21 DEF Rec!Save, Rec!procVars, Rec!tmuxVars, Orphans, Rec!TypeOK
  <1>22. ASSUME NEW a \in Rec!Actors, Rec!Unlink(a) PROVE Orphans'
    BY <1>22 DEF Rec!Unlink, Rec!procVars, Rec!tmuxVars, Orphans, Rec!TypeOK
  <1>23. ASSUME NEW t \in Rec!Targets, Rec!TargetEnds(t) PROVE Orphans'
    BY <1>23 DEF Rec!TargetEnds, Rec!Turn, Orphans, Rec!TypeOK
  <1>24. ASSUME NEW p \in Panes, Rec!TheyPipe(p) PROVE Orphans'
    BY <1>24 DEF Rec!TheyPipe, Rec!Turn, Orphans, Rec!TypeOK
  <1>25. ASSUME NEW p \in Panes, Rec!PipeBreaks(p) PROVE Orphans'
    BY <1>25 DEF Rec!PipeBreaks, Rec!procVars, Orphans, Rec!TypeOK
  <1>26. CASE Rec!Die
    BY <1>26 DEF Rec!Die, Orphans
  <1>27. CASE Rec!Boot
    <2>1. orphans' = {r \in Ids : clone[r]} /\ UNCHANGED <<clone, old>>
      BY <1>27 DEF Rec!Boot, Rec!CloneSessions, Rec!tmuxVars
    <2> QED BY <2>1 DEF Orphans, Rec!TypeOK
  <1>28. CASE Rec!SweepClone
    <2>1. PICK r \in orphans : orphans' = orphans \ {r} /\ clone' = [clone EXCEPT ![r] = FALSE]
      BY <1>28 DEF Rec!SweepClone, Rec!DestroyClone
    <2>2. UNCHANGED <<up, old>> BY <1>28 DEF Rec!SweepClone, Rec!procVars
    <2> QED BY <2>1, <2>2 DEF Orphans, Rec!TypeOK
  <1>29. CASE UNCHANGED Rec!vars
    BY <1>29 DEF Rec!vars, Rec!procVars, Rec!tmuxVars, Orphans
  <1>30. ASSUME NEW r \in Ids, Rec!MakeClone(r) PROVE Orphans'
    BY <1>30 DEF Rec!MakeClone, Rec!procVars, Orphans, Processes, Rec!TypeOK
  <1> QED BY <1>1, <1>2, <1>3, <1>4, <1>5, <1>6, <1>7, <1>8, <1>9, <1>10, <1>11, <1>12, <1>13, <1>14, <1>15, <1>16, <1>17, <1>18, <1>19, <1>20, <1>21, <1>22, <1>23, <1>24, <1>25, <1>26, <1>27, <1>28, <1>29, <1>30
          DEF Rec!Next, Rec!Request, Rec!StartStep, Rec!StopStep, Rec!Event, Rec!IndexStep

-----------------------------------------------------------------------------
(***************************************************************************)
(* The invariant, and what it says.                                        *)
(***************************************************************************)
\* Nothing has been recorded.
LEMMA RecorderInit == ASSUME Rec!RecorderAssumption, Rec!Init PROVE RecorderInv
  <1>0. \A a \in Rec!Actors : job[a] = Rec!Idle BY DEF Rec!Init
  <1>0a. rows = Rec!NoRows /\ \A r \in Ids : at[r] = "idle" /\ stopping[r] = "idle" BY DEF Rec!Init
  <1>1. Rec!TypeOK
    <2>1. job \in [Rec!Actors -> Jobs] BY IdleIs DEF Rec!Init
    <2>2. job \in [Rec!Actors -> [st: {"idle", "wait", "load", "loaded", "unlink"},
                              new: Rec!Rows, drop: SUBSET Ids, alone: BOOLEAN]]
      BY <2>1 DEF Jobs, States
    <2>3. rows \in Rec!Rows BY <1>0a, RowIs
    <2>4. boots \in 0 .. MaxBoots /\ turns \in 0 .. MaxTurns
      BY DEF Rec!Init, Rec!RecorderAssumption
    <2>5. born \in Seq(Ids) BY DEF Rec!Init
    <2>6. /\ at \in [Ids -> {"idle", "checked", "cloning", "locking", "checking", "piping",
                             "putting", "running", "done"}]
          /\ target \in [Ids -> Rec!Targets \cup {None}]
          /\ stopping \in [Ids -> {"idle", "unpiping", "uncloning", "closing", "patching"}]
          /\ why \in [Ids -> Rec!Reasons \cup {"none"}]
          /\ writer \in [Ids -> {"none", "open"} \cup Rec!Reasons]
      BY DEF Rec!Init
    <2>7. /\ bridge \in [Ids -> {"none", "fresh", "ready", "dead"}]
          /\ reading \in [Ids -> BOOLEAN] /\ clone \in [Ids -> BOOLEAN]
          /\ fifo \in [Ids -> BOOLEAN] /\ cast \in [Ids -> BOOLEAN]
      BY DEF Rec!Init
    <2>8. pipe \in [Panes -> Ids \cup {"none", "theirs"}] BY DEF Rec!Init
    <2>9. /\ up \in BOOLEAN /\ old \subseteq Ids /\ active \subseteq Ids /\ orphans \subseteq Ids
          /\ there \subseteq Rec!Targets /\ overtaken \subseteq Ids
          /\ overlap \in {"never", "before", "now"}
      BY DEF Rec!Init
    <2> QED BY <2>2, <2>3, <2>4, <2>5, <2>6, <2>7, <2>8, <2>9 DEF Rec!TypeOK
  <1>2. Course BY DEF Rec!Init, Course, CourseOf, Early, Rec!InStart
  <1>3. Updates
    <2>1. ASSUME NEW r \in Ids
          PROVE  /\ job[<<"put", r>>] = Rec!Idle /\ job[<<"patch", r>>] = Rec!Idle
      BY <1>0, ActorIs
    <2>2. job[Rec!Sweeper] = Rec!Idle BY <1>0, ActorIs
    <2> QED BY <1>0a, <2>1, <2>2, IdleIs DEF Updates
  <1>4. Processes BY <1>0, <1>0a DEF Rec!Init, Processes
  <1>5. Means BY DEF Rec!Init, Means, MeansOf, Rec!RecorderAssumption
  <1>6. Held BY DEF Rec!Init, Held, HeldBy, Rec!Holds, Late, Rec!RecorderAssumption
  <1>7. Truth
    <2>1. Truthful(Rec!NoRows) BY RowIs DEF Truthful
    <2> QED BY <1>0, <1>0a, <2>1, IdleIs DEF Truth
  <1>8. Alone BY <1>0, IdleIs DEF Alone
  <1>9. Fetchable BY <1>0, <1>0a, IdleIs, RowIs DEF Fetchable, Rec!InStart
  <1>10. Closed
    <2>1. \A a \in Rec!Actors : ClosedJob(a) BY <1>0, IdleIs, RowIs DEF ClosedJob
    <2>2. Rec!LiveMeansLive BY DEF Rec!Init, Rec!LiveMeansLive
    <2> QED BY <2>1, <2>2, ClosedIs
  <1>11. Orphans BY DEF Rec!Init, Orphans
  <1> QED BY <1>1, <1>2, <1>3, <1>4, <1>5, <1>6, <1>7, <1>8, <1>9, <1>10, <1>11 DEF RecorderInv

\* Every step.
LEMMA RecorderStep == ASSUME RecorderInv, [Rec!Next]_Rec!vars PROVE RecorderInv'
  <1>0. /\ Rec!RecorderAssumption
        /\ Rec!TypeOK /\ Course /\ Updates /\ Processes /\ Means /\ Held
        /\ Truth /\ Alone /\ Fetchable /\ Closed /\ Orphans
    BY DEF RecorderInv
  <1>1. Rec!TypeOK' /\ Course' /\ Updates' BY <1>0, RecorderTypeStep, CourseStep, UpdatesStep
  <1>2. Processes' /\ Means' /\ Held' BY <1>0, ProcessesStep, MeansStep, HeldStep
  <1>3. Truth' /\ Alone' BY <1>0, TruthStep, AloneStep
  <1>4. Fetchable' /\ Closed' BY <1>0, FetchableStep, ClosedStep
  <1>5. Orphans' BY <1>0, OrphansStep
  <1>6. Rec!RecorderAssumption' BY <1>0 DEF Rec!RecorderAssumption
  <1> QED BY <1>1, <1>2, <1>3, <1>4, <1>5, <1>6 DEF RecorderInv

\* The inductive invariant of recordings (recorder.ts, recordings-index.ts):
\* where each recording is and what it holds then, which coroutine waits for
\* which update of the index, and what the version an update is about to write
\* may say, through every crash and restart.
THEOREM RecorderInvariant == Rec!RecorderAssumption /\ Rec!Spec => []RecorderInv
  <1>1. Rec!RecorderAssumption /\ Rec!Init => RecorderInv BY RecorderInit
  <1>2. RecorderInv /\ [Rec!Next]_Rec!vars => RecorderInv' BY RecorderStep
  <1> QED BY <1>1, <1>2, PTL DEF Rec!Spec

\* What the index says of a recording is true: why it ended, however stops and
\* updates interleave, and that its cast can be fetched while no two updates
\* have overlapped (recorder.ts:439-444, recordings-index.ts:153-166).
THEOREM RecordingsListedTruly == Rec!RecorderAssumption /\ Rec!Spec => []Rec!IndexTellsTruth
  <1>1. RecorderInv => Rec!IndexTellsTruth
    <2> SUFFICES ASSUME RecorderInv PROVE Rec!IndexTellsTruth OBVIOUS
    <2>1. Rec!TypeOK /\ Truth /\ Fetchable BY DEF RecorderInv
    <2>2. Rec!LimitKept BY <2>1 DEF Truth, Truthful, Rec!LimitKept
    <2>3. Rec!ListedIsThere BY <2>1 DEF Fetchable, Rec!ListedIsThere
    <2> QED BY <2>1, <2>2, <2>3 DEF Rec!IndexTellsTruth
  <1> QED BY <1>1, RecorderInvariant, PTL

\* A recording that is over, or failed to start at whatever step, holds no
\* clone, pty, FIFO or pipe, unless its stop overtook its start
\* (recorder.ts:243-250 and 357-400, the catches of a start; 405-456, stop).
THEOREM RecordingsLeaveNothing == Rec!RecorderAssumption /\ Rec!Spec => []Rec!NothingLeftBehind
  <1>1. RecorderInv => Rec!NothingLeftBehind
    <2> SUFFICES ASSUME RecorderInv, NEW r \in Ids,
                        up /\ r \notin active \cup overtaken \cup old,
                        ~Rec!InStart(r) /\ stopping[r] \notin {"unpiping", "uncloning"}
                 PROVE  ~Rec!Holds(r)
      BY DEF Rec!NothingLeftBehind
    <2>1. HeldBy(r) BY DEF RecorderInv, Held
    <2>2. at[r] \in {"idle", "running", "done"} BY DEF Rec!InStart
    <2> QED BY <2>1, <2>2 DEF HeldBy, Late
  <1> QED BY <1>1, RecorderInvariant, PTL

\* After a crash, wherever it fell, the sweeps of the next process leave no row
\* that claims to be recording and is not, and no clone of the process that is
\* gone (recordings-index.ts:208-265, tmux-clone.ts).
THEOREM SweepsPutRight == Rec!RecorderAssumption /\ Rec!Spec => [](Rec!LiveMeansLive /\ Rec!NoOrphans)
  <1>1. RecorderInv => Rec!LiveMeansLive /\ Rec!NoOrphans
    <2> SUFFICES ASSUME RecorderInv PROVE Rec!LiveMeansLive /\ Rec!NoOrphans OBVIOUS
    <2>1. Rec!LiveMeansLive BY DEF RecorderInv, Closed
    <2>2. Rec!NoOrphans BY DEF RecorderInv, Orphans, Rec!NoOrphans
    <2> QED BY <2>1, <2>2
  <1> QED BY <1>1, RecorderInvariant, PTL
=============================================================================

--------------------------- MODULE AccessProofs -----------------------------
(***************************************************************************)
(* Proofs about AccessRequest for any number of machines, requests and     *)
(* keys, and any deadlines.                                                *)
(***************************************************************************)
EXTENDS AccessRequest, TLAPS

\* The two maps of the broker are inverse to each other.
Maps ==
    /\ \A r \in requests : device[r] # None /\ pendingByDevice[device[r]] = r
    /\ \A d \in Devices : pendingByDevice[d] # None =>
          pendingByDevice[d] \in requests /\ device[pendingByDevice[d]] = d

\* Nothing is known of a request at the machine before the broker forwarded it,
\* and so its browser cannot know the machine's key.
Forwarding ==
    \A r \in Requests :
        /\ r \in forwarded => device[r] # None
        /\ r \notin forwarded => /\ access[r] = None /\ deciding[r] = None
                                 /\ asked[r] = 0 /\ r \notin heardKey

\* A commitment is held only until the question is asked.
OneQuestion ==
    \A r \in Requests : asked[r] <= 1 /\ (access[r] # None => asked[r] = 0)

Positions(s) == 1 .. Len(s)

IsRequest(m, r) == m.type = "request" /\ m.req = r

\* What waits for a machine is about a request of that machine; a commitment
\* on its way was chosen blind, and is the only one of its request.
OnTheWay ==
    \A d \in Devices : \A i \in Positions(toAgent[d]) :
        LET m == toAgent[d][i] IN
        /\ m.req \in forwarded /\ device[m.req] = d
        /\ m.type = "request" =>
              /\ m.key \in blind[m.req]
              /\ access[m.req] = None /\ asked[m.req] = 0
              /\ \A j \in Positions(toAgent[d]) :
                    IsRequest(toAgent[d][j], m.req) => j = i

\* What a machine answers about its own request is true.
OnTheWayBack ==
    \A d \in Devices : \A i \in Positions(fromAgent[d]) :
        LET m == fromAgent[d][i] IN
        /\ device[m.req] # None
        /\ m.type = "ack" => m.req \in forwarded
        /\ m.type = "approved" /\ device[m.req] = d => <<d, m.req>> \in approved

\* What the machine holds was chosen blind.
HeldIsBlind ==
    \A r \in Requests : /\ access[r] # None => access[r] \in blind[r]
                        /\ deciding[r] # None => deciding[r] \in blind[r]

AccessInv ==
    /\ TypeOK
    /\ Maps
    /\ Forwarding
    /\ OneQuestion
    /\ OnTheWay
    /\ OnTheWayBack
    /\ HeldIsBlind
    /\ ApprovedByTarget

-----------------------------------------------------------------------------
\* The rest of a queue after its first message.
LEMMA TailFacts ==
    ASSUME NEW S, NEW s \in Seq(S), s # <<>>
    PROVE  /\ Tail(s) \in Seq(S)
           /\ Head(s) \in S /\ 1 \in Positions(s) /\ Head(s) = s[1]
           /\ \A i \in Positions(Tail(s)) :
                 i + 1 \in Positions(s) /\ Tail(s)[i] = s[i + 1]
  BY DEF Positions

\* The messages of the two queues.
ToMsg == [type : {"request", "reveal"}, req : Requests, key : BrowserKeys]
FromMsg == [type : Replies, req : Requests]

\* Dropping requests keeps the maps inverse to each other.
LEMMA DropKeepsMaps ==
    ASSUME TypeOK, Maps, NEW R, DropRequests(R)
    PROVE  /\ Maps'
           /\ requests' \subseteq Requests
           /\ pendingByDevice' \in [Devices -> Requests \cup {None}]
  BY DEF TypeOK, Maps, DropRequests, Freed

\* A reply moves the browser's state within its type; only an approval after
\* the machine's key makes it approved.
LEMMA HearsFacts ==
    ASSUME TypeOK, NEW r \in Requests, NEW reply \in Replies, Hears(r, reply)
    PROVE  /\ heardKey' \subseteq Requests
           /\ outcome' \in [Requests -> {"none", "approved", "denied"}]
           /\ reply # "ack" => heardKey' = heardKey
           /\ heardKey' \subseteq heardKey \cup {r}
           /\ \A q \in Requests : outcome'[q] = "approved" =>
                 outcome[q] = "approved" \/ (q = r /\ reply = "approved")
  BY DEF TypeOK, Hears, Replies

\* What the maps, the clock and the browsers' sockets do leaves the questions
\* on their way, asked and answered alone.
LEMMA QuietKeeps ==
    ASSUME AccessInv, TypeOK', Maps',
           UNCHANGED <<device, forwarded, toAgent, fromAgent, agentVars, blind>>,
           heardKey' \subseteq forwarded \cup heardKey,
           \A q \in Requests : outcome'[q] = "approved" =>
              outcome[q] = "approved" \/ <<device[q], q>> \in approved
    PROVE  AccessInv'
  <1> USE DEF AccessInv, agentVars
  <1>1. Forwarding' BY DEF Forwarding
  <1>2. OneQuestion' /\ HeldIsBlind' BY DEF OneQuestion, HeldIsBlind
  <1>3. OnTheWay' BY DEF OnTheWay
  <1>4. OnTheWayBack' BY DEF OnTheWayBack
  <1>5. ApprovedByTarget' BY DEF ApprovedByTarget
  <1> QED BY <1>1, <1>2, <1>3, <1>4, <1>5


\* The machine takes the first message of its queue.  What waits behind it
\* stays true, although the commitment of its request may change hands.
LEMMA PopKeeps ==
    ASSUME AccessInv, NEW d \in Devices, toAgent[d] # <<>>,
           toAgent' = [toAgent EXCEPT ![d] = Tail(@)],
           UNCHANGED <<device, forwarded, blind>>,
           \A r \in Requests : r # Head(toAgent[d]).req =>
              access'[r] = access[r] /\ asked'[r] = asked[r],
           \/ Head(toAgent[d]).type = "request"
           \/ access[Head(toAgent[d]).req] # None
           \/ UNCHANGED <<access, asked>>
    PROVE  toAgent' \in [Devices -> Seq(ToMsg)] /\ OnTheWay'
  <1> USE DEF AccessInv
  <1> DEFINE m == Head(toAgent[d])
  <1>1. toAgent \in [Devices -> Seq(ToMsg)] BY DEF TypeOK, ToMsg
  <1>01. toAgent[d] \in Seq(ToMsg) BY <1>1
  <1>2. /\ Tail(toAgent[d]) \in Seq(ToMsg)
        /\ m \in ToMsg /\ 1 \in Positions(toAgent[d]) /\ m = toAgent[d][1]
        /\ \A i \in Positions(Tail(toAgent[d])) :
              i + 1 \in Positions(toAgent[d]) /\ Tail(toAgent[d])[i] = toAgent[d][i + 1]
    BY <1>01, TailFacts, Zenon
  <1>3. toAgent' \in [Devices -> Seq(ToMsg)] BY <1>1, <1>2
  <1>4. m.req \in Requests /\ device[m.req] = d BY <1>2 DEF ToMsg, OnTheWay
  <1> HIDE DEF m
  <1>5. ASSUME NEW e \in Devices, NEW i \in Positions(toAgent'[e])
        PROVE  \E k \in Positions(toAgent[e]) :
                  /\ toAgent'[e][i] = toAgent[e][k]
                  /\ e = d => k = i + 1
                  /\ e # d => k = i /\ toAgent'[e] = toAgent[e]
    <2>1. CASE e = d BY <1>1, <1>2, <2>1
    <2>2. CASE e # d BY <1>1, <2>2
    <2> QED BY <2>1, <2>2
  <1>6. OnTheWay'
    <2> SUFFICES ASSUME NEW e \in Devices, NEW i \in Positions(toAgent'[e])
                 PROVE  LET n == toAgent'[e][i] IN
                        /\ n.req \in forwarded' /\ device'[n.req] = e
                        /\ n.type = "request" =>
                              /\ n.key \in blind'[n.req]
                              /\ access'[n.req] = None /\ asked'[n.req] = 0
                              /\ \A j \in Positions(toAgent'[e]) :
                                    IsRequest(toAgent'[e][j], n.req) => j = i
      BY Zenon DEF OnTheWay
    <2>1. PICK k \in Positions(toAgent[e]) :
             /\ toAgent'[e][i] = toAgent[e][k]
             /\ e = d => k = i + 1
             /\ e # d => k = i /\ toAgent'[e] = toAgent[e]
      BY <1>5
    <2> DEFINE n == toAgent[e][k]
    <2>2. /\ n.req \in forwarded /\ device[n.req] = e
          /\ n.type = "request" =>
                /\ n.key \in blind[n.req]
                /\ access[n.req] = None /\ asked[n.req] = 0
                /\ \A j \in Positions(toAgent[e]) :
                      IsRequest(toAgent[e][j], n.req) => j = k
      BY DEF OnTheWay
    <2>3. n.req \in Requests BY <2>2 DEF TypeOK
    <2> HIDE DEF n
    <2>4. ASSUME n.type = "request" PROVE access'[n.req] = None /\ asked'[n.req] = 0
      <3>1. CASE n.req # m.req BY <2>2, <2>3, <2>4, <3>1 DEF m
      <3>2. CASE n.req = m.req
        <4>1. e = d BY <1>4, <2>2, <3>2
        <4>2. m.type # "request"
          <5>1. k # 1 BY <2>1, <4>1 DEF Positions
          <5> QED BY <1>2, <2>2, <2>4, <3>2, <4>1, <5>1 DEF IsRequest
        <4> QED BY <2>2, <2>4, <3>2, <4>2 DEF m
      <3> QED BY <3>1, <3>2
    <2>5. ASSUME n.type = "request", NEW j \in Positions(toAgent'[e]),
                 IsRequest(toAgent'[e][j], n.req)
          PROVE  j = i
      <3>1. PICK l \in Positions(toAgent[e]) :
               /\ toAgent'[e][j] = toAgent[e][l]
               /\ e = d => l = j + 1
               /\ e # d => l = j
        BY <1>5
      <3>2. l = k BY <2>2, <2>5, <3>1
      <3> QED BY <2>1, <3>1, <3>2 DEF Positions
    <2>6. toAgent'[e][i] = n BY <2>1 DEF n
    <2>7. n.req \in forwarded' /\ device'[n.req] = e BY <2>2
    <2>8. n.type = "request" => n.key \in blind'[n.req] BY <2>2
    <2> QED BY <2>4, <2>5, <2>6, <2>7, <2>8
  <1> QED BY <1>3, <1>6

\* The broker appends a message for the machine of its request; a commitment
\* only when none was ever sent.
LEMMA PushKeeps ==
    ASSUME AccessInv, NEW r \in Requests, NEW m \in ToMsg, m.req = r,
           device[r] \in Devices,
           toAgent' = [toAgent EXCEPT ![device[r]] = Append(@, m)],
           forwarded' = forwarded \cup {r},
           UNCHANGED <<device, access, asked>>,
           \A q \in Requests : blind[q] \subseteq blind'[q],
           m.type = "request" => r \notin forwarded /\ m.key \in blind'[r]
    PROVE  toAgent' \in [Devices -> Seq(ToMsg)] /\ OnTheWay'
  <1> USE DEF AccessInv
  <1> DEFINE d == device[r]
  <1>1. toAgent \in [Devices -> Seq(ToMsg)] BY DEF TypeOK, ToMsg
  <1>01. toAgent[d] \in Seq(ToMsg) BY <1>1
  <1>2. /\ Append(toAgent[d], m) \in Seq(ToMsg)
        /\ \A i \in Positions(Append(toAgent[d], m)) :
              \/ i \in Positions(toAgent[d]) /\ Append(toAgent[d], m)[i] = toAgent[d][i]
              \/ /\ i \notin Positions(toAgent[d]) /\ i = Len(toAgent[d]) + 1
                 /\ Append(toAgent[d], m)[i] = m
    BY <1>01 DEF Positions
  <1> HIDE DEF d
  <1>3. toAgent' = [toAgent EXCEPT ![d] = Append(@, m)] /\ d \in Devices BY DEF d
  <1>4. toAgent' \in [Devices -> Seq(ToMsg)] BY <1>1, <1>2, <1>3
  <1>5. ASSUME NEW e \in Devices, NEW i \in Positions(toAgent'[e])
        PROVE  \/ i \in Positions(toAgent[e]) /\ toAgent'[e][i] = toAgent[e][i]
               \/ e = d /\ i = Len(toAgent[d]) + 1 /\ toAgent'[e][i] = m
    <2>1. CASE e = d BY <1>1, <1>2, <1>3, <2>1
    <2>2. CASE e # d BY <1>1, <1>3, <2>2
    <2> QED BY <2>1, <2>2
  <1>6. ASSUME NEW e \in Devices, NEW i \in Positions(toAgent[e])
        PROVE  toAgent[e][i].req \in forwarded
    BY DEF OnTheWay
  <1>7. OnTheWay'
    <2> SUFFICES ASSUME NEW e \in Devices, NEW i \in Positions(toAgent'[e])
                 PROVE  LET n == toAgent'[e][i] IN
                        /\ n.req \in forwarded' /\ device'[n.req] = e
                        /\ n.type = "request" =>
                              /\ n.key \in blind'[n.req]
                              /\ access'[n.req] = None /\ asked'[n.req] = 0
                              /\ \A j \in Positions(toAgent'[e]) :
                                    IsRequest(toAgent'[e][j], n.req) => j = i
      BY Zenon DEF OnTheWay
    <2>1. CASE i \in Positions(toAgent[e]) /\ toAgent'[e][i] = toAgent[e][i]
      <3> DEFINE n == toAgent[e][i]
      <3>1. /\ n.req \in forwarded /\ device[n.req] = e
            /\ n.type = "request" =>
                  /\ n.key \in blind[n.req]
                  /\ access[n.req] = None /\ asked[n.req] = 0
                  /\ \A j \in Positions(toAgent[e]) :
                        IsRequest(toAgent[e][j], n.req) => j = i
        BY <2>1 DEF OnTheWay
      <3>2. n.req \in Requests BY <3>1 DEF TypeOK
      <3> HIDE DEF n
      <3>3. ASSUME n.type = "request", NEW j \in Positions(toAgent'[e]),
                   IsRequest(toAgent'[e][j], n.req)
            PROVE  j = i
        <4>1. toAgent'[e][j] # m BY <3>1, <3>3 DEF IsRequest
        <4> QED BY <1>5, <3>1, <3>3, <4>1
      <3>4. toAgent'[e][i] = n BY <2>1 DEF n
      <3>5. n.req \in forwarded' /\ device'[n.req] = e BY <3>1
      <3>6. ASSUME n.type = "request"
            PROVE  /\ n.key \in blind'[n.req]
                   /\ access'[n.req] = None /\ asked'[n.req] = 0
        BY <3>1, <3>2, <3>6
      <3> QED BY <3>3, <3>4, <3>5, <3>6
    <2>2. CASE e = d /\ i = Len(toAgent[d]) + 1 /\ toAgent'[e][i] = m
      <3>1. ASSUME m.type = "request", NEW j \in Positions(toAgent'[e]),
                   IsRequest(toAgent'[e][j], r)
            PROVE  j = i
        BY <1>5, <1>6, <2>2, <3>1 DEF IsRequest
      <3>2. m.type = "request" => access[r] = None /\ asked[r] = 0 BY DEF Forwarding
      <3>3. m.req \in forwarded' /\ device'[m.req] = e BY <2>2 DEF d
      <3> QED BY <2>2, <3>1, <3>2, <3>3
    <2> QED BY <1>5, <2>1, <2>2
  <1> QED BY <1>4, <1>7

\* A machine answers truthfully, or about a request of another.
LEMMA SendsKeeps ==
    ASSUME AccessInv, NEW d \in Devices, NEW m \in FromMsg,
           fromAgent' = Sends(d, m), UNCHANGED <<device, forwarded>>,
           approved \subseteq approved',
           device[m.req] # None,
           m.type = "ack" => m.req \in forwarded,
           m.type = "approved" /\ device[m.req] = d => <<d, m.req>> \in approved'
    PROVE  fromAgent' \in [Devices -> Seq(FromMsg)] /\ OnTheWayBack'
  <1> USE DEF AccessInv
  <1>1. fromAgent \in [Devices -> Seq(FromMsg)] BY DEF TypeOK, FromMsg
  <1>01. fromAgent[d] \in Seq(FromMsg) BY <1>1
  <1>2. /\ Append(fromAgent[d], m) \in Seq(FromMsg)
        /\ \A i \in Positions(Append(fromAgent[d], m)) :
              \/ i \in Positions(fromAgent[d]) /\ Append(fromAgent[d], m)[i] = fromAgent[d][i]
              \/ /\ i \notin Positions(fromAgent[d]) /\ i = Len(fromAgent[d]) + 1
                 /\ Append(fromAgent[d], m)[i] = m
    BY <1>01 DEF Positions
  <1>3. fromAgent' \in [Devices -> Seq(FromMsg)] BY <1>1, <1>2 DEF Sends
  <1>4. ASSUME NEW e \in Devices, NEW i \in Positions(fromAgent'[e])
        PROVE  \/ i \in Positions(fromAgent[e]) /\ fromAgent'[e][i] = fromAgent[e][i]
               \/ e = d /\ fromAgent'[e][i] = m
    <2>1. CASE e = d BY <1>1, <1>2, <2>1 DEF Sends
    <2>2. CASE e # d BY <1>1, <2>2 DEF Sends
    <2> QED BY <2>1, <2>2
  <1>5. OnTheWayBack'
    <2> SUFFICES ASSUME NEW e \in Devices, NEW i \in Positions(fromAgent'[e])
                 PROVE  LET n == fromAgent'[e][i] IN
                        /\ device[n.req] # None
                        /\ n.type = "ack" => n.req \in forwarded
                        /\ n.type = "approved" /\ device[n.req] = e =>
                              <<e, n.req>> \in approved'
      BY DEF OnTheWayBack, Positions
    <2>1. CASE i \in Positions(fromAgent[e]) /\ fromAgent'[e][i] = fromAgent[e][i]
      BY <2>1 DEF OnTheWayBack
    <2>2. CASE e = d /\ fromAgent'[e][i] = m BY <2>2
    <2> QED BY <1>4, <2>1, <2>2
  <1> QED BY <1>3, <1>5

-----------------------------------------------------------------------------
(***************************************************************************)
(* One lemma for each part of Next.                                        *)
(***************************************************************************)

\* A new request takes the place of an expired one, never of a live one.
LEMMA PairRequestKeeps ==
    ASSUME AccessInv, NEW r \in Requests, NEW d \in Devices, PairRequest(r, d)
    PROVE  AccessInv'
  <1> USE DEF AccessInv
  <1>0. AccessAssumption BY AccessAssumption
  <1>1. /\ device[r] = None
        /\ device' = [device EXCEPT ![r] = d]
        /\ pendingByDevice' = [pendingByDevice EXCEPT ![d] = r]
        /\ requests' = (requests \ {q \in {pendingByDevice[d]} : ~Live(q)}) \cup {r}
        /\ UNCHANGED <<now, online, toAgent, fromAgent, forwarded, browserVars, agentVars>>
    BY DEF PairRequest
  <1>2. d # None BY <1>0 DEF AccessAssumption
  <1>3. r \notin requests /\ r \notin forwarded BY <1>1 DEF Maps, Forwarding
  <1>4. TypeOK'
    <2>1. expiresAt' \in [Requests -> Nat]
      BY <1>0 DEF PairRequest, TypeOK, AccessAssumption
    <2> QED BY <1>1, <2>1 DEF TypeOK, browserVars, agentVars
  <1>5. Maps'
    <2>1. ASSUME NEW q \in requests, pendingByDevice[d] = q PROVE q \notin requests'
      <3>1. q \in Requests /\ q # None /\ q # r
        BY <1>0, <1>3 DEF TypeOK, AccessAssumption
      <3>2. ~Live(q) BY <2>1, <3>1 DEF PairRequest, Stands
      <3> QED BY <1>1, <2>1, <3>1, <3>2
    <2>2. ASSUME NEW q \in requests' PROVE device'[q] # None /\ pendingByDevice'[device'[q]] = q
      <3>1. CASE q = r BY <1>1, <1>2, <3>1 DEF TypeOK
      <3>2. CASE q # r
        <4>1. q \in requests /\ q \in Requests BY <1>1, <3>2 DEF TypeOK
        <4>2. device[q] # None /\ pendingByDevice[device[q]] = q BY <4>1 DEF Maps
        <4>3. device[q] # d BY <2>1, <2>2, <4>1, <4>2
        <4> QED BY <1>1, <3>2, <4>1, <4>2, <4>3 DEF TypeOK
      <3> QED BY <3>1, <3>2
    <2>3. ASSUME NEW e \in Devices, pendingByDevice'[e] # None
          PROVE  pendingByDevice'[e] \in requests' /\ device'[pendingByDevice'[e]] = e
      <3>1. CASE e = d BY <1>1, <3>1 DEF TypeOK
      <3>2. CASE e # d
        <4>1. pendingByDevice'[e] = pendingByDevice[e] BY <1>1, <3>2 DEF TypeOK
        <4>2. pendingByDevice[e] \in requests /\ device[pendingByDevice[e]] = e
          BY <2>3, <4>1 DEF Maps
        <4>3. pendingByDevice[e] # r BY <1>3, <4>2
        <4>4. pendingByDevice[e] # pendingByDevice[d]
          BY <3>2, <4>2, <2>3, <4>1 DEF Maps
        <4> QED BY <1>1, <4>1, <4>2, <4>3, <4>4 DEF TypeOK
      <3> QED BY <3>1, <3>2
    <2> QED BY <2>2, <2>3 DEF Maps
  <1>6. Forwarding' /\ OneQuestion' /\ HeldIsBlind'
    BY <1>1, <1>3 DEF Forwarding, OneQuestion, HeldIsBlind, browserVars, agentVars, TypeOK
  <1>7. \A q \in Requests : q # r => device'[q] = device[q] BY <1>1 DEF TypeOK
  <1>8. OnTheWay'
    <2>1. ASSUME NEW e \in Devices, NEW i \in Positions(toAgent[e])
          PROVE  device'[toAgent[e][i].req] = device[toAgent[e][i].req]
      <3>1. toAgent[e][i].req \in forwarded BY DEF OnTheWay
      <3> QED BY <1>3, <1>7, <3>1 DEF TypeOK
    <2>2. UNCHANGED <<toAgent, forwarded, blind, access, asked>>
      BY <1>1 DEF browserVars, agentVars
    <2> QED BY <2>1, <2>2 DEF OnTheWay
  <1>9. OnTheWayBack'
    <2>1. ASSUME NEW e \in Devices, NEW i \in Positions(fromAgent[e])
          PROVE  device'[fromAgent[e][i].req] = device[fromAgent[e][i].req]
      <3>1. device[fromAgent[e][i].req] # None BY DEF OnTheWayBack
      <3>2. fromAgent[e] \in Seq(FromMsg) BY DEF TypeOK, FromMsg
      <3>3. fromAgent[e][i] \in FromMsg BY <3>2 DEF Positions
      <3>4. fromAgent[e][i].req \in Requests BY <3>3 DEF FromMsg
      <3> QED BY <1>1, <1>7, <3>1, <3>4
    <2>2. UNCHANGED <<fromAgent, forwarded, approved>> BY <1>1 DEF agentVars
    <2> QED BY <2>1, <2>2 DEF OnTheWayBack
  <1>10. ApprovedByTarget'
    <2> SUFFICES ASSUME NEW q \in Requests, outcome[q] = "approved"
                 PROVE  <<device'[q], q>> \in approved
      BY <1>1 DEF ApprovedByTarget, browserVars, agentVars
    <2>1. <<device[q], q>> \in approved BY DEF ApprovedByTarget
    <2>2. device[q] \in Devices BY <2>1 DEF TypeOK
    <2>3. q # r BY <1>0, <1>1, <2>2 DEF AccessAssumption
    <2> QED BY <1>7, <2>1, <2>3
  <1> QED BY <1>4, <1>5, <1>6, <1>8, <1>9, <1>10

\* A browser's socket and its messages keep the invariant.
LEMMA BrowserKeeps ==
    ASSUME AccessInv, NEW r \in Requests, BrowserStep(r)
    PROVE  AccessInv'
  <1>0. TypeOK /\ Maps /\ Forwarding BY DEF AccessInv
  <1>1. ASSUME NEW d \in Devices, PairRequest(r, d) PROVE AccessInv'
    BY <1>1, PairRequestKeeps
  <1>2. CASE AttachRequestSocket(r)
    <2>1. CASE Live(r)
      BY <1>0, <1>2, <2>1, QuietKeeps
      DEF AttachRequestSocket, TypeOK, Maps, brokerVars, agentVars, DropRequests
    <2>2. CASE ~Live(r)
      <3>1. /\ socket' = [socket EXCEPT ![r] = "closed"]
            /\ Hears(r, "denied") /\ DropRequests({r})
            /\ UNCHANGED <<now, online, toAgent, fromAgent, sends, blind, agentVars>>
        BY <1>2, <2>2 DEF AttachRequestSocket
      <3>2. /\ heardKey' = heardKey
            /\ outcome' \in [Requests -> {"none", "approved", "denied"}]
            /\ \A q \in Requests : outcome'[q] = "approved" => outcome[q] = "approved"
        BY <1>0, <3>1, HearsFacts DEF Replies
      <3>3. Maps' /\ requests' \subseteq Requests
            /\ pendingByDevice' \in [Devices -> Requests \cup {None}]
        BY <1>0, <3>1, DropKeepsMaps
      <3>4. TypeOK' BY <1>0, <3>1, <3>2, <3>3 DEF TypeOK, DropRequests, agentVars
      <3> QED BY <3>1, <3>2, <3>3, <3>4, QuietKeeps DEF DropRequests
    <2> QED BY <2>1, <2>2
  <1>3. CASE BrowserTooLate(r)
    <2>1. /\ socket' = [socket EXCEPT ![r] = IF Live(r) THEN @ ELSE "closed"]
          /\ sends' = [sends EXCEPT ![r] = @ + 1]
          /\ Hears(r, "denied") /\ DropRequests({r})
          /\ UNCHANGED <<now, online, toAgent, fromAgent, blind, agentVars>>
      BY <1>3 DEF BrowserTooLate, Speaks
    <2>2. /\ heardKey' = heardKey
          /\ outcome' \in [Requests -> {"none", "approved", "denied"}]
          /\ \A q \in Requests : outcome'[q] = "approved" => outcome[q] = "approved"
      BY <1>0, <2>1, HearsFacts DEF Replies
    <2>3. Maps' /\ requests' \subseteq Requests
          /\ pendingByDevice' \in [Devices -> Requests \cup {None}]
      BY <1>0, <2>1, DropKeepsMaps
    <2>4. TypeOK'
      <3>1. sends' \in [Requests -> Nat] BY <1>0, <2>1 DEF TypeOK
      <3>2. socket' \in [Requests -> {"none", "open", "closed"}] BY <1>0, <2>1 DEF TypeOK
      <3> QED BY <1>0, <2>1, <2>2, <2>3, <3>1, <3>2 DEF TypeOK, DropRequests, agentVars
    <2> QED BY <2>1, <2>2, <2>3, <2>4, QuietKeeps DEF DropRequests
  <1>4. ASSUME NEW k \in BrowserKeys, BrowserCommits(r, k) PROVE AccessInv'
    <2>1. /\ sends' = [sends EXCEPT ![r] = @ + 1]
          /\ r \in requests
          /\ blind' = IF r \in heardKey THEN blind ELSE [blind EXCEPT ![r] = @ \cup {k}]
          /\ UNCHANGED <<now, online, fromAgent, requests, device, expiresAt,
                         pendingByDevice, socket, heardKey, outcome, agentVars>>
      BY <1>4 DEF BrowserCommits, Speaks, Live
    <2>2. device[r] \in Devices BY <1>0, <2>1 DEF TypeOK, Maps
    <2>3. /\ blind' \in [Requests -> SUBSET BrowserKeys]
          /\ \A q \in Requests : blind[q] \subseteq blind'[q]
          /\ r \notin heardKey => k \in blind'[r]
      BY <1>0, <2>1 DEF TypeOK
    <2>4. \/ forwarded' = forwarded /\ toAgent' = toAgent
          \/ /\ r \notin forwarded /\ forwarded' = forwarded \cup {r}
             /\ toAgent' = [toAgent EXCEPT ![device[r]] = Append(@, Ask(r, k))]
      BY <1>4 DEF BrowserCommits, Forwards
    <2>5. OnTheWay' /\ toAgent' \in [Devices -> Seq(ToMsg)]
      <3>1. CASE forwarded' = forwarded /\ toAgent' = toAgent
        <4>1. ASSUME NEW d \in Devices, NEW i \in Positions(toAgent[d])
              PROVE  blind[toAgent[d][i].req] \subseteq blind'[toAgent[d][i].req]
          BY <1>0, <2>3 DEF AccessInv, OnTheWay, TypeOK
        <4>2. UNCHANGED <<device, access, asked>> BY <2>1 DEF agentVars
        <4> QED BY <1>0, <3>1, <4>1, <4>2 DEF AccessInv, OnTheWay, TypeOK, ToMsg
      <3>2. CASE /\ r \notin forwarded /\ forwarded' = forwarded \cup {r}
                 /\ toAgent' = [toAgent EXCEPT ![device[r]] = Append(@, Ask(r, k))]
        <4>1. Ask(r, k) \in ToMsg /\ Ask(r, k).req = r /\ Ask(r, k).key = k
          BY DEF Ask, ToMsg
        <4>2. r \notin heardKey BY <1>0, <3>2 DEF Forwarding
        <4>3. UNCHANGED <<device, access, asked>> BY <2>1 DEF agentVars
        <4> QED BY <2>2, <2>3, <3>2, <4>1, <4>2, <4>3, PushKeeps
      <3> QED BY <2>4, <3>1, <3>2
    <2>6. forwarded' \subseteq forwarded \cup {r} /\ forwarded \subseteq forwarded'
      BY <2>4
    <2>7. TypeOK'
      <3>1. sends' \in [Requests -> Nat] BY <1>0, <2>1 DEF TypeOK
      <3> QED BY <1>0, <2>1, <2>3, <2>5, <2>6, <3>1 DEF TypeOK, ToMsg, agentVars
    <2>8. Maps' BY <1>0, <2>1 DEF Maps
    <2>9. Forwarding'
      BY <1>0, <2>1, <2>2, <2>6 DEF Forwarding, Maps, agentVars
    <2>10. OneQuestion' BY <2>1 DEF AccessInv, OneQuestion, agentVars
    <2>11. HeldIsBlind' BY <2>1, <2>3 DEF AccessInv, HeldIsBlind, agentVars
    <2>12. OnTheWayBack' BY <2>1, <2>6 DEF AccessInv, OnTheWayBack, agentVars
    <2>13. ApprovedByTarget' BY <2>1 DEF AccessInv, ApprovedByTarget, agentVars
    <2> QED BY <2>5, <2>7, <2>8, <2>9, <2>10, <2>11, <2>12, <2>13 DEF AccessInv
  <1>5. ASSUME NEW k \in BrowserKeys, BrowserReveals(r, k) PROVE AccessInv'
    <2>1. /\ sends' = [sends EXCEPT ![r] = @ + 1]
          /\ r \in requests
          /\ \/ toAgent' = toAgent
             \/ /\ r \in forwarded
                /\ toAgent' = [toAgent EXCEPT ![device[r]] = Append(@, Reveal(r, k))]
          /\ UNCHANGED <<now, online, fromAgent, brokerVars, socket, heardKey, outcome,
                         blind, agentVars>>
      BY <1>5 DEF BrowserReveals, Speaks, Live
    <2>2. device[r] \in Devices BY <1>0, <2>1 DEF TypeOK, Maps
    <2>3. OnTheWay' /\ toAgent' \in [Devices -> Seq(ToMsg)]
      <3>1. CASE toAgent' = toAgent
        BY <1>0, <2>1, <3>1 DEF AccessInv, OnTheWay, TypeOK, ToMsg, brokerVars, agentVars
      <3>2. CASE /\ r \in forwarded
                 /\ toAgent' = [toAgent EXCEPT ![device[r]] = Append(@, Reveal(r, k))]
        <4>1. /\ Reveal(r, k) \in ToMsg /\ Reveal(r, k).req = r
              /\ Reveal(r, k).type # "request"
          BY DEF Reveal, ToMsg
        <4>2. UNCHANGED <<device, access, asked>> /\ forwarded' = forwarded \cup {r}
          BY <2>1, <3>2 DEF agentVars, brokerVars
        <4>3. \A q \in Requests : blind[q] \subseteq blind'[q] BY <2>1
        <4> QED BY <2>2, <3>2, <4>1, <4>2, <4>3, PushKeeps
      <3> QED BY <2>1, <3>1, <3>2
    <2>4. TypeOK'
      <3>1. sends' \in [Requests -> Nat] BY <1>0, <2>1 DEF TypeOK
      <3> QED BY <1>0, <2>1, <2>3, <3>1 DEF TypeOK, ToMsg, brokerVars, agentVars
    <2>5. Maps' /\ Forwarding'
      BY <1>0, <2>1 DEF Maps, Forwarding, brokerVars, agentVars
    <2>6. OneQuestion' /\ HeldIsBlind'
      BY <2>1 DEF AccessInv, OneQuestion, HeldIsBlind, agentVars
    <2>7. OnTheWayBack' BY <2>1 DEF AccessInv, OnTheWayBack, brokerVars, agentVars
    <2>8. ApprovedByTarget' BY <2>1 DEF AccessInv, ApprovedByTarget, brokerVars, agentVars
    <2> QED BY <2>3, <2>4, <2>5, <2>6, <2>7, <2>8 DEF AccessInv
  <1>6. CASE BrowserCloses(r)
    <2>1. /\ socket' = [socket EXCEPT ![r] = "closed"]
          /\ DropRequests({r})
          /\ UNCHANGED <<now, online, toAgent, fromAgent, sends, heardKey, outcome,
                         blind, agentVars>>
      BY <1>6 DEF BrowserCloses
    <2>2. Maps' /\ requests' \subseteq Requests
          /\ pendingByDevice' \in [Devices -> Requests \cup {None}]
      BY <1>0, <2>1, DropKeepsMaps
    <2>3. TypeOK' BY <1>0, <2>1, <2>2 DEF TypeOK, DropRequests, agentVars
    <2> QED BY <2>1, <2>2, <2>3, QuietKeeps DEF DropRequests
  <1> QED BY <1>1, <1>2, <1>3, <1>4, <1>5, <1>6 DEF BrowserStep

\* The machine's and the broker's ends of their connection keep the invariant.
LEMMA AgentKeeps ==
    ASSUME AccessInv, NEW d \in Devices, AgentStep(d)
    PROVE  AccessInv'
  <1>0. TypeOK /\ Maps /\ Forwarding /\ OneQuestion BY DEF AccessInv
  <1>00. AccessAssumption BY AccessAssumption
  <1>01. ASSUME toAgent[d] # <<>>
         PROVE  LET m == Head(toAgent[d]) IN
                /\ m \in ToMsg /\ m.req \in Requests /\ m.key \in BrowserKeys
                /\ m.req \in forwarded /\ device[m.req] = d
                /\ m.type = "request" => m.key \in blind[m.req] /\ asked[m.req] = 0
    <2>1. toAgent[d] \in Seq(ToMsg) BY <1>0 DEF TypeOK, ToMsg
    <2>2. /\ Head(toAgent[d]) \in ToMsg /\ 1 \in Positions(toAgent[d])
          /\ Head(toAgent[d]) = toAgent[d][1]
      BY <1>01, <2>1, TailFacts
    <2>3. /\ toAgent[d][1].req \in forwarded /\ device[toAgent[d][1].req] = d
          /\ toAgent[d][1].type = "request" =>
                toAgent[d][1].key \in blind[toAgent[d][1].req]
                /\ asked[toAgent[d][1].req] = 0
      BY <2>2 DEF AccessInv, OnTheWay
    <2> QED BY <2>2, <2>3 DEF ToMsg
  <1>1. CASE AgentHearsRequest(d)
    <2> DEFINE m == Head(toAgent[d])
    <2>1. /\ toAgent[d] # <<>> /\ m.type = "request"
          /\ toAgent' = [toAgent EXCEPT ![d] = Tail(@)]
          /\ access' = [access EXCEPT ![m.req] = m.key]
          /\ fromAgent' = Sends(d, Reply("ack", m.req))
          /\ UNCHANGED <<now, online, brokerVars, browserVars, deciding, askedAt,
                         asked, approved>>
      BY <1>1 DEF AgentHearsRequest
    <2>2. /\ m \in ToMsg /\ m.req \in Requests /\ m.key \in BrowserKeys
          /\ m.req \in forwarded /\ device[m.req] = d
          /\ m.key \in blind[m.req] /\ asked[m.req] = 0
      BY <1>01, <2>1
    <2>3. toAgent' \in [Devices -> Seq(ToMsg)] /\ OnTheWay'
      <3>1. \A r \in Requests : r # m.req => access'[r] = access[r] /\ asked'[r] = asked[r]
        BY <1>0, <2>1 DEF TypeOK
      <3> QED BY <2>1, <3>1, PopKeeps DEF brokerVars, browserVars
    <2> HIDE DEF m
    <2>4. /\ Reply("ack", m.req) \in FromMsg /\ Reply("ack", m.req).req = m.req
          /\ Reply("ack", m.req).type = "ack"
      BY <2>2 DEF Reply, FromMsg, Replies
    <2>5. device[m.req] # None BY <1>00, <2>2 DEF AccessAssumption
    <2>6. fromAgent' \in [Devices -> Seq(FromMsg)] /\ OnTheWayBack'
      BY <2>1, <2>2, <2>4, <2>5, SendsKeeps DEF brokerVars
    <2>7. access' \in [Requests -> BrowserKeys \cup {None}]
          /\ \A r \in Requests : access'[r] = IF r = m.req THEN m.key ELSE access[r]
      BY <1>0, <2>1, <2>2 DEF TypeOK
    <2>8. TypeOK'
      BY <1>0, <2>1, <2>3, <2>6, <2>7 DEF TypeOK, ToMsg, FromMsg, brokerVars, browserVars
    <2>9. Maps' BY <1>0, <2>1 DEF Maps, brokerVars
    <2>10. Forwarding' BY <1>0, <2>1, <2>2, <2>7 DEF Forwarding, brokerVars, browserVars
    <2>11. OneQuestion' BY <1>0, <2>1, <2>2, <2>7 DEF OneQuestion
    <2>12. HeldIsBlind' BY <2>1, <2>2, <2>7 DEF AccessInv, HeldIsBlind, browserVars
    <2>13. ApprovedByTarget' BY <2>1 DEF AccessInv, ApprovedByTarget, brokerVars, browserVars
    <2> QED BY <2>3, <2>6, <2>8, <2>9, <2>10, <2>11, <2>12, <2>13 DEF AccessInv
  <1>2. CASE AgentHearsReveal(d)
    <2> DEFINE m == Head(toAgent[d])
    <2>1. /\ toAgent[d] # <<>>
          /\ toAgent' = [toAgent EXCEPT ![d] = Tail(@)]
          /\ UNCHANGED <<now, online, brokerVars, browserVars, approved>>
      BY <1>2 DEF AgentHearsReveal, agentVars
    <2>2. \/ UNCHANGED <<fromAgent, access, deciding, askedAt, asked>>
          \/ /\ access[m.req] # None
             /\ access' = [access EXCEPT ![m.req] = None]
             /\ fromAgent' = Sends(d, Reply("denied", m.req))
             /\ UNCHANGED <<deciding, askedAt, asked>>
          \/ /\ access[m.req] # None
             /\ access' = [access EXCEPT ![m.req] = None]
             /\ access[m.req] = m.key
             /\ deciding' = [deciding EXCEPT ![m.req] = m.key]
             /\ askedAt' = [askedAt EXCEPT ![m.req] = now]
             /\ asked' = [asked EXCEPT ![m.req] = @ + 1]
             /\ UNCHANGED fromAgent
      BY <1>2 DEF AgentHearsReveal, agentVars, OneShot
    <2>3. /\ m \in ToMsg /\ m.req \in Requests /\ m.key \in BrowserKeys
          /\ m.req \in forwarded /\ device[m.req] = d
      BY <1>01, <2>1
    <2>4. toAgent' \in [Devices -> Seq(ToMsg)] /\ OnTheWay'
      <3>1. \A r \in Requests : r # m.req => access'[r] = access[r] /\ asked'[r] = asked[r]
        BY <1>0, <2>2, <2>3 DEF TypeOK
      <3>2. access[m.req] # None \/ UNCHANGED <<access, asked>> BY <2>2
      <3> QED BY <2>1, <3>1, <3>2, PopKeeps DEF brokerVars, browserVars
    <2> HIDE DEF m
    <2>5. fromAgent' \in [Devices -> Seq(FromMsg)] /\ OnTheWayBack'
      <3>1. CASE UNCHANGED fromAgent
        BY <1>0, <2>1, <3>1 DEF AccessInv, OnTheWayBack, TypeOK, FromMsg, brokerVars
      <3>2. CASE fromAgent' = Sends(d, Reply("denied", m.req))
        <4>1. /\ Reply("denied", m.req) \in FromMsg /\ Reply("denied", m.req).req = m.req
              /\ Reply("denied", m.req).type = "denied"
          BY <2>3 DEF Reply, FromMsg, Replies
        <4>2. device[m.req] # None BY <1>00, <2>3 DEF AccessAssumption
        <4> QED BY <2>1, <3>2, <4>1, <4>2, SendsKeeps DEF brokerVars
      <3> QED BY <2>2, <3>1, <3>2
    <2>6. /\ access' \in [Requests -> BrowserKeys \cup {None}]
          /\ deciding' \in [Requests -> BrowserKeys \cup {None}]
          /\ askedAt' \in [Requests -> Nat] /\ asked' \in [Requests -> Nat]
      <3>1. now \in Nat BY <1>0 DEF TypeOK
      <3>2. access' \in [Requests -> BrowserKeys \cup {None}] BY <1>0, <2>2 DEF TypeOK
      <3>3. deciding' \in [Requests -> BrowserKeys \cup {None}]
        BY <1>0, <2>2, <2>3 DEF TypeOK
      <3>4. askedAt' \in [Requests -> Nat]
        <4>1. askedAt \in [Requests -> Nat] BY <1>0 DEF TypeOK
        <4>2. askedAt' = askedAt \/ askedAt' = [askedAt EXCEPT ![m.req] = now] BY <2>2
        <4> QED BY <3>1, <4>1, <4>2
      <3>5. asked' \in [Requests -> Nat]
        <4>1. asked \in [Requests -> Nat] /\ asked[m.req] + 1 \in Nat
          BY <1>0, <2>3 DEF TypeOK
        <4>2. asked' = asked \/ asked' = [asked EXCEPT ![m.req] = asked[m.req] + 1]
          BY <2>2
        <4> QED BY <4>1, <4>2
      <3> QED BY <3>2, <3>3, <3>4, <3>5
    <2>7. TypeOK'
      BY <1>0, <2>1, <2>4, <2>5, <2>6 DEF TypeOK, ToMsg, FromMsg, brokerVars, browserVars
    <2>8. Maps' BY <1>0, <2>1 DEF Maps, brokerVars
    <2>9. \A r \in Requests : r # m.req =>
             access'[r] = access[r] /\ asked'[r] = asked[r] /\ deciding'[r] = deciding[r]
      BY <1>0, <2>2, <2>3 DEF TypeOK
    <2>10. Forwarding' BY <1>0, <2>1, <2>3, <2>9 DEF Forwarding, brokerVars, browserVars
    <2>11. \/ /\ access'[m.req] = access[m.req] /\ asked'[m.req] = asked[m.req]
              /\ deciding'[m.req] = deciding[m.req]
           \/ /\ access[m.req] # None /\ access'[m.req] = None
              /\ asked'[m.req] = asked[m.req] /\ deciding'[m.req] = deciding[m.req]
           \/ /\ access[m.req] # None /\ access'[m.req] = None
              /\ asked'[m.req] = asked[m.req] + 1
              /\ deciding'[m.req] = access[m.req]
      BY <1>0, <2>2, <2>3 DEF TypeOK
    <2>12. OneQuestion' BY <1>0, <2>9, <2>11 DEF OneQuestion
    <2>13. HeldIsBlind' BY <2>1, <2>3, <2>9, <2>11 DEF AccessInv, HeldIsBlind, browserVars
    <2>14. ApprovedByTarget' BY <2>1 DEF AccessInv, ApprovedByTarget, brokerVars, browserVars
    <2> QED BY <2>4, <2>5, <2>7, <2>8, <2>10, <2>12, <2>13, <2>14 DEF AccessInv
  <1>3. CASE BrokerHearsReply(d)
    <2> DEFINE m == Head(fromAgent[d])
               r == m.req
    <2>1. /\ fromAgent[d] # <<>>
          /\ fromAgent' = [fromAgent EXCEPT ![d] = Tail(@)]
          /\ \/ UNCHANGED <<heardKey, outcome>>
             \/ device[r] = d /\ Hears(r, m.type)
          /\ UNCHANGED brokerVars \/ DropRequests({r})
          /\ UNCHANGED <<now, online, toAgent, socket, sends, blind, agentVars>>
      BY <1>3 DEF BrokerHearsReply, MayAnswer
    <2>2. fromAgent[d] \in Seq(FromMsg) BY <1>0 DEF TypeOK, FromMsg
    <2>3. /\ Tail(fromAgent[d]) \in Seq(FromMsg)
          /\ m \in FromMsg /\ 1 \in Positions(fromAgent[d]) /\ m = fromAgent[d][1]
          /\ \A i \in Positions(Tail(fromAgent[d])) :
                i + 1 \in Positions(fromAgent[d])
                /\ Tail(fromAgent[d])[i] = fromAgent[d][i + 1]
      BY <2>1, <2>2, TailFacts, Zenon
    <2>4. /\ m.type = "ack" => r \in forwarded
          /\ m.type = "approved" /\ device[r] = d => <<d, r>> \in approved
      BY <2>3 DEF AccessInv, OnTheWayBack
    <2>5. r \in Requests /\ m.type \in Replies BY <2>3 DEF FromMsg
    <2> HIDE DEF m
    <2>6. /\ heardKey' \subseteq Requests
          /\ outcome' \in [Requests -> {"none", "approved", "denied"}]
          /\ heardKey' \subseteq forwarded \cup heardKey
          /\ \A q \in Requests : outcome'[q] = "approved" =>
                outcome[q] = "approved" \/ <<device[q], q>> \in approved
      <3>1. CASE UNCHANGED <<heardKey, outcome>> BY <1>0, <3>1 DEF TypeOK
      <3>2. CASE device[r] = d /\ Hears(r, m.type)
        BY <1>0, <2>4, <2>5, <3>2, HearsFacts
      <3> QED BY <2>1, <3>1, <3>2
    <2>7. /\ Maps' /\ requests' \subseteq Requests
          /\ pendingByDevice' \in [Devices -> Requests \cup {None}]
          /\ UNCHANGED <<device, expiresAt, forwarded>>
      <3>1. CASE UNCHANGED brokerVars BY <1>0, <3>1 DEF TypeOK, Maps, brokerVars
      <3>2. CASE DropRequests({r}) BY <1>0, <3>2, DropKeepsMaps DEF DropRequests
      <3> QED BY <2>1, <3>1, <3>2
    <2>8. fromAgent' \in [Devices -> Seq(FromMsg)] BY <1>0, <2>1, <2>3 DEF TypeOK, FromMsg
    <2>9. TypeOK'
      BY <1>0, <2>1, <2>6, <2>7, <2>8 DEF TypeOK, FromMsg, agentVars
    <2>10. OnTheWayBack'
      <3>1. ASSUME NEW e \in Devices, NEW i \in Positions(fromAgent'[e])
            PROVE  \E k \in Positions(fromAgent[e]) : fromAgent'[e][i] = fromAgent[e][k]
        <4>1. CASE e = d BY <1>0, <2>1, <2>3, <4>1 DEF TypeOK
        <4>2. CASE e # d BY <1>0, <2>1, <4>2 DEF TypeOK
        <4> QED BY <4>1, <4>2
      <3>2. UNCHANGED <<device, forwarded, approved>> BY <2>1, <2>7 DEF agentVars
      <3> QED BY <3>1, <3>2 DEF AccessInv, OnTheWayBack
    <2>11. Forwarding' BY <1>0, <2>1, <2>6, <2>7 DEF Forwarding, agentVars
    <2>12. OneQuestion' /\ HeldIsBlind'
      BY <2>1 DEF AccessInv, OneQuestion, HeldIsBlind, agentVars
    <2>13. OnTheWay' BY <2>1, <2>7 DEF AccessInv, OnTheWay, agentVars
    <2>14. ApprovedByTarget' BY <2>1, <2>6, <2>7 DEF AccessInv, ApprovedByTarget, agentVars
    <2> QED BY <2>7, <2>9, <2>10, <2>11, <2>12, <2>13, <2>14 DEF AccessInv
  <1>4. CASE AgentOnline(d)
    BY <1>0, <1>4, QuietKeeps
    DEF AgentOnline, TypeOK, Maps, brokerVars, browserVars, agentVars
  <1>5. CASE AgentOffline(d)
    <2>1. /\ toAgent' = [toAgent EXCEPT ![d] = <<>>]
          /\ fromAgent' = [fromAgent EXCEPT ![d] = <<>>]
          /\ online' = online \ {d}
          /\ UNCHANGED <<now, brokerVars, browserVars, agentVars>>
      BY <1>5 DEF AgentOffline
    <2>2. \A e \in Devices : /\ toAgent'[e] = toAgent[e] \/ toAgent'[e] = <<>>
                             /\ fromAgent'[e] = fromAgent[e] \/ fromAgent'[e] = <<>>
      BY <1>0, <2>1 DEF TypeOK
    <2>3. <<>> \in Seq(ToMsg) /\ <<>> \in Seq(FromMsg) OBVIOUS
    <2>4. TypeOK'
      <3>1. toAgent' \in [Devices -> Seq(ToMsg)] /\ fromAgent' \in [Devices -> Seq(FromMsg)]
        BY <1>0, <2>1, <2>3 DEF TypeOK, ToMsg, FromMsg
      <3> QED BY <1>0, <2>1, <3>1
          DEF TypeOK, ToMsg, FromMsg, brokerVars, browserVars, agentVars
    <2>5. OnTheWay'
      <3>1. ASSUME NEW e \in Devices, NEW i \in Positions(toAgent'[e])
            PROVE  toAgent'[e] = toAgent[e]
        BY <2>2, <3>1 DEF Positions
      <3>2. UNCHANGED <<device, forwarded, blind, access, asked>>
        BY <2>1 DEF brokerVars, browserVars, agentVars
      <3> QED BY <3>1, <3>2 DEF AccessInv, OnTheWay
    <2>6. OnTheWayBack'
      <3>1. ASSUME NEW e \in Devices, NEW i \in Positions(fromAgent'[e])
            PROVE  fromAgent'[e] = fromAgent[e]
        BY <2>2, <3>1 DEF Positions
      <3>2. UNCHANGED <<device, forwarded, approved>> BY <2>1 DEF brokerVars, agentVars
      <3> QED BY <3>1, <3>2 DEF AccessInv, OnTheWayBack
    <2>7. Maps' /\ Forwarding'
      BY <1>0, <2>1 DEF Maps, Forwarding, brokerVars, browserVars, agentVars
    <2>8. OneQuestion' /\ HeldIsBlind' /\ ApprovedByTarget'
      BY <2>1 DEF AccessInv, OneQuestion, HeldIsBlind, ApprovedByTarget, brokerVars,
                  browserVars, agentVars
    <2> QED BY <2>4, <2>5, <2>6, <2>7, <2>8 DEF AccessInv
  <1> QED BY <1>1, <1>2, <1>3, <1>4, <1>5 DEF AgentStep

\* The human's answer, and one nobody asked for, keep the invariant.
LEMMA AnswerKeeps ==
    ASSUME AccessInv, NEW r \in Requests,
           \/ HumanApproves(r) \/ HumanRefuses(r)
           \/ \E d \in Devices : StrayAnswer(d, r)
    PROVE  AccessInv'
  <1>0. TypeOK /\ Maps /\ Forwarding BY DEF AccessInv
  <1>1. ASSUME NEW t \in {"approved", "denied"}
        PROVE  /\ Reply(t, r) \in FromMsg /\ Reply(t, r).req = r
               /\ Reply(t, r).type = t
    BY DEF Reply, FromMsg, Replies
  <1>2. ASSUME NEW d \in Devices, NEW t \in {"approved", "denied"},
               fromAgent' = Sends(d, Reply(t, r)),
               approved \subseteq approved', approved' \subseteq approved \cup {<<d, r>>},
               device[r] # None,
               t = "approved" /\ device[r] = d => <<d, r>> \in approved',
               deciding' = deciding \/ deciding' = [deciding EXCEPT ![r] = None],
               UNCHANGED <<now, online, toAgent, brokerVars, browserVars, access,
                           askedAt, asked>>
        PROVE  AccessInv'
    <2>1. fromAgent' \in [Devices -> Seq(FromMsg)] /\ OnTheWayBack'
      <3>1. UNCHANGED <<device, forwarded>> BY <1>2 DEF brokerVars
      <3> QED BY <1>1, <1>2, <3>1, SendsKeeps
    <2>2. /\ deciding' \in [Requests -> BrowserKeys \cup {None}]
          /\ \A q \in Requests : deciding'[q] = deciding[q] \/ deciding'[q] = None
      BY <1>0, <1>2 DEF TypeOK
    <2>3. TypeOK'
      <3>1. approved' \subseteq Devices \X Requests BY <1>0, <1>2 DEF TypeOK
      <3>2. UNCHANGED <<now, online, toAgent, brokerVars, browserVars, access,
                        askedAt, asked>>
        BY <1>2
      <3> QED BY <1>0, <2>1, <2>2, <3>1, <3>2 DEF TypeOK, FromMsg, brokerVars, browserVars
    <2>4. Maps' BY <1>0, <1>2 DEF Maps, brokerVars
    <2>5. Forwarding' BY <1>0, <1>2, <2>2 DEF Forwarding, brokerVars, browserVars
    <2>6. OneQuestion' /\ HeldIsBlind'
      BY <1>2, <2>2 DEF AccessInv, OneQuestion, HeldIsBlind, browserVars
    <2>7. OnTheWay' BY <1>2 DEF AccessInv, OnTheWay, brokerVars, browserVars
    <2>8. ApprovedByTarget'
      BY <1>2 DEF AccessInv, ApprovedByTarget, brokerVars, browserVars
    <2> QED BY <2>1, <2>3, <2>4, <2>5, <2>6, <2>7, <2>8 DEF AccessInv
  <1>3. CASE HumanApproves(r) \/ HumanRefuses(r)
    <2>1. deciding[r] # None BY <1>3 DEF HumanApproves, HumanRefuses
    <2>2. device[r] # None /\ device[r] \in Devices
      BY <1>0, <2>1 DEF Forwarding, TypeOK
    <2>3. CASE HumanApproves(r)
      BY <1>2, <2>2, <2>3 DEF HumanApproves
    <2>4. CASE HumanRefuses(r)
      BY <1>2, <2>2, <2>4 DEF HumanRefuses
    <2> QED BY <1>3, <2>3, <2>4
  <1>4. ASSUME NEW d \in Devices, StrayAnswer(d, r) PROVE AccessInv'
    <2>1. device[r] # None /\ device[r] # d BY <1>0, <1>4 DEF StrayAnswer, Maps
    <2> QED BY <1>2, <1>4, <2>1 DEF StrayAnswer, agentVars
  <1> QED BY <1>3, <1>4

\* The invariant holds at the start, when nobody has asked.
LEMMA AccessInit == Init => AccessInv
  <1> SUFFICES ASSUME Init PROVE AccessInv OBVIOUS
  <1>1. TypeOK
    <2>1. /\ <<>> \in Seq([type : {"request", "reveal"}, req : Requests, key : BrowserKeys])
          /\ <<>> \in Seq([type : Replies, req : Requests])
      OBVIOUS
    <2> QED BY <2>1, AccessAssumption DEF AccessAssumption, Init, TypeOK
  <1>2. Maps /\ Forwarding /\ OneQuestion /\ HeldIsBlind /\ ApprovedByTarget
    BY DEF Init, Maps, Forwarding, OneQuestion, HeldIsBlind, ApprovedByTarget
  <1>3. OnTheWay /\ OnTheWayBack BY DEF Init, OnTheWay, OnTheWayBack, Positions
  <1> QED BY <1>1, <1>2, <1>3 DEF AccessInv

\* Every step keeps the invariant.
LEMMA AccessStep == AccessInv /\ [Next]_vars => AccessInv'
  <1> SUFFICES ASSUME AccessInv, [Next]_vars PROVE AccessInv' OBVIOUS
  <1>0. TypeOK /\ Maps BY DEF AccessInv
  <1>1. ASSUME NEW r \in Requests, BrowserStep(r) PROVE AccessInv' BY <1>1, BrowserKeeps
  <1>2. ASSUME NEW d \in Devices, AgentStep(d) PROVE AccessInv' BY <1>2, AgentKeeps
  <1>3. ASSUME NEW r \in Requests, HumanApproves(r) \/ HumanRefuses(r) PROVE AccessInv'
    BY <1>3, AnswerKeeps
  <1>4. ASSUME NEW d \in Devices, NEW r \in Requests, StrayAnswer(d, r) PROVE AccessInv'
    BY <1>4, AnswerKeeps
  <1>5. CASE SweepRequests
    <2>1. DropRequests(Lapsed)
          /\ UNCHANGED <<now, online, toAgent, fromAgent, browserVars, agentVars>>
      BY <1>5 DEF SweepRequests
    <2>2. Maps' /\ requests' \subseteq Requests
          /\ pendingByDevice' \in [Devices -> Requests \cup {None}]
      BY <1>0, <2>1, DropKeepsMaps
    <2>3. TypeOK' BY <1>0, <2>1, <2>2 DEF TypeOK, DropRequests, browserVars, agentVars
    <2> QED BY <2>1, <2>2, <2>3, QuietKeeps DEF DropRequests, browserVars
  <1>6. CASE Tick
    <2>0. now' \in 0 .. MaxTime
      BY <1>0, <1>6, AccessAssumption DEF AccessAssumption, Tick, TypeOK
    <2>1. TypeOK'
      BY <1>0, <1>6, <2>0 DEF Tick, TypeOK, brokerVars, browserVars, agentVars
    <2> QED BY <1>0, <1>6, <2>1, QuietKeeps DEF Tick, Maps, brokerVars, browserVars
  <1>7. CASE UNCHANGED vars
    <2>1. TypeOK' BY <1>0, <1>7 DEF vars, TypeOK, brokerVars, browserVars, agentVars
    <2> QED BY <1>0, <1>7, <2>1, QuietKeeps DEF vars, Maps, brokerVars, browserVars
  <1> QED BY <1>1, <1>2, <1>3, <1>4, <1>5, <1>6, <1>7 DEF Next

-----------------------------------------------------------------------------
\* The inductive invariant holds throughout every behaviour (broker.ts,
\* tunnel-agent.ts, pairing-client.ts).
THEOREM AccessInvariant == Spec => []AccessInv
  BY AccessInit, AccessStep, PTL DEF Spec

\* The broker's maps agree and a machine has at most one request that could
\* still be answered (broker.ts:323, 556-564), for any number of machines.
THEOREM OneRequestPerMachine == Spec => []MapsAgree
  <1>1. AccessInv => MapsAgree
    BY DEF AccessInv, MapsAgree, OnePerMachine, Maps, Live
  <1> QED BY <1>1, AccessInvariant, PTL

\* A human is asked about a request at most once, and about a key that was
\* chosen before the machine's was known (broker.ts:1178-1192), for any number
\* of machines and whatever the browsers repeat.
THEOREM QuestionIsHonest == Spec => []HonestQuestion
  <1>1. AccessInv => HonestQuestion
    BY DEF AccessInv, HonestQuestion, AskedOnce, ChosenBlind, OneQuestion, HeldIsBlind
  <1> QED BY <1>1, AccessInvariant, PTL

\* A browser that was approved was approved by a human at the machine it asked
\* (broker.ts:1088-1090), whatever other machines answer.
THEOREM ApprovalIsTheTargets == Spec => []ApprovedByTarget
  <1>1. AccessInv => ApprovedByTarget BY DEF AccessInv
  <1> QED BY <1>1, AccessInvariant, PTL
=============================================================================

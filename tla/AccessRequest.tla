--------------------------- MODULE AccessRequest ----------------------------
(***************************************************************************)
(* A signed-in browser asks one of its machines to let it in.  The browser *)
(* (requestAccess of apps/web/src/lib/pairing-client.ts) commits to a key, *)
(* the broker (apps/api/src/broker.ts) forwards the commitment once, the   *)
(* agent (apps/cli/src/tunnel-agent.ts) answers with its own key, the      *)
(* browser reveals, and a human at the machine decides.                    *)
(*                                                                         *)
(* The hop between broker and agent has queues, which a lost connection    *)
(* empties; the hop between browser and broker is merged into the          *)
(* handlers.  Browsers may send more than requestAccess does, since the    *)
(* broker's guards are about those.  The lookup of the machine among the   *)
(* account's servers comes before all this and is not modelled.  Neither   *)
(* is the buffer of toBrowser(): a machine hears of a request only from    *)
(* the socket the replies go to, so a reply never has to wait for it.      *)
(***************************************************************************)
EXTENDS Naturals, Sequences

CONSTANTS
    Devices, Requests,
    BrowserKeys,   \* the ephemeral keys a browser may choose from
    None,
    Ttl,           \* REQUEST_TTL_MS
    AnswerTime,    \* how long a question stands at the machine
    MaxSends,      \* bound: messages a browser sends
    MaxTime        \* bound of the model's clock

ASSUME AccessAssumption ==
    /\ None \notin Devices \cup Requests \cup BrowserKeys
    /\ Ttl \in Nat \ {0} /\ AnswerTime \in Nat /\ AnswerTime < Ttl
    /\ MaxSends \in [Requests -> Nat] /\ MaxTime \in Nat

VARIABLES
    now,
    \* the broker
    online,        \* the device has a registered tunnel
    requests,
    device, expiresAt, forwarded,   \* of each request; device None before it
    pendingByDevice,
    toAgent, fromAgent,
    \* the browser of each request
    socket,        \* "none", "open", "closed"
    sends,
    heardKey,      \* it has the machine's key
    outcome,       \* "none", "approved", "denied"
    \* the agent
    access,        \* the commitment held between ack and reveal
    deciding,      \* the key a human is being asked about
    askedAt,
    asked,         \* history: how often a human was asked
    blind,         \* history: keys committed before the machine's key was known
    approved       \* history: <<device, request>> a human approved

brokerVars  == <<requests, device, expiresAt, forwarded, pendingByDevice>>
browserVars == <<socket, sends, heardKey, outcome, blind>>
agentVars   == <<access, deciding, askedAt, asked, approved>>
vars == <<now, online, toAgent, fromAgent, brokerVars, browserVars, agentVars>>

Ask(r, k)    == [type |-> "request", req |-> r, key |-> k]
Reveal(r, k) == [type |-> "reveal", req |-> r, key |-> k]
Reply(t, r)  == [type |-> t, req |-> r]
Replies == {"ack", "approved", "denied"}

TypeOK ==
    /\ now \in 0 .. MaxTime
    /\ online \subseteq Devices
    /\ requests \subseteq Requests /\ forwarded \subseteq Requests
    /\ device \in [Requests -> Devices \cup {None}]
    /\ expiresAt \in [Requests -> Nat]
    /\ pendingByDevice \in [Devices -> Requests \cup {None}]
    /\ toAgent \in [Devices -> Seq([type : {"request", "reveal"},
                                    req : Requests, key : BrowserKeys])]
    /\ fromAgent \in [Devices -> Seq([type : Replies, req : Requests])]
    /\ socket \in [Requests -> {"none", "open", "closed"}]
    /\ sends \in [Requests -> Nat]
    /\ heardKey \subseteq Requests
    /\ outcome \in [Requests -> {"none", "approved", "denied"}]
    /\ access \in [Requests -> BrowserKeys \cup {None}]
    /\ deciding \in [Requests -> BrowserKeys \cup {None}]
    /\ askedAt \in [Requests -> Nat] /\ asked \in [Requests -> Nat]
    /\ blind \in [Requests -> SUBSET BrowserKeys]
    /\ approved \subseteq Devices \X Requests

Init ==
    /\ now = 0 /\ online = {}
    /\ requests = {} /\ forwarded = {}
    /\ device = [r \in Requests |-> None]
    /\ expiresAt = [r \in Requests |-> 0]
    /\ pendingByDevice = [d \in Devices |-> None]
    /\ toAgent = [d \in Devices |-> <<>>] /\ fromAgent = [d \in Devices |-> <<>>]
    /\ socket = [r \in Requests |-> "none"]
    /\ sends = [r \in Requests |-> 0]
    /\ heardKey = {} /\ outcome = [r \in Requests |-> "none"]
    /\ access = [r \in Requests |-> None]
    /\ deciding = [r \in Requests |-> None]
    /\ askedAt = [r \in Requests |-> 0] /\ asked = [r \in Requests |-> 0]
    /\ blind = [r \in Requests |-> {}]
    /\ approved = {}

-----------------------------------------------------------------------------
(***************************************************************************)
(* The broker's table of requests.                                         *)
(***************************************************************************)
Live(r) == r \in requests /\ expiresAt[r] > now

\* dropRequest() of the requests in R.
FreesNothing(R) == pendingByDevice                      \* mutant of Freed
Freed(R) == [d \in Devices |-> IF pendingByDevice[d] \in R THEN None
                                                           ELSE pendingByDevice[d]]

DropRequests(R) ==
    /\ requests' = requests \ R
    /\ pendingByDevice' = Freed(R \cap requests)
    /\ UNCHANGED <<device, expiresAt, forwarded>>

\* The request that stands in the way of a new one for the device.
StandsAnyway(d) == FALSE                                \* mutant of Stands
Stands(d) == pendingByDevice[d] # None /\ Live(pendingByDevice[d])

\* POST /v1/pair/request.  An expired request nobody swept is dropped first.
PairRequest(r, d) ==
    /\ device[r] = None
    /\ d \in online
    /\ ~Stands(d)
    /\ requests' = (requests \ {q \in {pendingByDevice[d]} : ~Live(q)}) \cup {r}
    /\ device' = [device EXCEPT ![r] = d]
    /\ expiresAt' = [expiresAt EXCEPT ![r] = now + Ttl]
    /\ pendingByDevice' = [pendingByDevice EXCEPT ![d] = r]
    /\ UNCHANGED <<now, online, toAgent, fromAgent, forwarded, browserVars, agentVars>>

\* What a reply does when it reaches the browser (socket.onmessage).
Hears(r, reply) ==
    /\ heardKey' = IF reply = "ack" THEN heardKey \cup {r} ELSE heardKey
    /\ outcome' = IF outcome[r] # "none" \/ reply = "ack"
                     \/ (reply = "approved" /\ r \notin heardKey)
                  THEN outcome
                  ELSE [outcome EXCEPT ![r] = reply]

\* WS /v1/request/:requestId
AttachRequestSocket(r) ==
    /\ socket[r] = "none" /\ device[r] # None
    /\ \/ /\ Live(r)
          /\ socket' = [socket EXCEPT ![r] = "open"]
          /\ UNCHANGED <<heardKey, outcome, brokerVars>>
       \/ /\ ~Live(r)
          /\ socket' = [socket EXCEPT ![r] = "closed"]
          /\ Hears(r, "denied")
          /\ DropRequests({r})
    /\ UNCHANGED <<now, online, toAgent, fromAgent, sends, blind, agentVars>>

-----------------------------------------------------------------------------
(***************************************************************************)
(* A message from the browser: pair:commit, or pair:reveal.                *)
(***************************************************************************)
Speaks(r) ==
    /\ socket[r] = "open" /\ sends[r] < MaxSends[r]
    /\ sends' = [sends EXCEPT ![r] = @ + 1]

\* Too late, or the machine has gone: the broker answers itself.
BrowserTooLate(r) ==
    /\ Speaks(r)
    /\ ~Live(r) \/ device[r] \notin online
    /\ Hears(r, "denied")
    /\ DropRequests({r})
    /\ socket' = [socket EXCEPT ![r] = IF Live(r) THEN @ ELSE "closed"]
    /\ UNCHANGED <<now, online, toAgent, fromAgent, blind, agentVars>>

\* "Exactly once."
ForwardsAgain(r) == TRUE                                \* mutant of Forwards
Forwards(r) == r \notin forwarded

BrowserCommits(r, k) ==
    /\ Speaks(r)
    /\ Live(r) /\ device[r] \in online
    /\ blind' = IF r \in heardKey THEN blind ELSE [blind EXCEPT ![r] = @ \cup {k}]
    /\ IF Forwards(r)
       THEN /\ forwarded' = forwarded \cup {r}
            /\ toAgent' = [toAgent EXCEPT ![device[r]] = Append(@, Ask(r, k))]
       ELSE UNCHANGED <<forwarded, toAgent>>
    /\ UNCHANGED <<now, online, fromAgent, requests, device, expiresAt,
                   pendingByDevice, socket, heardKey, outcome, agentVars>>

BrowserReveals(r, k) ==
    /\ Speaks(r)
    /\ Live(r) /\ device[r] \in online
    /\ toAgent' = IF r \in forwarded
                  THEN [toAgent EXCEPT ![device[r]] = Append(@, Reveal(r, k))]
                  ELSE toAgent
    /\ UNCHANGED <<now, online, fromAgent, brokerVars, socket, heardKey, outcome,
                   blind, agentVars>>

\* The browser walked away, was settled, or lost its connection.
BrowserCloses(r) ==
    /\ socket[r] = "open"
    /\ socket' = [socket EXCEPT ![r] = "closed"]
    /\ DropRequests({r})
    /\ UNCHANGED <<now, online, toAgent, fromAgent, sends, heardKey, outcome, blind,
                   agentVars>>

-----------------------------------------------------------------------------
(***************************************************************************)
(* The agent.                                                              *)
(***************************************************************************)
\* send(): nothing without a connection.
Sends(d, m) == IF d \in online THEN [fromAgent EXCEPT ![d] = Append(@, m)]
                               ELSE fromAgent

AgentHearsRequest(d) ==
    LET m == Head(toAgent[d]) IN
    /\ toAgent[d] # <<>> /\ m.type = "request"
    /\ toAgent' = [toAgent EXCEPT ![d] = Tail(@)]
    /\ access' = [access EXCEPT ![m.req] = m.key]
    /\ fromAgent' = Sends(d, Reply("ack", m.req))
    /\ UNCHANGED <<now, online, brokerVars, browserVars, deciding, askedAt, asked, approved>>

\* One shot per request: the commitment goes whatever the reveal is.
OneShot(r) == [access EXCEPT ![r] = None]

AgentHearsReveal(d) ==
    LET m == Head(toAgent[d]) IN
    /\ toAgent[d] # <<>> /\ m.type = "reveal"
    /\ toAgent' = [toAgent EXCEPT ![d] = Tail(@)]
    /\ \/ /\ access[m.req] = None
          /\ UNCHANGED <<fromAgent, agentVars>>
       \/ /\ access[m.req] # None
          /\ access' = OneShot(m.req)
          /\ \/ /\ access[m.req] # m.key
                /\ fromAgent' = Sends(d, Reply("denied", m.req))
                /\ UNCHANGED <<deciding, askedAt, asked>>
             \/ /\ access[m.req] = m.key
                /\ deciding' = [deciding EXCEPT ![m.req] = m.key]
                /\ askedAt' = [askedAt EXCEPT ![m.req] = now]
                /\ asked' = [asked EXCEPT ![m.req] = @ + 1]
                /\ UNCHANGED fromAgent
          /\ UNCHANGED approved
    /\ UNCHANGED <<now, online, brokerVars, browserVars>>

\* The machine's answer, within the time the question stands; keys are
\* admitted before it is sent.  A refusal may also be a timeout or "no-tty".
HumanApproves(r) ==
    LET d == device[r] IN
    /\ deciding[r] # None /\ now < askedAt[r] + AnswerTime
    /\ deciding' = [deciding EXCEPT ![r] = None]
    /\ approved' = approved \cup {<<d, r>>}
    /\ fromAgent' = Sends(d, Reply("approved", r))
    /\ UNCHANGED <<now, online, toAgent, brokerVars, browserVars, access, askedAt, asked>>

HumanRefuses(r) ==
    LET d == device[r] IN
    /\ deciding[r] # None
    /\ deciding' = [deciding EXCEPT ![r] = None]
    /\ fromAgent' = Sends(d, Reply("denied", r))
    /\ UNCHANGED <<now, online, toAgent, brokerVars, browserVars, access, askedAt,
                   asked, approved>>

\* A registered machine answers a request that was not sent to it.
StrayAnswer(d, r) ==
    /\ d \in online /\ r \in requests /\ device[r] # d
    /\ fromAgent[d] = <<>>
    /\ fromAgent' = Sends(d, Reply("approved", r))
    /\ UNCHANGED <<now, online, toAgent, brokerVars, browserVars, agentVars>>

\* Only the machine the request was sent to may answer it.
AnyoneMay(d, r) == Live(r)                              \* mutant of MayAnswer
MayAnswer(d, r) == Live(r) /\ device[r] = d

\* The broker's handler of the three replies; an approval or a
\* refusal ends the request.
BrokerHearsReply(d) ==
    LET m == Head(fromAgent[d])
        r == m.req
    IN
    /\ fromAgent[d] # <<>>
    /\ fromAgent' = [fromAgent EXCEPT ![d] = Tail(@)]
    /\ \/ /\ ~MayAnswer(d, r)
          /\ IF Live(r) THEN UNCHANGED brokerVars ELSE DropRequests({r})
          /\ UNCHANGED <<heardKey, outcome>>
       \/ /\ MayAnswer(d, r)
          /\ Hears(r, m.type)
          /\ IF m.type = "ack" THEN UNCHANGED brokerVars ELSE DropRequests({r})
    /\ UNCHANGED <<now, online, toAgent, socket, sends, blind, agentVars>>

-----------------------------------------------------------------------------
\* The agent's connection, as the broker sees it (module Tunnel).
AgentOnline(d) ==
    /\ d \notin online
    /\ online' = online \cup {d}
    /\ UNCHANGED <<now, toAgent, fromAgent, brokerVars, browserVars, agentVars>>

AgentOffline(d) ==
    /\ d \in online
    /\ online' = online \ {d}
    /\ toAgent' = [toAgent EXCEPT ![d] = <<>>]
    /\ fromAgent' = [fromAgent EXCEPT ![d] = <<>>]
    /\ UNCHANGED <<now, brokerVars, browserVars, agentVars>>

Lapsed == {r \in requests : ~Live(r)}

SweepRequests ==
    /\ DropRequests(Lapsed)
    /\ UNCHANGED <<now, online, toAgent, fromAgent, browserVars, agentVars>>

Tick ==
    /\ now < MaxTime
    /\ now' = now + 1
    /\ UNCHANGED <<online, toAgent, fromAgent, brokerVars, browserVars, agentVars>>

BrowserStep(r) ==
    \/ \E d \in Devices : PairRequest(r, d)
    \/ AttachRequestSocket(r)
    \/ BrowserTooLate(r)
    \/ \E k \in BrowserKeys : BrowserCommits(r, k) \/ BrowserReveals(r, k)
    \/ BrowserCloses(r)

AgentStep(d) ==
    \/ AgentHearsRequest(d)
    \/ AgentHearsReveal(d)
    \/ BrokerHearsReply(d)
    \/ AgentOnline(d) \/ AgentOffline(d)

Next ==
    \/ \E r \in Requests : BrowserStep(r)
    \/ \E d \in Devices : AgentStep(d)
    \/ \E r \in Requests : HumanApproves(r) \/ HumanRefuses(r)
    \/ \E d \in Devices, r \in Requests : StrayAnswer(d, r)
    \/ SweepRequests
    \/ Tick

Spec == Init /\ [][Next]_vars

-----------------------------------------------------------------------------
(***************************************************************************)
(* Properties.                                                             *)
(***************************************************************************)

\* "One undecided request per machine, so approval cannot be spammed"
\* (broker.ts:323, 556-564): the two maps agree, and a machine never has two
\* requests that could still be answered.
OnePerMachine ==
    /\ \A r, q \in Requests : Live(r) /\ Live(q) /\ device[r] = device[q] => r = q
    /\ \A d \in Devices : pendingByDevice[d] # None =>
          pendingByDevice[d] \in requests /\ device[pendingByDevice[d]] = d

\* The broker's two maps stay well formed and agree on the one request of each
\* machine (broker.ts:323, 556-564), on all five paths that drop a request.
MapsAgree == TypeOK /\ OnePerMachine

\* The human is asked about a request at most once, whatever is sent again
\* (broker.ts:1178-1192, tunnel-agent.ts:610-617).
AskedOnce == \A r \in Requests : asked[r] <= 1

\* "Committed before it saw the machine's key" (broker.ts:1179-1180,
\* tunnel-agent.ts:591-594): the key a human compares digits for is one the
\* browser had chosen before it could know the machine's.
ChosenBlind == \A r \in Requests : deciding[r] # None => deciding[r] \in blind[r]

\* The question a human answers is asked once and is about a key chosen blind,
\* whatever is repeated, reordered or changed on the way (broker.ts:1178-1192).
HonestQuestion == AskedOnce /\ ChosenBlind

\* Only the machine that was asked lets a browser in (broker.ts:1088-1090): a
\* browser that was approved was approved by a human there.
ApprovedByTarget ==
    \A r \in Requests : outcome[r] = "approved" => <<device[r], r>> \in approved
=============================================================================

# A TLA+ development for mtmux

mtmux lets a browser drive tmux on another machine.  A broker (`apps/api`)
introduces the two ends and carries their traffic, a CLI (`apps/cli`) runs on
the machine, a relay (`apps/relay`) speaks to tmux, and a web client
(`apps/web`) is the other end.  All four are JavaScript event loops.  A handler
runs to completion between two awaits, and its promise callbacks run before the
next event is taken up; what interleaves is the order in which sockets, timers,
awaits, humans and processes get their turn.  The modules explore that order.

## 1. Inventory

For each part: the state it keeps, what changes it, who it talks to, what is
hard about it and what makes it correct.

**Broker, pairing** (`mailbox.ts`, `rate-limit.ts`, `broker.ts`).  Mailboxes (a
code someone waits on), claims (someone quoted a slot), the claims' payloads,
two sliding windows of guesses.  `POST /v1/pair/new` and `/claim`, the holder's
and the claimant's sockets, a sweeper.  The CLI holds, a browser claims.  Hard:
two claims racing for one code, handlers that keep objects the store forgot,
deadlines inside an exchange, one side vanishing, the edge of a window.
Correct: a code is tried once; the budgets hold in every window; the holder
hears of its claimant, of its end, and of the share; memory comes back.  (A
claimant whose holder drops is not told: section 5.)

**Broker, tunnels** (`tunnel.ts`, `broker.ts`).  One tunnel per device with its
streams, quotas and metering.  Agent and browser sockets, the sweeper, and two
database reads in flight.  Hard: a reconnecting machine whose old socket has not
closed yet, browsers attached to a replaced tunnel, answers that arrive late.
Correct: no stream slot leaks, nobody is carried by a dead tunnel unawares,
quotas and caps hold, both ends list the same streams.

**Broker, access requests** (`broker.ts`, `tunnel-agent.ts`, web
`pairing-client.ts`).  One undecided request per machine with a deadline; a
commitment, the machine's key, a reveal, a human's answer.  Hard: repeated,
reordered and late messages, machines coming and going.  Correct: the human is
asked once, about a key chosen blind, and only the asked machine lets in.

**Sealed stream** (`transport.ts`, `frames.ts`, `tunnel-agent.ts`).  Counters
of sealer and opener, four buffers, the keyring, a gate.  Hard: awaits between
choosing a key and using it, sealing that may overlap, a broker that is not
trusted.  Correct: in order, nothing twice, nothing before the gate, nothing
after a device is forgotten.

**Approvals** (`access-prompt.ts`, `approve-control.ts`, `commands/approve.ts`,
`device-approval.ts`, `device-panel-control.ts`).  A pending question in the
app, one in the approval window, the window and its poll, the question on the
terminal.  Hard: two channels race, several questions at once, the terminal
changes hands, polls and timers cross.  Correct: let in only by a yes to that
very question; the loser lets go; a question is never lost but in the one way of
section 5.

**Connection gate** (`commands/start.ts`, `connection-gate.ts`,
`wire-connections.ts`, `connection-manager.ts`, `server.ts`).  Decisions per
device with grace periods, sockets and requests waiting for one, a count per
address, tokens that lapse and are revoked.  Hard: a device forgotten while the
question about it stands, or halfway through its pairing; a socket that closes,
or is swept for, meanwhile; a revocation from a shell whose POST fails; grace
periods that presence renews; an answer that never comes.  Correct: a human is
asked when the door needs it and not otherwise, who waits at the door waits for
a question that stands, a revocation disconnects what is in, places are given
back.

**Agent link** (`tunnel-agent.ts`).  Backoff, keepalive, half-open detection.
Correct: one live socket, an eventual reconnect, no timer of a dead one acts.

**Code exchange** (`pairing-client.ts`, `pairing-exchange.ts` of the CLI, web
`pairing-client.ts`, `cpace.ts`).  Both ends of CPace with confirmation tags.
Correct: both derive the same keys or neither keeps any; a re-armed round ignores
the old one.

**Local pairing** (`pairing-local.ts`, `server.ts`, `auth-throttle.ts`).  One
offer with its attempts and its life, a back-off per address.  Hard: requests
that overlap at every await, the offer burned, lapsed and re-armed under them,
an outcome before anybody listens for it.  Correct: one request before the human
at a time, the shown code works, guesses between two lock-outs are bounded by
what is free and what was under way.

**Grants and authentication** (`grant.ts`, `policy.ts`, `auth.ts`,
`auth-throttle.ts`, `rate-limiter.ts`, `share-grants.ts`).  Scopes, expiry,
revocation, back-off.  Correct: a live connection never exceeds or outlives its
grant.

**Connections** (`connection-manager.ts`, `message-router.ts`, `pty-bridge.ts`,
`tmux-clone.ts`, `ws-server.ts`; the browser's `attach-state.ts` and
`terminal-view.tsx`).  A queue per connection, the attached session, PTYs,
clones, and the browser's own idea of what it is attached to.  Hard: an attach
is a row of awaits during which the socket goes, another attach is queued, and
late exits and late replays of the screen arrive.  Correct: each resource is released once on every way out,
and the terminal paints the session it believes in.

**Recorder** (`recorder.ts`, `recordings-index.ts`, `packages/cast`).  One
recording per session, a clone, a FIFO, a pipe, a cast, a row of the index on
disk.  Hard: starts and stops of many steps that overlap and fail half-way, a
crash at any await, a limit crossed during a stop.  Correct: rows, files, clones
and running captures agree after a failure and after a crash.

**Web client** (`ws-client.ts`, `use-websocket.ts`, `relay-registry.ts`,
`resolve-route.ts`, `candidate-race.ts`, `connection-banner.tsx`).  The client's
socket, its timers, its queue, the route it is pinned to, frames that are still
being decrypted.  Hard: timers, page events, buttons and a route that is still
being decided all call `connect`, and a sealed transport may call back after it
was closed.
Correct: one socket, never stranded, back in the end, and away when told so.

**Lock and stored sessions** (`lock-store.ts`, `session-store.ts`).
Re-encryption of stored keys.  Correct: no key lost half-way.

**Accounts and billing** (`accounts/`, `entitlements.ts`, `billing/`).  Servers
and subscriptions fed by webhooks.  Correct: webhooks delivered twice or out of
order leave the newest state.

Also: the HTTP server, configuration and peer files, files and access log, the
remaining commands, protocol schemas, primitives, user interface, sites
(`PROJECT.json` says of each why it is left out).

How they meet: browser and CLI talk to the broker over HTTP and WebSockets; the
broker passes frames between them; the agent opens loopback sockets to the
relay; relay and CLI share one process and call each other (`askInApp`, the
gate); `mtmux approve` polls the CLI over loopback.

## 2. Plan

Done: 1 `Pairing` with `OneShotCodes` and `PairingProofs`, 2 `Tunnel`,
3 `SealedStream`, 4 `AccessRequest`, 5 `Approvals`, 6 `RelayDoor` (gate, grace,
revocation, the count per address; it asks through what `Approvals` models),
7 `LocalPairing`, 8 `TerminalAttach`, 9 `WebConnect`, 10 `Recorder`.

Proved: every safety invariant that the passing runs of these modules check, except for
one part of one (the budget of the recordings); the action properties of
`RelayDoor` and `WebConnect`; and that `Pairing` implements `OneShotCodes`
(section 6).

Next, in the proofs: that `SealedStream` implements a lossless two-way pipe and
`Approvals` a first-answer register, both stated as abstract modules first;
what a step may never do as action properties (a code that is spent stays
spent, a verdict never changes, a tunnel that left the registry never returns);
then shorter proofs where two components argue alike.

Modules that could follow: `AgentLink` (the agent's reconnect), `PairingExchange`
(the two ends over `Pairing`'s mailbox), `Grants`, `LockStore`, `Billing`,
`CodeLoop`.

Abstract specifications: `OneShotCodes` (stated, checked and proved to be
implemented); a lossless
two-way pipe that `SealedStream` implements while its broker is faithful; a
first-answer register that `Approvals` implements.

## 3. Modules and the code

| module | code | state and actions |
| --- | --- | --- |
| `Pairing` | `mailbox.ts`, `rate-limit.ts`, pairing part of `broker.ts` | store, claims, payloads, sockets, limiter hits; one action per HTTP handler, socket event and sweep |
| `OneShotCodes` | what the above promises | codes are unborn, live, spent, retired |
| `Tunnel` | `tunnel.ts`, agent and stream sockets of `broker.ts` | the registry by device, tunnel objects by agent socket, streams by browser; metering is an action for each await |
| `SealedStream` | `transport.ts`, `frames.ts`, stream half of `tunnel-agent.ts` | both counters, every buffer, messages in flight, keyring, gate; a step per await |
| `AccessRequest` | `pair:request` in `broker.ts`, `tunnel-agent.ts`, `pairing-client.ts` | the two maps, queues between broker and agents, what the human is asked |
| `Approvals` | see section 1 | the chain of each question, both slots, dialogs and messages to them, window, poll, terminal |
| `RelayDoor` | the gate in `commands/start.ts`, `wire-connections.ts`, `connection-manager.ts`, `auth.ts`, `devices.ts`, `devices-control.ts`, revocation in `pairing-local.ts` | a decision and a cover per device, the stage of every socket, request and sealed stream at the gate, tokens and records, places per address; a pairing is three steps and a revocation from a shell two, with a POST that may fail; one action per arrival, answer, close, sweep, sample and panel key |
| `LocalPairing` | `pairing-local.ts`, `auth-throttle.ts`, its routes in `server.ts`, the re-arming in `start.ts` | the offer, what is on the screen, whether `start` listens yet for a spent code, failures and lock-out per address; a request is a step per await, and an answer may never come |
| `TerminalAttach` | `message-router.ts`, `connection-manager.ts`, `pty-bridge.ts`, `tmux-clone.ts`, `attach-state.ts`, `terminal-view.tsx` | the connection's queue and its handler's place, clone, ptys, messages both ways, the browser's phase and what it has painted; a pty that is ready sends an acknowledgement and a replay; a step per await, tmux's answers are choices |
| `WebConnect` | `ws-client.ts`, `use-websocket.ts`, `relay-registry.ts`, `resolve-route.ts`, `candidate-race.ts`, `connection-banner.tsx` | a record per client with the timers it has lost track of, its sockets, the frame each is decrypting, the route being decided, the network; one action per timer, event, callback and button |
| `Recorder` | `recorder.ts`, `recordings-index.ts`, `writer.ts`, recording messages of `message-router.ts` | what each recording holds, where its start (clone, lock-down, pty; FIFO, pipe) and stop stand, the index on disk and the updates of it under way, crash and boot |
| `PairingProofs` | | theorems about `Pairing` and, as the instance `L`, about `LocalPairing` |
| `DoorProofs` | | theorems about `RelayDoor` and, as the instance `Rec`, about `Recorder` |
| `TunnelProofs`, `AccessProofs`, `SealedProofs`, `ApprovalsProofs`, `AttachProofs`, `WebProofs` | | theorems about `Tunnel`, `AccessRequest`, `SealedStream`, `Approvals`, `TerminalAttach` and `WebConnect` |
| `MC*` | | symmetry sets and constant functions for TLC |

Abstractions that matter:

- An id the code draws at random (mailbox, claim, request, offer) is a member of
  a set and stands for one object for ever, also after a map forgot it.
- `Pairing`, `Tunnel` and `AccessRequest` have a clock that any step may see
  advance; deadlines are compared as the code compares them.  `Approvals` has
  none: an armed timer may fire at any moment, which allows more than the code.
- Cryptography is perfect: a frame opens under its own key and counter only.
- Every frame counts one unit against the byte quota.
- A line typed while two readline prompts stand on one terminal answers both,
  as Node delivers it to every interface on the stream.
- `RelayDoor`, `LocalPairing` and `WebConnect` keep the time that is left of a
  cover, an offer, a lock-out or a silence, in units; a unit of `RelayDoor` is
  one presence sample.  The length of a back-off is left out: its timer fires
  at some moment.
- `Recorder`: updates of the index read, write a temporary file and rename it.
  Two that overlap share the temporary name, so what is on disk afterwards is
  a choice between the outcomes this can have.  The ways a recording ends that
  no property tells apart are one reason.
- `RelayDoor`: a session token without a device has a key of its own
  (`token:<id>`), about which nothing is remembered; the machine's own token
  stands for it, when it is not near.
- `TerminalAttach`: what `session:exited` and `session:killed` do to the view is
  what choosing no session does.  Both grants of a connection, full and
  read-only, are runs; other scopes and the rate limiter refuse an attach as a
  read-only grant may.
- `Approvals`: a phone that closes is one step.  The panel removes a connection
  before it reports that the approvers changed, with nothing in between that
  reads either.
- A history variable (named as such) records what a property needs and steers
  nothing.

## 4. Runs

| run | instance | checks |
| --- | --- | --- |
| `pairing_race` | 1 mailbox, 2 claims, limits of 1, clock to 3, fair | `TypeOK`, `OneGuessPerCode`, `GuessBudget`, `HolderHears` (`SymmetricRouting`, `NoSilentBurn`, `HolderHearsShare`), refinement `ImplementsOneShotCodes`, liveness `Reclaimed` |
| `tunnel_sockets` | 2 sockets of one device, 2 browsers, caps of 1 | `StreamsAccounted` (`NoLeakedStream`, `StreamCap`, `AgentViewAgrees`), `BrowserCarriedOrTold`, `PlanIsKept` (`BlockedIsGone`, `BilledOnce`, `QuotaHolds`) |
| `tunnel_live` | the same with 1 browser, fair | liveness `LifetimeEnds` |
| `sealed_stream` | 2 keys, 2 lines each way, one fault, fair | `InOrderNoGaps` (`InOrder`, `NothingSkipped`), `HealthySurvives`, `GatedByAdmission`, `ForgottenStaysOut`, liveness `LinesArrive` |
| `access_ask` | 2 machines, 2 requests, one browser with three messages, deadline inside the clock | `MapsAgree` (`OnePerMachine`), `HonestQuestion` (`AskedOnce`, `ChosenBlind`), `ApprovedByTarget` |
| `approvals_race` | 2 questions, 2 browsers, 2 windows, symmetric | `ConsentNeeded`, `LosersStop`, `HeldSomewhere`, `ChannelsAgree` (`DialogsAgree`, `SomeoneIsAsked`, `PollIsServed`) |
| `relay_door` | 1 device and the machine's token, 2 connections, 1 address, caps of 2, graces of 1, 2 hang-ups, symmetric | `SeatsAccounted` (`PlacesReturn`), `RevokedHangsUp`, `WaitersHear`, action property `AsksWhenItMust` (`EntryIsCovered`, `NotAskedAgain`) |
| `local_pairing` | 2 requests, 2 addresses, 3 attempts, 2 free failures, lock-outs to 3, life of 2 | `OneUseCode` (`OneAtTheDoor`, `ShownWorks`), `GuessesAreBounded` |
| `terminal_attach` | 2 session names, 3 attaches, 2 with a read-only grant, high water 0, symmetric | `ConnectionOwnsAll` (`NoStrayPty`, `NoStrayClone`, `BufferBounded`), `PaintsItsOwn`, `NoWedge`, `AttachedIsReal` |
| `web_connect` | 1 client, 2 sockets, stale after 3, queue of 2, 3 moves, 1 slow frame, fair | `OneSocketOneTimer` (`OneSocket`, `TimerMeansDown`), `NothingStranded` (`NeverStranded`, `DropsAreReported`), action property `OnlyAPersonBringsItBack`, liveness `ComesBack` |
| `web_online` | queue of 1, 1 move, fair | violates `OnlineReconnects` |
| `recorder_crash` | 2 recordings, a session and a pane, budget 1, 2 boots, 1 deletion or mishap, symmetric | `IndexTellsTruth` (`LimitKept`, `ListedIsThere`), `NothingLeftBehind`, `SweptClean` (`LiveMeansLive`, `NoOrphans`, `WithinBudget`) |

The names in brackets are the conjuncts of a property, each a definition of its
own.  `StreamsAccounted`, `InOrderNoGaps`, `MapsAgree`, `ChannelsAgree`,
`SeatsAccounted`, `OneUseCode`, `ConnectionOwnsAll`, `OneSocketOneTimer` and
`IndexTellsTruth` also have their module's `TypeOK` as a conjunct.

Eleven more configurations (section 5) have TLC refute what a document or a comment
says and the code does not do.  They are no part of the list of runs; each is run
with `tlc -config X.cfg MC...`.

Why the bounds are enough.  Every hazard here is a race of two parties over one
object, so two of each party and a cap of one is the smallest instance in which
it happens: a second claim finds the code burned, a second browser finds the
tunnel full, a second question finds the slot taken, a second socket finds the
question standing.  Clocks run at least to the longest deadline, which the
code counts as passed when it is reached, so each is met before and after; covers, lives and lock-outs run out
within a run.  `MaxTime`, `MaxLines`, `MaxSends`, `MaxFaults`, `MaxMoves`,
`MaxTurns`, `MaxBoots`, `MaxAttaches`, `MaxShared`, `MaxHangups` and `MaxSlow`
bound the model and nothing in the code.  Two lines
are the fewest that can be reordered, one fault the fewest that can make them
so.  `pairing_race` has one mailbox: two of both takes longer than a run should.
`approvals_race` needs its second browser for the replay to a newcomer.
`relay_door` needs the machine's token for a connection that no gate holds.
Three attaches are the fewest in which a late exit of the first meets the second
of the same name and a third is queued; with a read-only grant two are enough
for a clone to be made while the last is destroyed, and a third would make the
run too long.  The panel hangs one connection up twice, which is how often it
takes to give its place back once too often.  One frame that is slow to open
(`MaxSlow`) is enough to be overtaken by a close and to call back.  Three moves take a phone off the
network, home and away again.  One boot after a crash is where both sweeps run;
the index is let overlap once (`MayOverlap`).  `SealedStream` may stop (the
stream ends) and so may `Recorder` (nothing left to record), so their runs do
not look for deadlock; all others do.

Each property of a passing run has a mutant in `PROJECT.json`: a definition and
a plausible wrong version of it (marked `mutant of` in the modules) under which
TLC finds that property violated.

### Fairness

- `Pairing`, `Tunnel`: the sweeper (`setInterval`) and the clock.  Nothing is
  assumed of clients or sockets.
- `SealedStream`: promises settle, messages in flight are delivered by a faithful
  broker, the loopback socket opens or fails.  Nobody has to write.  The gate's
  answer is not fair: `admitStream` has no timeout, and a question the panel has
  replaced is never answered (section 5).  `LinesArrive` therefore says that a
  line arrives unless the gate never answers.
- `RelayDoor`, `LocalPairing`, `TerminalAttach`: none.  An answer may never come,
  for the same reason.  What `RelayDoor` promises those who wait is a safety
  property: the question they wait for stands (`WaitersHear`), so that an answer,
  if there is one, reaches them all.
- `WebConnect`: armed timers fire, a link that is dead or an address that cannot
  be reached is given up, a route that was asked for is decided (weak fairness);
  a machine that is dialled again and again on a working network answers once
  (strong fairness).  Nobody has to press a button.
- `Approvals` has a fair specification with its four timers (app, window slot,
  readline, panel tick), under which `SilenceDenies` is refuted; its run needs none.
- `Recorder`: none.

## 5. Findings

1. `web_online`, `use-websocket.ts:508`: going offline calls `disconnect()`,
   which tells the client to stay away; the `reconnectNow()` of the online event
   then returns without dialling, so the client that went offline by the event
   comes back only by a button.

What else the documents or comments say and TLC refutes.  Each is a definition
of its module and has a configuration of its own:

| configuration | property | what is said, and what happens |
| --- | --- | --- |
| `RevokeDocs` | `RevokeSparesLive` (`RelayDoor`) | `pairing.mdx:406-411` and `cli.mdx:374-377`: after `mtmux devices revoke` "a browser with an already-open socket keeps it until the server restarts".  The command posts to the running server (`devices.ts:204-206`), which closes every socket of the token (`devices-control.ts:112`); only a failed POST leaves it |
| `RevokeWaiting` | `RevokedIsOut` (`RelayDoor`) | `pairing-local.ts:174`: "Revocation that does not disconnect is not revocation."  A socket that waits at the gate is not seen by the sweep (`wire-connections.ts:225`) and is let in by the answer |
| `DoorCap` | `PerIpCap` (`RelayDoor`) | `wire-connections.ts:117-118` enforces a cap per address.  A hang-up and the close event both give the place back (`connection-manager.ts:216`), which lets one connection too many in |
| `LocalOverlap` | `FreeGuessesOnly` (`LocalPairing`) | `server.ts:102-103` "roughly five attempts per quarter hour", `auth-throttle.ts:11-12`.  The back-off is tested before the body is awaited and charged after it, so every request an address has open when its lock-out begins is one more guess; `GuessesAreBounded` counts them (`abreast`) and no constant of the code does |
| `LocalBoot` | `NeverDeadOnScreen` (`LocalPairing`) | `start.ts:2890-2893`: a printed code that has stopped working is "the one failure mode a printed secret must never have".  The code is printed at 2592 and what re-arms it is registered at 2896, after three awaits |
| `ApprovalsSilence` | `SilenceDenies` (`Approvals`) | `approvals.mdx:107-108` "On every channel, in every combination, an unanswered request is denied when it expires", `start.ts:563-564`.  The panel keeps one resolver (`device-panel-control.ts:583`): a second question overwrites the first, which no key, countdown or abort then answers; with no browser connected it never ends.  `HeldSomewhere` shows that this is the only way a question is lost |
| `SealedRevoked` | `RevokedIsGone` (`SealedStream`) | `tunnel-agent.ts:250` "Forget a device's keys, and drop whatever it has open."  A device forgotten while its first frame is being tried (469) gets its stream bound and keeps it |
| `PairingDrop` | `ClaimantHears` (`Pairing`) | `pairing.mdx:333-336`: `pair:failed` goes to either side.  A holder whose socket drops leaves its claimant untold (`broker.ts:775-783`) |
| `AttachReplay` | `PaintsOnlyItsOwn` (`TerminalAttach`) | `attach-state.ts:88` "Server output may only be written once the ack for this attach has landed."  A pty that becomes ready after another took its place sends its captured screen all the same (`message-router.ts:430-439`), and the view, attached by then, writes it |
| `WebLate`, `WebTimers` | `ReconnectingIsDown`, `NoSecondConnect` (`WebConnect`) | `transport.ts:34` "A closed transport must never call back", `ws-client.ts:151-153`.  A frame that fails to open after the close calls back (`transport.ts:248-254`) and knocks a connected client down; a second callback overwrites the first timer (`ws-client.ts:329`), which then dials whatever the client was told |

And as definitions only, which TLC refutes when they are put in the place of
the invariants of their module's run:

- `NewerTunnelSurvives` (`Tunnel`, `broker.ts:1108`): the late close of a
  half-open agent socket closes the tunnel the reconnected machine has just
  registered.
- `OfferedToSomebody` (`Approvals`, `commands/approve.ts:165`): `mtmux approve`
  returns after one answer but its window stays open, so for the rest of its
  minutes the next question is offered to nobody.
- `HiddenIsDead` (`LocalPairing`, `pairing-local.ts:615`): a question that is
  answered after the tunnel came up re-arms the local offer that was taken down.
- `HangUpLeavesNoClone` and `ActsOnItsOwn` (`TerminalAttach`): a hang-up from
  the panel may leave a clone that is being made, and after a rename handlers
  act on a name that is no longer their session's.

What the passing properties leave aside for these: `RevokedHangsUp` the sockets
that wait (`caught`); `ForgottenStaysOut` the trial under way (`racing`);
`HeldSomewhere` the replaced question; `PaintsItsOwn` the replays that were
overtaken; `TimerMeansDown` and `OnlyAPersonBringsItBack` a client that a closed
transport has called back (`late`).  Each exception is a history variable or a
state that the cause sets and nothing else.

Met on the way: `offer` is called without its abort signal
(`start.ts:716`), so a question answered on a phone keeps an open window's
slot; usage of a tunnel that quota, expiry or re-registration
ended is not recorded (compare `broker.ts:409`); a keyring changed during a
trial may skip an entry (compare `tunnel-agent.ts:501`); the nested budgets
of `pairing-messages.ts:500` start at different moments; a lapsed window's
timer may close its successor (`approve-control.ts:234`).

In the browser: an exit may be taken for an earlier one of the same name
(`use-websocket.ts:230-244`), after which the terminal believes in a session
that has ended; a ping timer that outlives a second `connect()` and meets an
"unapproved" leaves a client "reconnecting" with no timer; "Try another route"
with the keys gone dials on a client that was locked.

In the recorder: two starts may both pass `activeFor` before either is active
(`recorder.ts:183`); a stop that overtakes a start leaks the capture and leaves
a live row; overlapping updates of the index lose one, tear the file or throw
(shared temporary name, `recordings-index.ts:112`); a start that fails leaves
its cast; a user's own `pipe-pane` is ended by the recorder (compare
`recorder.ts:345`); the FIFO of a crashed process is never swept; interrupted
rows count no bytes in the budget; a pty that exits before it is ready leaves
its recording active; limits are checked when something is written, so an idle
recording outlasts its four hours; deleting a recording that runs removes its
row and cast and does not stop it.

## 6. Proofs

Each proof module extends the module it is about.  Two have a second part: the
ways to pair are together, and so are the parts of the relay that keep state of
their own.  There the second module is an instance over variables declared
for it, since the two share no state and use the same names (`Init`, `Next`),
and its assumption is a hypothesis of its theorems
(`L!LocalAssumption /\ L!Spec => ...`, `Rec!RecorderAssumption /\ Rec!Spec => ...`).

A theorem holds for every value of the constants that satisfies the module's one
named assumption, which TLC evaluates in every run.  The assumptions say that `None` is outside the sets
it stands beside (in `Recorder` also that sessions are not panes, and that no
recording is called what a pane's pipe is when it is nobody's), that limits, deadlines and bounds are natural numbers (positive
where the code's constants are and the argument needs it), and that a set is
finite where a cardinality of it is compared (`IsFiniteSet` of mailboxes and
claims, of browsers, of requests).  Nothing else is assumed.

All proofs have one shape.  An inductive invariant is a conjunction of named
parts; a lemma for each action, or for each group of actions that do the same
to some part, shows what the action does to it; `...Invariant` combines them,
and the theorem about the property follows.  Where a module's properties fall
into groups that do not need each other (`Tunnel`: registry and plan;
`Pairing`: types, guesses, budgets, codes, hearing) the invariant is proved in
that many stages.

| module | theorem | what it states |
| --- | --- | --- |
| `PairingProofs` | `TypeCorrect`, `OneGuess`, `Budget`, `HolderIsTold` | `TypeOK`, `OneGuessPerCode`, `GuessBudget`, `HolderHears` always |
| | `Implements` | `Spec => ImplementsOneShotCodes` |
| | `CodeIsGoodForOne`, `GuessingIsBounded` | `LocalPairing`: `OneUseCode`, `GuessesAreBounded` always |
| `TunnelProofs` | `StreamsAreAccounted`, `NoBrowserTalksToNothing`, `PlanKept` | `StreamsAccounted`, `BrowserCarriedOrTold`, `PlanIsKept` always |
| `AccessProofs` | `OneRequestPerMachine`, `QuestionIsHonest`, `ApprovalIsTheTargets` | `MapsAgree`, `HonestQuestion`, `ApprovedByTarget` always |
| `SealedProofs` | `LinesAreInOrder`, `HealthyStreamSurvives`, `NothingPassesUnadmitted`, `ForgottenIsOut` | `InOrderNoGaps`, `HealthySurvives`, `GatedByAdmission`, `ForgottenStaysOut` always |
| `ApprovalsProofs` | `NoConsentNoEntry`, `LosersAreStopped`, `NoQuestionIsForgotten`, `ChannelsDoAgree` | `ConsentNeeded`, `LosersStop`, `HeldSomewhere`, `ChannelsAgree` always |
| `DoorProofs` | `SeatsAreAccounted`, `RevocationHangsUp`, `WaitersAreHeard` | `SeatsAccounted`, `RevokedHangsUp`, `WaitersHear` always |
| | `DoorAsksWhenItMust` | the action property `AsksWhenItMust` |
| | `RecordingsListedTruly`, `RecordingsLeaveNothing` | `Recorder`: `IndexTellsTruth`, `NothingLeftBehind` always |
| | `SweepsPutRight` | `Recorder`: `LiveMeansLive` and `NoOrphans`, two parts of `SweptClean`, always |
| `AttachProofs` | `AttachOwnership`, `AttachPaintsItsOwn`, `AttachNeverWedges`, `AttachedHasItsPty` | `ConnectionOwnsAll`, `PaintsItsOwn`, `NoWedge`, `AttachedIsReal` always |
| `WebProofs` | `OneSocketOrOneTimer`, `NothingIsStranded` | `OneSocketOneTimer`, `NothingStranded` always |
| | `OnlyAPersonDoes` | the action property `OnlyAPersonBringsItBack` |

The inductive invariants, and why each property needs what is added to it:

- `Pairing`.  `TypeInv` adds to `TypeOK` that a claim the store knows has a
  slot, which attaching reads.  `GuessInv` adds that a claim guesses once (its
  socket has left "none", and no handler brings that back) and that what it
  burned names it for ever.  `BudgetInv` adds that every guess still inside the
  window is among the hits its limiter remembers, so a limiter that grants one
  has room, in every window and not only the one that ends now.  Both rest on
  `QuietStep` (a step that is not `AttachClaimSocket` makes no guess, burns
  nothing and forgets no hit inside the window) and `AttachStep` (what the one
  guessing step does).  `HearInv` is what `HolderHears` takes: a mailbox that
  nobody claimed is untouched (`Untouched`); one that was claimed lapses no later
  than its claim (`Deadlines`) and is in its claim's routing table while the
  store has it (`Routed`); a connected holder whose mailbox is gone knows why
  (`Ended`); and the share is heard, buffered, or past hearing (`ShareHeard`).
- `Implements`.  The abstract state of a code is read off `store`, `slotOf` and
  `claimedBy`.  Three kinds of step change it: `POST /v1/pair/new` mints,
  `AttachClaimSocket` burns (`BurnsLive`: what it burns is live and of the
  claim's slot; `RoomForOne`: the abstract budget has room, from `BudgetInv`),
  and all others at most forget mailboxes (`Forgets`), which retires codes or
  stutters.
- `Tunnel`.  `RegistryInv` adds that a tunnel is registered under the device of
  its own socket (`Registered`), that a socket which never connected has nothing
  (`Unborn`), and that a browser's handler holds a tunnel that was registered
  (`Held`).  `PlanInv` adds that settled tunnels are out of the registry for good
  (`SettledIsGone`), which is what makes `BilledOnce` inductive, and that every
  forwarded frame was charged (`CarriedIsCharged`), which gives `QuotaHolds` for
  tunnels that the registry has dropped.
- `AccessRequest`.  `Maps` makes the two maps inverse.  `AskedOnce` needs that
  the commitment is gone once the question is asked (`OneQuestion`) and that a
  commitment in the queue is the only one of its request (`OnTheWay`).
  `ChosenBlind` needs it of what the machine holds (`HeldIsBlind`), what is on
  its way (`OnTheWay`), and that nobody knows the machine's key before the
  request was forwarded (`Forwarding`).  `ApprovedByTarget` needs that what a
  machine answers about its own request is true (`OnTheWayBack`); what it says of
  others' requests may be false, and is ignored.
- `SealedStream`.  `Received` (lines at each end rise and stay below the
  opener's counter) gives order with any broker.  Without gaps takes all of
  `Faithful`: with no fault there are `mid` and `end` such that the counters in
  the promise chain are `Expected .. mid - 1`, those on the wire
  `mid .. end - 1`, and at most one seal is under way, numbered `end`
  (`Forward`); the same downwards (`Backward`).  These rest on how lines are
  numbered (`Written`, `Answered`), on which task of the chain is running and
  what is bound meanwhile (`Running`), and on the gate (`Gate`).  `Keyring` has
  that no forgotten pairing is in the keyring and that one being tried is
  remembered in `racing`.
- `Approvals`.  `RaceInv` ties the local chain of a question to what holds it:
  the slot holds what was offered or parked (`SlotIsLocal`), the panel what was
  prompted (`ScreenIsPanel`), a question that has not begun is nowhere
  (`IdleIsFresh`).  `DialogsAgree` speaks of browsers that have read all their
  messages; `MailOK` says what the messages still in an inbox will make of the
  dialog, so that it holds before they are read too.
- `RelayDoor`.  `SeatsAccounted` needs that what is listed is finite and in use
  (`Seats`); `RevokedHangsUp` needs that a sweep sees every socket that is in
  (`Inside`) and that those it cannot see, which wait, are `caught`
  (`CaughtWaiting`).  `WaitersHear` holds of each connection (`Waiters`) because
  a record that is dropped or replaced while its question stands leaves the
  question behind (`stray`), with those who wait for it; that a device has a token
  before anything of it reaches the relay (`Presented`) is what keeps the steps
  of a pairing and of a revocation apart.  For the action property, `CoverIsConsent` compares the
  gate's own record with the history of what humans said: it says no more than
  their consent and, but for late answers, no less.
- `LocalPairing`.  Redeeming disarms the offer, and nothing re-arms it while a
  request is before the human (`Door`).  `Allowance` is what makes the bound on
  guesses inductive: until the lock-out every guess is a counted failure that
  was free; after it, guesses and what is under way together stay within what is
  free and what was under way when it began (`abreast`).  `ShownWorks`,
  itself inductive, ties the screen to the offer for as long as somebody listens;
  `Known` says that a request under way came from an address.
- `WebConnect`.  `SocketsMatch` pairs sockets and clients in both directions.
  `Timers` adds to `TimerMeansDown` that a client with a timer was not told to
  stay away, unless a closed transport has called it back: without it a timer
  could bring one back.  `FramesMatch` says whose a frame is that outlives its
  socket, which is whom its failure calls back.  `NothingYet` covers the
  callbacks that use `clientRef` before a client exists.
- `TerminalAttach`.  Ownership needs who will destroy the clone at each point of
  an attach (`Clones`), that a pty that was not let go of is the one the
  connection knows (`OnePty`), and how far the two ends of a connection can be
  apart (`Lifecycle`).  The other three rest on the numbering of attaches: the
  relay takes them up in the order they were sent (`Queued`), so whatever comes
  back, and every pty, is older than what is still to be handled (`Numbered`),
  and what bears the number of the last attach is of the session the browser
  shows (`OfLast`).  Then nothing of another attach follows the acknowledgement
  that is waited for, but a replay that was sent when another pty had its place
  (`Paints`, `overtaken`), and the last attach is in the queue, in hand,
  or answered with a pty, a refusal or an exit the browser will hear of
  (`Awaited`), which is `NoWedge` and `AttachedIsReal` before the messages are
  read.  `Buffered` keeps room for one more output in a pty that is not paused, and for
  the replay in one that is not ready.
- `Recorder`.  `Course` is the life of a recording: where `start` and `stop` can
  stand together.  `Updates` says which coroutine waits for which update of the
  index, and `Processes` what a crash leaves.  `NothingLeftBehind` needs what a
  recording holds at each point of its course (`Held`, `Means`): nothing before
  its clone is made, only the clone while that is locked down, and so on.  What the index
  says is true because every version that some update is about to write says
  nothing untrue either (`Truth`), so that it does not matter which of two that
  overlap wins.  Without an overlap an update is the only one under way, and
  what it writes is what it read but for its own row (`Alone`); hence a cast
  that waits to be unlinked has no row and cannot get one again (`Fetchable`),
  and only a row the sweep has closed, or one whose recording is on, is there
  after it (`Closed`).  `QuietStep` covers the steps that leave the index alone:
  they take no recording back in its course.

`SealedStream` writes the keyring without an entry by ranks (`Without`), and its
initial keyring as an injective function on `1 .. n`, rather than with `SelectSeq`
and `Seq`, about which the prover knows nothing.  For the same reason the outputs
in `TerminalAttach`'s queue are counted as the set of their places (`Outputs`).

Only model-checked:

- liveness (`Reclaimed`, `LifetimeEnds`, `LinesArrive`, `ComesBack`), which needs
  fairness and `ENABLED`;
- `WithinBudget`, the third part of `Recorder`'s `SweptClean`: what the sweep
  keeps is a fold over the rows from the newest on, and that the fold stays
  within the budget is an induction over data.  (That it keeps only rows that
  were there, and closes those it keeps, is all the other parts need of it, and
  that is proved.)
- the properties named in section 5 that do not hold.

## 7. Not modelled

Per-address HTTP limits, sizes, signatures and database contents in front of the
broker's handlers; shutdown; the wording of messages and the reason of a denial;
the grant that makes a browser an approver; tmux itself; and the components
listed as `not_modelled` in `PROJECT.json`.

Of the components that are modelled: the length of delays and of the reconnect
ladder, watchers and uploads that a removed connection also drops, the cap on
the addresses the back-off remembers, what a cast contains and how it is played,
the panel's lists.  Left out with their components: the agent's own reconnect
(the mirror image, with one client and no buttons, of `WebConnect`), the
messages of the code exchange, what a grant allows, the re-encryption of stored
sessions, webhooks and subscriptions, the retry loop around minting codes, and
the user interface, which is most of the repository's lines.

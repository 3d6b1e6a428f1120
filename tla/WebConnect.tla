----------------------------- MODULE WebConnect -----------------------------
(***************************************************************************)
(* How a browser keeps its connection to one machine: the RelayClient of   *)
(* apps/web/src/lib/ws-client.ts over the sockets of transport.ts, the     *)
(* hook of use-websocket.ts that makes a client, holds it and lets it go   *)
(* (relay-registry.ts), the route that is decided again when one looks     *)
(* wrong (resolve-route.ts, candidate-race.ts), and the buttons, the lock, *)
(* the network and the machine around them.                                *)
(*                                                                         *)
(* Every event handler is one action: JavaScript runs it to its end.  A    *)
(* route is decided over several awaits, so its start and its end are two. *)
(* So is a sealed frame, which is decrypted over an await while closes are *)
(* handled at once: a frame that something may overtake has an arrival and *)
(* an end of its own.  The delays between attempts are not modelled, nor   *)
(* is what a connection carries once it is up (SealedStream,               *)
(* TerminalAttach).                                                        *)
(***************************************************************************)
EXTENDS Naturals, Integers, FiniteSets

CONSTANTS
    Clients,        \* RelayClient objects: one that is let go, and the next
    Sockets,        \* sockets they dial
    None,
    StaleAfter,     \* STALE_ROUTE_AFTER
    MaxPending,     \* MAX_PENDING_MESSAGES
    MaxMoves,       \* bound on changes of the network
    MaxSlow         \* bound on frames whose decryption takes a while

ASSUME ConnectAssumption ==
    /\ None \notin Clients \cup Sockets
    /\ StaleAfter \in Nat \ {0} /\ MaxPending \in Nat \ {0}
    /\ MaxMoves \in Nat /\ MaxSlow \in Nat

VARIABLES
    cl,             \* the fields of each client
    sock,           \* each socket: whose, to which route, and how far it is
    held,           \* the client that the hook holds, and the registry hands out
    clientRef,      \* clientRef.current: the client it held last
    manual,         \* the client that "Try another route" waits to act on
    resolving,      \* an onRouteStale handler waits for its route
    paired,         \* a descriptor is stored and its keys can be read
    online, home,   \* the network: is there one, and is it the machine's own
    moves,
    frame,          \* the frame that each socket's transport is decrypting, if any
    slow,
    unreported,     \* history: queued messages discarded, less those reported
    cut             \* history: the client was disconnected by going offline

netVars == <<online, home, moves>>
frameVars == <<frame, slow>>
vars == <<cl, sock, held, clientRef, manual, resolving, paired, netVars, frameVars, unreported, cut>>

Routes == {"direct", "tunnel"}
Status == {"connecting", "connected", "reconnecting", "disconnected"}

\* timer is the timer in reconnectTimer; leaked counts those that run on though
\* reconnectTimer has been overwritten or cleared by another.  late is history: a
\* transport whose close had been reported has called back again.
Fresh(rt) ==
    [status |-> "disconnected", connecting |-> FALSE, intentional |-> FALSE,
     transport |-> None, timer |-> FALSE, ping |-> FALSE, count |-> 0, asked |-> FALSE,
     pending |-> 0, route |-> rt, leaked |-> 0, late |-> FALSE]

\* A socket is dialing, open (the token is sent), live (authenticated), mute (a
\* link that has died without saying so) or shut: its close has been reported, but
\* its transport is not detached and has a frame to decrypt.  A transport that is
\* closed and has none does nothing more, whether or not its client still refers
\* to it, and its socket is free.
Free == [st |-> "free", owner |-> None, route |-> "direct"]

\* A frame that cannot be opened, auth:success or auth:failure; and the client
\* whose handlers its transport has.
NoFrame == [kind |-> "none", of |-> None]

TypeOK ==
    /\ cl \in [Clients -> [status : Status, connecting : BOOLEAN, intentional : BOOLEAN,
                           transport : Sockets \cup {None}, timer : BOOLEAN, ping : BOOLEAN,
                           count : 0 .. StaleAfter, asked : BOOLEAN, pending : 0 .. MaxPending,
                           route : Routes, leaked : Nat, late : BOOLEAN]]
    /\ sock \in [Sockets -> [st : {"free", "dialing", "open", "live", "mute", "shut"},
                             owner : Clients \cup {None}, route : Routes]]
    /\ held \in Clients \cup {None} /\ clientRef \in Clients \cup {None}
    /\ manual \in Clients \cup {None} /\ resolving \in BOOLEAN
    /\ paired \in BOOLEAN /\ online \in BOOLEAN /\ home \in BOOLEAN
    /\ moves \in 0 .. MaxMoves
    /\ frame \in [Sockets -> [kind : {"none", "bad", "yes", "no"}, of : Clients \cup {None}]]
    /\ slow \in 0 .. MaxSlow
    /\ unreported \in Int /\ cut \in BOOLEAN

Init ==
    /\ cl = [c \in Clients |-> Fresh("direct")]
    /\ sock = [s \in Sockets |-> Free]
    /\ held = None /\ clientRef = None /\ manual = None /\ resolving = FALSE
    /\ paired \in BOOLEAN /\ online = TRUE /\ home \in BOOLEAN /\ moves = 0
    /\ frame = [s \in Sockets |-> NoFrame] /\ slow = 0
    /\ unreported = 0 /\ cut = FALSE

\* The tunnel can be reached from everywhere, the machine's own address from
\* its network.
Reachable(rt) == online /\ (rt = "tunnel" \/ home)

-----------------------------------------------------------------------------
(***************************************************************************)
(* RelayClient.                                                            *)
(***************************************************************************)
\* transport.close(): its handlers are detached with it, which stops every later
\* callback but that of a frame which turns out bad.
Closed(r) == IF r.transport = None THEN sock ELSE [sock EXCEPT ![r.transport] = Free]

\* connect(), for the client c whose fields are r.
KeepsTimer(r) == r                                      \* mutant of TimerCleared
TimerCleared(r) == [r EXCEPT !.timer = FALSE]
Connect(c, r) ==
    IF r.connecting
      THEN cl' = [cl EXCEPT ![c] = TimerCleared(r)] /\ UNCHANGED sock
      ELSE LET unused == {x \in Sockets : Closed(r)[x].st = "free" /\ frame[x] = NoFrame}
               s == CHOOSE x \in unused : TRUE
           IN
             /\ unused # {}
             /\ sock' = [Closed(r) EXCEPT ![s] = [st |-> "dialing", owner |-> c, route |-> r.route]]
             /\ cl' = [cl EXCEPT ![c] =
                  [TimerCleared(r) EXCEPT !.intentional = FALSE, !.connecting = TRUE, !.transport = s,
                                          !.status = IF r.count > 0 THEN "reconnecting" ELSE "connecting"]]

\* scheduleReconnect(): the third failure in a row asks for another route.  A timer
\* that is pending is overwritten, not cleared.
NeverStale(r) == FALSE                                  \* mutant of Stale
Stale(r) == ~r.intentional /\ r.count + 1 >= StaleAfter /\ ~r.asked
OnlyAsks(r) ==                                          \* mutant of ScheduleReconnect
    IF r.intentional THEN r
    ELSE [r EXCEPT !.count = IF @ < StaleAfter THEN @ + 1 ELSE @,
                   !.asked = @ \/ Stale(r),
                   !.timer = ~Stale(r),
                   !.leaked = IF r.timer THEN @ + 1 ELSE @]
ScheduleReconnect(r) ==
    IF r.intentional THEN r
    ELSE [r EXCEPT !.count = IF @ < StaleAfter THEN @ + 1 ELSE @,
                   !.asked = @ \/ Stale(r),
                   !.timer = TRUE,
                   !.leaked = IF r.timer THEN @ + 1 ELSE @]

\* disconnect(): of the timers, the one in reconnectTimer is cleared.
Disconnected(r) ==
    [r EXCEPT !.intentional = TRUE, !.connecting = FALSE, !.ping = FALSE, !.timer = FALSE,
              !.transport = None, !.status = "disconnected"]
Disconnect(c) == cl' = [cl EXCEPT ![c] = Disconnected(cl[c])] /\ sock' = Closed(cl[c])

\* setTransport(): the other route is tried at once, whatever is under way,
\* unless the client has been told to stay away.
SetTransport(c, rt) ==
    LET r == [cl[c] EXCEPT !.route = rt, !.asked = FALSE] IN
    IF r.intentional THEN cl' = [cl EXCEPT ![c] = r] /\ UNCHANGED sock
    ELSE Connect(c, [r EXCEPT !.connecting = FALSE])

\* reconnectNow()
StillReconnects(c) == Connect(c, cl[c])                 \* mutant of ReconnectNow
ReconnectNow(c) ==
    IF cl[c].intentional THEN UNCHANGED <<cl, sock>> ELSE Connect(c, cl[c])

\* onClose of the client c, whose fields are r.
CalledBack(c, r) ==
    LET q == [r EXCEPT !.connecting = FALSE, !.ping = FALSE] IN
    /\ cl' = [cl EXCEPT ![c] =
         IF q.intentional THEN [q EXCEPT !.status = "disconnected"]
         ELSE ScheduleReconnect([q EXCEPT !.status = "reconnecting"])]
    /\ resolving' = (resolving \/ Stale(q))

\* The far end, or the network, ends a socket.  One that is dialing may simply not
\* get through.  A stream:close, like a frame that cannot be opened, detaches the
\* transport; the close of the socket below it does not.
OnClose(s) ==
    LET c == sock[s].owner IN
    /\ sock[s].st \notin {"free", "shut"}
    /\ \/ /\ sock' = [sock EXCEPT ![s] = Free]
          /\ CalledBack(c, [cl[c] EXCEPT !.transport = IF @ = s THEN None ELSE @])
       \/ /\ frame[s] # NoFrame
          /\ sock' = [sock EXCEPT ![s].st = "shut"]
          /\ CalledBack(c, cl[c])
    /\ UNCHANGED <<held, clientRef, manual, paired, netVars, frameVars, unreported, cut>>

\* A frame arrives by the tunnel and its decryption takes a while.
FrameArrives(s) ==
    /\ sock[s].route = "tunnel" /\ frame[s] = NoFrame /\ slow < MaxSlow
    /\ \E k \in {"bad", "yes", "no"} :
         /\ sock[s].st = "open" \/ (sock[s].st = "live" /\ k = "bad")
         /\ frame' = [frame EXCEPT ![s] = [kind |-> k, of |-> sock[s].owner]]
    /\ slow' = slow + 1
    /\ UNCHANGED <<cl, sock, held, clientRef, manual, resolving, paired, netVars, unreported, cut>>

\* handleFrame() when the frame cannot be opened: the transport is closed and calls
\* back, also when it is closed already.
FrameFails(s) ==
    LET c == frame[s].of
        r == IF sock[s].st = "free" THEN cl[c] ELSE [cl[c] EXCEPT !.transport = None]
    IN  /\ frame[s].kind = "bad"
        /\ frame' = [frame EXCEPT ![s] = NoFrame]
        /\ sock' = [sock EXCEPT ![s] = Free]
        /\ CalledBack(c, [r EXCEPT !.late = @ \/ sock[s].st \in {"free", "shut"}])
        /\ UNCHANGED <<held, clientRef, manual, paired, netVars, slow, unreported, cut>>

\* What a detached transport has opened is dropped.
FrameIgnored(s) ==
    /\ frame[s].kind \in {"yes", "no"} /\ sock[s].st = "free"
    /\ frame' = [frame EXCEPT ![s] = NoFrame]
    /\ UNCHANGED <<cl, sock, held, clientRef, manual, resolving, paired, netVars, slow, unreported, cut>>

\* The message k is delivered: as it arrives, or as its frame has been opened.
Receives(s, k) ==
    \/ sock[s].st = "open" /\ frame[s] = NoFrame
    \/ sock[s].st \in {"open", "shut"} /\ frame[s].kind = k

\* What delivering it does to the transport's client c: after the close has been
\* reported it is late, and the transport has nothing more to deliver.
Delivered(s, c) ==
    IF sock[s].st = "shut" THEN [cl[c] EXCEPT !.transport = None, !.late = TRUE] ELSE cl[c]

\* onOpen sends the token.
OnOpen(s) ==
    /\ sock[s].st = "dialing" /\ Reachable(sock[s].route)
    /\ sock' = [sock EXCEPT ![s].st = "open"]
    /\ UNCHANGED <<cl, held, clientRef, manual, resolving, paired, netVars, frameVars, unreported, cut>>

\* auth:success: the ladder and the streak start over, the ping starts, and what
\* waited is sent.
AuthSuccess(s) ==
    LET c == sock[s].owner IN
    /\ Receives(s, "yes") /\ (frame[s] = NoFrame => Reachable(sock[s].route))
    /\ frame' = [frame EXCEPT ![s] = NoFrame]
    /\ sock' = [sock EXCEPT ![s] = IF @.st = "shut" THEN Free ELSE [@ EXCEPT !.st = "live"]]
    /\ cl' = [cl EXCEPT ![c] = [Delivered(s, c) EXCEPT
                                  !.connecting = FALSE, !.status = "connected", !.count = 0,
                                  !.asked = FALSE, !.ping = TRUE, !.pending = 0]]
    /\ UNCHANGED <<held, clientRef, manual, resolving, paired, netVars, slow, unreported, cut>>

\* auth:failure.  Not approved at the machine: the client stays away.  A timer and
\* the ping are left as they are.
Unapproved(s) ==
    LET c == sock[s].owner IN
    /\ Receives(s, "no")
    /\ frame' = [frame EXCEPT ![s] = NoFrame]
    /\ sock' = [sock EXCEPT ![s] = Free]
    /\ cl' = [cl EXCEPT ![c] = [Delivered(s, c) EXCEPT
                                  !.intentional = TRUE, !.connecting = FALSE,
                                  !.transport = None, !.status = "disconnected"]]
    /\ UNCHANGED <<held, clientRef, manual, resolving, paired, netVars, slow, unreported, cut>>

\* The credential is dead: the keys are wiped and the page is left, with
\* everything in it.
DeadCredential(s) ==
    /\ Receives(s, "no")
    /\ sock' = [x \in Sockets |-> Free] /\ cl' = [c \in Clients |-> Fresh("direct")]
    /\ frame' = [x \in Sockets |-> NoFrame]
    /\ held' = None /\ clientRef' = None /\ manual' = None /\ resolving' = FALSE
    /\ paired' = FALSE /\ cut' = FALSE
    /\ UNCHANGED <<netVars, slow, unreported>>

\* The timer of a reconnect.
Reconnect(c) ==
    /\ cl[c].timer
    /\ Connect(c, [cl[c] EXCEPT !.timer = FALSE])
    /\ UNCHANGED <<held, clientRef, manual, resolving, paired, netVars, frameVars, unreported, cut>>

\* One that was overwritten fires all the same: it clears reconnectTimer, whatever
\* timer that is, and connects.
Overwritten(c) ==
    /\ cl[c].leaked > 0
    /\ Connect(c, [cl[c] EXCEPT !.timer = FALSE, !.leaked = IF cl[c].timer THEN @ ELSE @ - 1])
    /\ UNCHANGED <<held, clientRef, manual, resolving, paired, netVars, frameVars, unreported, cut>>

\* The ping timer: no pong for 25 seconds, or the buffer is full.
DropConnection(c) ==
    LET r == [cl[c] EXCEPT !.transport = None, !.connecting = FALSE, !.ping = FALSE,
                           !.status = "reconnecting"]
    IN  /\ cl[c].ping
        /\ sock' = Closed(cl[c])
        /\ cl' = [cl EXCEPT ![c] = ScheduleReconnect(r)]
        /\ resolving' = (resolving \/ Stale(r))
        /\ UNCHANGED <<held, clientRef, manual, paired, netVars, frameVars, unreported, cut>>

\* send() of a request that may wait: past the limit the oldest go, and the
\* number that went is reported.
Kept(n) == IF n > MaxPending THEN MaxPending ELSE n
Dropped(n) == n - MaxPending
Send ==
    LET r == cl[held]
        n == r.pending + 1
    IN  /\ held # None
        /\ IF r.status = "connected" /\ r.transport # None
             THEN UNCHANGED <<cl, unreported>>
             ELSE /\ cl' = [cl EXCEPT ![held].pending = Kept(n)]
                  /\ unreported' = IF n > MaxPending THEN unreported + (n - Kept(n)) - Dropped(n)
                                   ELSE unreported
        /\ UNCHANGED <<sock, held, clientRef, manual, resolving, paired, netVars, frameVars, cut>>

-----------------------------------------------------------------------------
(***************************************************************************)
(* The hook, and what people do.                                           *)
(***************************************************************************)
\* Nothing will read or wake the client c once it is disconnected.
Forgotten(c) == manual # c /\ cl[c].leaked = 0 /\ \A s \in Sockets : frame[s].of # c

\* Clients that nothing refers to and nothing will wake.
Unused ==
    {c \in Clients : Forgotten(c) /\ ~cl[c].timer /\ \A s \in Sockets : sock[s].owner # c}

\* The effect runs: a new client, on the route preferred last.  The hook is the only
\* caller of acquire() and releases before it acquires again, so no entry is there.
Mount ==
    /\ held = None /\ Unused # {}
    /\ \E rt \in Routes :
         LET c == CHOOSE x \in Unused : TRUE IN
         /\ paired \/ rt = "direct"
         /\ held' = c /\ clientRef' = c
         /\ Connect(c, Fresh(rt))
    /\ cut' = FALSE
    /\ UNCHANGED <<manual, resolving, paired, netVars, frameVars, unreported>>

\* Its cleanup: the last holder disconnects, and nobody reads the client again
\* but the button that may be waiting, a timer that was not cleared and a frame.
Unmount ==
    /\ held # None
    /\ sock' = Closed(cl[held])
    /\ cl' = [cl EXCEPT ![held] = IF Forgotten(held) THEN Disconnected(Fresh("direct"))
                                 ELSE Disconnected(cl[held])]
    /\ held' = None
    /\ UNCHANGED <<clientRef, manual, resolving, paired, netVars, frameVars, unreported, cut>>

\* offline and online events
Offline ==
    /\ online /\ moves < MaxMoves
    /\ online' = FALSE /\ moves' = moves + 1
    /\ IF held # None THEN Disconnect(held) /\ cut' = TRUE ELSE UNCHANGED <<cl, sock, cut>>
    /\ UNCHANGED <<held, clientRef, manual, resolving, paired, home, frameVars, unreported>>

Online ==
    /\ ~online
    /\ online' = TRUE
    /\ IF held # None /\ cl[held].status \in {"disconnected", "reconnecting"}
         THEN ReconnectNow(held) ELSE UNCHANGED <<cl, sock>>
    /\ UNCHANGED <<held, clientRef, manual, resolving, paired, home, moves, frameVars, unreported, cut>>

\* The tab becomes visible.
Visible ==
    /\ held # None /\ cl[held].status \notin {"connected", "connecting"}
    /\ ReconnectNow(held)
    /\ UNCHANGED <<held, clientRef, manual, resolving, paired, netVars, frameVars, unreported, cut>>

\* "Retry now", "Try again", and the status pill, which drops what there is.
RetryNow ==
    /\ held # None
    /\ \/ cl[held].status \in {"disconnected", "reconnecting"} /\ Connect(held, cl[held])
       \/ Connect(held, [Disconnected(cl[held]) EXCEPT !.transport = cl[held].transport])
    /\ cut' = FALSE
    /\ UNCHANGED <<held, clientRef, manual, resolving, paired, netVars, frameVars, unreported>>

\* "Try another route": the client is taken now and acted on later.
TryAnotherRoute ==
    /\ held # None /\ manual = None /\ cl[held].status \in {"disconnected", "reconnecting"}
    /\ manual' = held
    /\ UNCHANGED <<cl, sock, held, clientRef, resolving, paired, netVars, frameVars, unreported, cut>>

\* resolveRoute(): the first direct address that authenticates within 800 ms,
\* or the tunnel.
Resolved(rt) == rt = "tunnel" \/ Reachable("direct")

RouteForManual ==
    /\ manual # None
    /\ IF paired THEN \E rt \in Routes : Resolved(rt) /\ SetTransport(manual, rt)
       ELSE Connect(manual, cl[manual])
    /\ manual' = None
    /\ UNCHANGED <<held, clientRef, resolving, paired, netVars, frameVars, unreported, cut>>

RouteForStale ==
    /\ resolving
    /\ resolving' = FALSE
    /\ IF paired THEN \E rt \in Routes : Resolved(rt) /\ SetTransport(clientRef, rt)
       ELSE UNCHANGED <<cl, sock>>
    /\ UNCHANGED <<held, clientRef, manual, paired, netVars, frameVars, unreported, cut>>

\* The device is locked, the machine forgotten or the person signed out: the
\* socket goes first, then the keys.
Leave ==
    /\ held # None /\ paired
    /\ Disconnect(held)
    /\ paired' = FALSE /\ cut' = FALSE
    /\ UNCHANGED <<held, clientRef, manual, resolving, netVars, frameVars, unreported>>

\* Unlocked, or paired again.
Return ==
    /\ ~paired /\ held = None
    /\ paired' = TRUE
    /\ UNCHANGED <<cl, sock, held, clientRef, manual, resolving, netVars, frameVars, unreported, cut>>

-----------------------------------------------------------------------------
\* The person goes out, or comes home, and links die without a word.
Move ==
    /\ moves < MaxMoves
    /\ home' = ~home /\ moves' = moves + 1
    /\ sock' = [s \in Sockets |->
         IF sock[s].st \in {"open", "live"} /\ sock[s].route = "direct"
           THEN [sock[s] EXCEPT !.st = "mute"] ELSE sock[s]]
    /\ UNCHANGED <<cl, held, clientRef, manual, resolving, paired, online, frameVars, unreported, cut>>

Network == Offline \/ Online \/ Move
Person == Mount \/ Unmount \/ Visible \/ RetryNow \/ TryAnotherRoute \/ Leave \/ Return \/ Send

Next ==
    \/ Network \/ Person
    \/ \E s \in Sockets : OnOpen(s) \/ OnClose(s) \/ AuthSuccess(s)
                          \/ Unapproved(s) \/ DeadCredential(s)
                          \/ FrameArrives(s) \/ FrameFails(s) \/ FrameIgnored(s)
    \/ \E c \in Clients : Reconnect(c) \/ Overwritten(c) \/ DropConnection(c)
    \/ RouteForManual \/ RouteForStale

Spec == Init /\ [][Next]_vars

\* What is certain to happen: timers fire, a frame is decrypted, a dial that cannot get through and a
\* link that has died are given up in the end, a route that is asked for is
\* decided, and a machine that is asked often enough answers.
GivesUp(s) == OnClose(s) /\ (sock[s].st = "mute" \/ ~Reachable(sock[s].route))
MissesPongs(c) ==
    DropConnection(c) /\ (cl[c].transport = None \/ sock[cl[c].transport].st = "mute")
Decrypted(s) ==
    frame[s] # NoFrame /\ (AuthSuccess(s) \/ Unapproved(s) \/ FrameFails(s) \/ FrameIgnored(s))

FairSpec ==
    /\ Spec
    /\ \A c \in Clients : /\ WF_vars(Reconnect(c)) /\ WF_vars(Overwritten(c))
                          /\ WF_vars(MissesPongs(c))
    /\ \A s \in Sockets : WF_vars(GivesUp(s)) /\ WF_vars(Decrypted(s))
    /\ \A c \in Clients : /\ SF_vars(\E s \in Sockets : sock[s].owner = c /\ OnOpen(s))
                          /\ SF_vars(\E s \in Sockets : sock[s].owner = c /\ AuthSuccess(s))
    /\ WF_vars(RouteForStale)

-----------------------------------------------------------------------------
(***************************************************************************)
(* Properties.                                                             *)
(***************************************************************************)
\* "A queued reconnect can't fire a second connect() and open a parallel socket"
\* (ws-client.ts:153-176): every socket that can still call back is the one its
\* client uses now.
OneSocket == \A s \in Sockets : sock[s].st # "free" => cl[sock[s].owner].transport = s

\* The timer of a reconnect is pending only while its client has nothing, it is the
\* only one, and disconnect() can clear it (ws-client.ts:150-159, 231-238, 329-332):
\* it never tears down what a button, an event or another route has brought up
\* meanwhile.  A client that a closed transport has called back is left out: its
\* timers are what NoSecondConnect and ReconnectingIsDown show.
TimerMeansDown ==
    \A c \in Clients : ~cl[c].late =>
      /\ cl[c].leaked = 0
      /\ cl[c].timer => /\ ~cl[c].connecting /\ cl[c].status = "reconnecting"
                        /\ cl[c].transport # None => sock[cl[c].transport].st = "shut"

\* A client has one socket that can call back, and while no closed transport has
\* called it back one socket or one timer, never both (ws-client.ts:150-176,
\* 329-332).
OneSocketOneTimer == TypeOK /\ OneSocket /\ TimerMeansDown

\* "There is no attempt cap, by design" (ws-client.ts:82-90): unless it has been
\* told to stay away, the client that is held is connected, trying or about to.
NeverStranded ==
    held # None /\ ~cl[held].intentional =>
        cl[held].status = "connected" \/ cl[held].timer \/ cl[held].connecting

\* Every queued request that is discarded is reported (ws-client.ts:257-264).
DropsAreReported == unreported = 0

\* Neither the client nor a request it queued is stranded: it is up, trying or
\* about to, and what it discards is reported (ws-client.ts:82-90, 257-264).
NothingStranded == NeverStranded /\ DropsAreReported

\* A client that was told to stay away (locked, forgotten, refused, let go) dials
\* again because somebody pressed a button, never because of an event of the page,
\* a route that was being decided or the ping (ws-client.ts:276-280, 304-307); and
\* because of a timer only if a closed transport has called it back.
OnlyAPersonBringsItBack ==
    [][\A c \in Clients :
         cl[c].intentional /\ ~cl'[c].intentional =>
             \/ RetryNow \/ RouteForManual \/ Mount \/ \E s \in Sockets : DeadCredential(s)
             \/ cl[c].late /\ (Reconnect(c) \/ Overwritten(c))]_vars

Up == /\ held # None /\ cl[held].status = "connected" /\ cl[held].transport # None
      /\ sock[cl[held].transport].st = "live"
Released == held = None \/ cl[held].intentional \/ ~paired \/ ~online

\* A paired session "survives moving between networks" (resolve-route.ts:22-25):
\* whatever address it is pinned to and however its link died, it is up again in
\* the end without anybody doing anything, unless it is let go, told to stay away
\* or off the network.
ComesBack == ~Released ~> Up \/ Released

\* "Going through disconnect() keeps the two in step; `online` above reconnects"
\* (use-websocket.ts:531-536): the online event makes a client dial that going
\* offline had disconnected.
OnlineReconnects == [][Online /\ held # None /\ cut => cl'[held].connecting]_vars

\* "A closed transport must never call back" (transport.ts:34), for its "late
\* onClose" would "knock a freshly reconnected client back to `reconnecting`"
\* (ws-client.ts:239-242): a client that says so has no authenticated socket.
ReconnectingIsDown ==
    \A c \in Clients :
      cl[c].status = "reconnecting" /\ cl[c].transport # None => sock[cl[c].transport].st # "live"

\* "Always clear a pending reconnect timer first so a queued reconnect can't fire a
\* second connect()" (ws-client.ts:151-153): while a client dials, none is pending.
NoSecondConnect == \A c \in Clients : cl[c].connecting => ~cl[c].timer /\ cl[c].leaked = 0
=============================================================================

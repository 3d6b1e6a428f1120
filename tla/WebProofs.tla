----------------------------- MODULE WebProofs ------------------------------
(***************************************************************************)
(* Proofs about WebConnect for any number of clients and sockets, and any  *)
(* limits.                                                                 *)
(***************************************************************************)
EXTENDS WebConnect, TLAPS

ClientRec ==
    [status : Status, connecting : BOOLEAN, intentional : BOOLEAN,
     transport : Sockets \cup {None}, timer : BOOLEAN, ping : BOOLEAN,
     count : 0 .. StaleAfter, asked : BOOLEAN, pending : 0 .. MaxPending,
     route : Routes, leaked : Nat, late : BOOLEAN]

SocketRec ==
    [st : {"free", "dialing", "open", "live", "mute", "shut"},
     owner : Clients \cup {None}, route : Routes]

FrameRec == [kind : {"none", "bad", "yes", "no"}, of : Clients \cup {None}]

\* A socket that can call back has an owner that uses it, and what a client
\* uses is its own.
SocketsMatch ==
    /\ \A s \in Sockets :
         IF sock[s].st = "free" THEN sock[s].owner = None
         ELSE sock[s].owner \in Clients /\ cl[sock[s].owner].transport = s
    /\ \A c \in Clients : cl[c].transport # None => sock[cl[c].transport].owner = c

\* Unless a closed transport has called its client back, a timer is the only one
\* and is pending only while the client has nothing and is wanted.
TimerIsSafe(r) ==
    ~r.late => /\ r.leaked = 0
               /\ r.timer => /\ ~r.connecting /\ ~r.ping /\ ~r.intentional
                             /\ r.status = "reconnecting"

TimerIsDown(c) ==
    ~cl[c].late /\ cl[c].timer /\ cl[c].transport # None => sock[cl[c].transport].st = "shut"

Timers == \A c \in Clients : TimerIsSafe(cl[c]) /\ TimerIsDown(c)

\* A frame that is being decrypted is of the client whose socket brought it, and
\* no other client has that socket meanwhile.
FramesMatch ==
    \A s \in Sockets :
      /\ frame[s].of = None <=> frame[s].kind = "none"
      /\ frame[s].kind # "none" /\ sock[s].st # "free" => frame[s].of = sock[s].owner

\* Unless it has been told to stay away, a client is up, trying or about to.
Trying(r) == r.intentional \/ r.status = "connected" \/ r.timer \/ r.connecting

HeldTries == held # None => Trying(cl[held])

\* Before the first client was made there is nothing.
NothingYet ==
    clientRef = None =>
        held = None /\ manual = None /\ ~resolving
        /\ (\A c \in Clients : cl[c] = Fresh("direct")) /\ \A s \in Sockets : frame[s] = NoFrame

WebInv ==
    /\ TypeOK /\ SocketsMatch /\ Timers /\ FramesMatch /\ HeldTries /\ NothingYet
    /\ DropsAreReported

-----------------------------------------------------------------------------
\* The type of everything but clients and sockets.
RestOK ==
    /\ held \in Clients \cup {None} /\ clientRef \in Clients \cup {None}
    /\ manual \in Clients \cup {None} /\ resolving \in BOOLEAN
    /\ paired \in BOOLEAN /\ online \in BOOLEAN /\ home \in BOOLEAN
    /\ moves \in 0 .. MaxMoves
    /\ frame \in [Sockets -> FrameRec] /\ slow \in 0 .. MaxSlow
    /\ unreported \in Int /\ cut \in BOOLEAN

\* The type invariant in three parts.
LEMMA TypeParts ==
  TypeOK <=> cl \in [Clients -> ClientRec] /\ sock \in [Sockets -> SocketRec] /\ RestOK
  BY DEF TypeOK, ClientRec, SocketRec, FrameRec, RestOK

\* How the sockets pass from one state to the next when the client c changes
\* to q: what is not free then is what q uses, or was somebody else's and still
\* is, and nothing of anybody else's changes.
Handover(c, q) ==
    /\ \A s \in Sockets : sock'[s].st = "free" => sock'[s].owner = None
    /\ \A s \in Sockets : sock'[s].st # "free" =>
         \/ sock'[s].owner = c /\ q.transport = s
         \/ sock[s].st # "free" /\ sock[s].owner # c /\ sock'[s].owner = sock[s].owner
    /\ q.transport # None => sock'[q.transport].owner = c
    /\ \A s \in Sockets : sock[s].owner \notin {c, None} => sock'[s] = sock[s]

\* A timer of q is pending only while q has nothing.
DownAfter(q) ==
    ~q.late /\ q.timer /\ q.transport # None => sock'[q.transport].st = "shut"

\* A step of one client that hands its sockets over keeps the invariant.
LEMMA ClientKeeps ==
  ASSUME WebInv, NEW c \in Clients, NEW q \in ClientRec,
         cl' = [cl EXCEPT ![c] = q], sock' \in [Sockets -> SocketRec], RestOK',
         Handover(c, q), TimerIsSafe(q), DownAfter(q), FramesMatch', clientRef' # None, DropsAreReported',
         held' # None => (held' = c /\ Trying(q)) \/ (held' # c /\ held' = held)
  PROVE  WebInv'
  <1>0. /\ cl \in [Clients -> ClientRec] /\ sock \in [Sockets -> SocketRec]
        /\ None \notin Clients /\ None \notin Sockets
    BY TypeParts, ConnectAssumption DEF WebInv, ConnectAssumption
  <1>1. cl' \in [Clients -> ClientRec] /\ cl'[c] = q /\ \A b \in Clients \ {c} : cl'[b] = cl[b]
    BY <1>0
  <1>2. TypeOK' BY <1>1 DEF TypeOK, RestOK, ClientRec, SocketRec, FrameRec
  <1>3. SocketsMatch'
    <2>1. ASSUME NEW s \in Sockets
          PROVE  IF sock'[s].st = "free" THEN sock'[s].owner = None
                 ELSE sock'[s].owner \in Clients /\ cl'[sock'[s].owner].transport = s
      <3>1. sock[s].st # "free" => sock[s].owner \in Clients /\ cl[sock[s].owner].transport = s
        BY DEF WebInv, SocketsMatch
      <3> QED BY <1>1, <3>1 DEF Handover
    <2>2. ASSUME NEW b \in Clients, cl'[b].transport # None
          PROVE  sock'[cl'[b].transport].owner = b
      <3>1. CASE b = c BY <1>1, <2>2, <3>1 DEF Handover
      <3>2. CASE b # c
        <4>1. cl'[b].transport \in Sockets /\ cl'[b] = cl[b]
          BY <1>0, <1>1, <2>2, <3>2 DEF ClientRec
        <4>2. sock[cl[b].transport].owner = b BY <2>2, <4>1 DEF WebInv, SocketsMatch
        <4> QED BY <1>0, <3>2, <4>1, <4>2 DEF Handover
      <3> QED BY <3>1, <3>2
    <2> QED BY <2>1, <2>2 DEF SocketsMatch
  <1>4. Timers'
    <2>1. ASSUME NEW b \in Clients, b # c PROVE TimerIsDown(b)'
      <3>1. cl'[b] = cl[b] /\ TimerIsDown(b) BY <1>1, <2>1 DEF WebInv, Timers
      <3>2. ASSUME cl[b].transport # None
            PROVE  sock'[cl[b].transport] = sock[cl[b].transport]
        <4>1. cl[b].transport \in Sockets /\ sock[cl[b].transport].owner = b
          BY <1>0, <3>2 DEF ClientRec, WebInv, SocketsMatch
        <4> QED BY <1>0, <2>1, <4>1 DEF Handover
      <3> QED BY <3>1, <3>2 DEF TimerIsDown
    <2>2. TimerIsDown(c)' BY <1>1 DEF DownAfter, TimerIsDown
    <2> QED BY <1>1, <2>1, <2>2 DEF WebInv, Timers
  <1>5. HeldTries'
    <2> SUFFICES ASSUME held' # None PROVE Trying(cl'[held']) BY DEF HeldTries
    <2>1. held' \in Clients BY DEF RestOK
    <2> QED BY <1>1, <2>1 DEF WebInv, HeldTries
  <1>6. NothingYet' BY DEF NothingYet
  <1> QED BY <1>2, <1>3, <1>4, <1>5, <1>6 DEF WebInv

\* A step that changes no client and no owner of a socket keeps it too.
LEMMA QuietKeeps ==
  ASSUME WebInv, cl' = cl, sock' \in [Sockets -> SocketRec], RestOK',
         \A s \in Sockets : sock'[s].owner = sock[s].owner
                            /\ (sock'[s].st = "free" <=> sock[s].st = "free")
                            /\ (sock'[s].st = "shut" <=> sock[s].st = "shut"),
         clientRef' = clientRef, held' = held, FramesMatch',
         clientRef # None \/ (manual' = manual /\ resolving' = resolving /\ frame' = frame),
         DropsAreReported'
  PROVE  WebInv'
  <1>0. /\ cl \in [Clients -> ClientRec] /\ sock \in [Sockets -> SocketRec]
    BY TypeParts DEF WebInv
  <1>1. TypeOK' BY <1>0 DEF TypeOK, RestOK, ClientRec, SocketRec, FrameRec
  <1>2. SocketsMatch'
    <2>1. \A c \in Clients : cl[c].transport # None => cl[c].transport \in Sockets
      BY <1>0 DEF ClientRec
    <2> QED BY <2>1 DEF WebInv, SocketsMatch
  <1>3. Timers' /\ HeldTries'
    <2>1. \A c \in Clients : cl[c].transport # None => cl[c].transport \in Sockets
      BY <1>0 DEF ClientRec
    <2> QED BY <2>1 DEF WebInv, Timers, TimerIsDown, HeldTries
  <1>4. NothingYet' BY DEF WebInv, NothingYet
  <1> QED BY <1>1, <1>2, <1>3, <1>4 DEF WebInv

\* Frames end, and no socket with one changes hands.
LEMMA FramesKeep ==
  ASSUME WebInv,
         \A s \in Sockets :
           /\ frame'[s] \in {frame[s], NoFrame}
           /\ sock'[s].st # "free" /\ frame'[s] # NoFrame =>
                sock[s].st # "free" /\ sock'[s].owner = sock[s].owner
  PROVE  FramesMatch'
  <1> SUFFICES ASSUME NEW s \in Sockets
               PROVE  /\ frame'[s].of = None <=> frame'[s].kind = "none"
                      /\ frame'[s].kind # "none" /\ sock'[s].st # "free" =>
                           frame'[s].of = sock'[s].owner
    BY DEF FramesMatch
  <1>1. CASE frame'[s] = NoFrame BY <1>1 DEF NoFrame
  <1>2. CASE frame'[s] # NoFrame BY <1>2 DEF WebInv, FramesMatch
  <1> QED BY <1>1, <1>2

-----------------------------------------------------------------------------
(***************************************************************************)
(* connect(), disconnect() and scheduleReconnect().                        *)
(***************************************************************************)
\* What the invariant says of one client: its socket is its own.
LEMMA OwnSocket ==
  ASSUME WebInv, NEW c \in Clients
  PROVE  /\ cl[c] \in ClientRec /\ TimerIsSafe(cl[c]) /\ TimerIsDown(c)
         /\ cl[c].transport \in Sockets \cup {None} /\ None \notin Sockets /\ None \notin Clients
         /\ \A s \in Sockets : sock[s].owner = c => cl[c].transport = s
         /\ cl[c].transport # None =>
              sock[cl[c].transport].owner = c /\ sock[cl[c].transport].st # "free"
         /\ sock \in [Sockets -> SocketRec] /\ cl \in [Clients -> ClientRec]
         /\ \A s \in Sockets : sock[s].st = "free" <=> sock[s].owner = None
  <1>0. /\ cl \in [Clients -> ClientRec] /\ sock \in [Sockets -> SocketRec]
        /\ None \notin Clients /\ None \notin Sockets
    BY TypeParts, ConnectAssumption DEF WebInv, ConnectAssumption
  <1>1. cl[c] \in ClientRec /\ cl[c].transport \in Sockets \cup {None} BY <1>0 DEF ClientRec
  <1> QED BY <1>0, <1>1 DEF WebInv, SocketsMatch, Timers

\* Closing what a client uses frees that socket and no other.
LEMMA ClosedFacts ==
  ASSUME WebInv, NEW c \in Clients, NEW r, r.transport = cl[c].transport
  PROVE  /\ Closed(r) \in [Sockets -> SocketRec]
         /\ \A s \in Sockets : IF sock[s].owner = c THEN Closed(r)[s] = Free
                               ELSE Closed(r)[s] = sock[s]
  <1>1. Free \in SocketRec BY DEF Free, SocketRec, Routes
  <1> QED BY <1>1, OwnSocket DEF Closed

\* connect() leaves its client trying, with one socket of its own and no timer
\* (ws-client.ts:150-195).
LEMMA ConnectKeeps ==
  ASSUME WebInv, NEW c \in Clients, NEW r \in ClientRec, r.transport = cl[c].transport,
         Connect(c, r), RestOK', clientRef' # None, DropsAreReported', frame' = frame,
         held' = held \/ held' = c, ~r.late => r.leaked = 0
  PROVE  WebInv'
  <1>0. None \notin Sockets /\ None \notin Clients BY OwnSocket
  <1>1. CASE r.connecting
    <2> DEFINE q == TimerCleared(r)
    <2>1. q \in ClientRec /\ ~q.timer /\ q.connecting /\ q.transport = cl[c].transport
          /\ (~q.late => q.leaked = 0)
      BY <1>1 DEF TimerCleared, ClientRec
    <2>2. cl' = [cl EXCEPT ![c] = q] /\ sock' = sock BY <1>1 DEF Connect
    <2> HIDE DEF q
    <2>3. TimerIsSafe(q) /\ Trying(q) BY <2>1 DEF TimerIsSafe, Trying
    <2>4. Handover(c, q) BY <2>1, <2>2, OwnSocket DEF Handover
    <2>5. held' # None => (held' = c /\ Trying(q)) \/ (held' # c /\ held' = held) BY <2>3
    <2>6. sock' \in [Sockets -> SocketRec] BY <2>2, OwnSocket
    <2>7. FramesMatch' BY <2>2, FramesKeep
    <2>8. DownAfter(q) BY <2>1 DEF DownAfter
    <2> QED BY <2>1, <2>2, <2>3, <2>4, <2>5, <2>6, <2>7, <2>8, ClientKeeps
  <1>2. CASE ~r.connecting
    <2> DEFINE unused == {x \in Sockets : Closed(r)[x].st = "free" /\ frame[x] = NoFrame}
               s == CHOOSE x \in unused : TRUE
               q == [TimerCleared(r) EXCEPT !.intentional = FALSE, !.connecting = TRUE, !.transport = s,
                        !.status = IF r.count > 0 THEN "reconnecting" ELSE "connecting"]
               new == [st |-> "dialing", owner |-> c, route |-> r.route]
    <2>1. /\ unused # {} /\ sock' = [Closed(r) EXCEPT ![s] = new]
          /\ cl' = [cl EXCEPT ![c] = q]
      BY <1>2 DEF Connect
    <2>2. s \in Sockets /\ Closed(r)[s].st = "free" /\ frame[s] = NoFrame BY <2>1
    <2>3. q \in ClientRec /\ ~q.timer /\ q.connecting /\ q.transport = s
          /\ (~q.late => q.leaked = 0)
      <3> HIDE DEF s
      <3> QED BY <2>2 DEF TimerCleared, ClientRec, Status
    <2>4. new \in SocketRec /\ new.st # "free" /\ new.owner = c
      BY DEF SocketRec, ClientRec
    <2> HIDE DEF unused, s, q, new
    <2>5. sock' \in [Sockets -> SocketRec] /\ sock'[s] = new
          /\ \A x \in Sockets \ {s} : sock'[x] = Closed(r)[x]
      BY <2>1, <2>2, <2>4, ClosedFacts
    <2>6. sock[s].owner \in {c, None}
      BY <2>2, ClosedFacts, OwnSocket
    <2>7. Handover(c, q)
      <3>1. \A x \in Sockets : sock'[x].st = "free" => sock'[x].owner = None
        BY <2>4, <2>5, ClosedFacts, OwnSocket DEF Free
      <3>2. \A x \in Sockets : sock'[x].st # "free" =>
              \/ sock'[x].owner = c /\ q.transport = x
              \/ sock[x].st # "free" /\ sock[x].owner # c /\ sock'[x].owner = sock[x].owner
        BY <2>3, <2>4, <2>5, ClosedFacts DEF Free
      <3>3. \A x \in Sockets : sock[x].owner \notin {c, None} => sock'[x] = sock[x]
        BY <2>5, <2>6, ClosedFacts
      <3> QED BY <2>3, <2>4, <2>5, <3>1, <3>2, <3>3 DEF Handover
    <2>8. TimerIsSafe(q) /\ Trying(q) BY <2>3 DEF TimerIsSafe, Trying
    <2>9. held' # None => (held' = c /\ Trying(q)) \/ (held' # c /\ held' = held) BY <2>8
    <2>10. /\ q \in ClientRec /\ cl' = [cl EXCEPT ![c] = q] /\ sock' \in [Sockets -> SocketRec]
      BY <2>1, <2>3, <2>5
    <2>11. FramesMatch' BY <2>2, <2>5, ClosedFacts, FramesKeep DEF Free
    <2>12. DownAfter(q) BY <2>3 DEF DownAfter
    <2> QED BY <2>7, <2>8, <2>9, <2>10, <2>11, <2>12, ClientKeeps
  <1> QED BY <1>1, <1>2

\* A client that gives up its socket, whatever else becomes of it.
LEMMA LetGoKeeps ==
  ASSUME WebInv, NEW c \in Clients, NEW q \in ClientRec, q.transport = None,
         cl' = [cl EXCEPT ![c] = q], sock' = Closed(cl[c]), RestOK',
         \A s \in Sockets : frame'[s] \in {frame[s], NoFrame},
         TimerIsSafe(q), clientRef' # None, DropsAreReported',
         held' # None => (held' = c /\ Trying(q)) \/ (held' # c /\ held' = held)
  PROVE  WebInv'
  <1>1. sock' \in [Sockets -> SocketRec] BY ClosedFacts
  <1>2. Handover(c, q) BY ClosedFacts, OwnSocket DEF Handover, Free
  <1>3. FramesMatch' BY ClosedFacts, FramesKeep DEF Free
  <1>4. DownAfter(q) BY DEF DownAfter
  <1> QED BY <1>1, <1>2, <1>3, <1>4, ClientKeeps

\* scheduleReconnect() on a client that reconnects sets its timer, unless it has
\* been told to stay away; the client has no other unless a closed transport has
\* called it back (ws-client.ts:316-338).
LEMMA ScheduleFacts ==
  ASSUME NEW r \in ClientRec, r.status = "reconnecting", ~r.connecting, ~r.ping,
         TimerIsSafe(r), ~r.late => ~r.timer
  PROVE  LET q == ScheduleReconnect(r) IN
         q \in ClientRec /\ q.transport = r.transport /\ TimerIsSafe(q) /\ Trying(q)
         /\ q.intentional = r.intentional /\ q.late = r.late
  <1>0. StaleAfter \in Nat \ {0} BY ConnectAssumption DEF ConnectAssumption
  <1>1. CASE r.intentional BY <1>1 DEF ScheduleReconnect, Trying
  <1>2. CASE ~r.intentional
    <2> DEFINE n == IF r.count < StaleAfter THEN r.count + 1 ELSE r.count
               a == r.asked \/ Stale(r)
               m == IF r.timer THEN r.leaked + 1 ELSE r.leaked
    <2>0. r.count \in 0 .. StaleAfter /\ r.leaked \in Nat BY DEF ClientRec
    <2>1. n \in 0 .. StaleAfter /\ m \in Nat BY <1>0, <2>0
    <2>2. a \in BOOLEAN BY DEF Stale, ClientRec
    <2>3. ScheduleReconnect(r) = [r EXCEPT !.count = n, !.asked = a, !.timer = TRUE, !.leaked = m]
      BY <1>2 DEF ScheduleReconnect
    <2>m. ~r.late => m = 0 BY DEF TimerIsSafe
    <2> HIDE DEF n, a, m
    <2>4. ScheduleReconnect(r) \in ClientRec BY <2>1, <2>2, <2>3 DEF ClientRec
    <2>5. /\ ScheduleReconnect(r).timer /\ ScheduleReconnect(r).transport = r.transport
          /\ ScheduleReconnect(r).status = "reconnecting" /\ ~ScheduleReconnect(r).connecting
          /\ ~ScheduleReconnect(r).ping /\ ScheduleReconnect(r).leaked = m
          /\ ScheduleReconnect(r).intentional = r.intentional
          /\ ScheduleReconnect(r).late = r.late
      BY <2>3 DEF ClientRec
    <2> QED BY <1>2, <2>m, <2>4, <2>5 DEF TimerIsSafe, Trying
  <1> QED BY <1>1, <1>2

\* Whatever can still happen to a client happens after the first was made.
LEMMA Begun ==
  ASSUME WebInv
  PROVE  /\ held # None \/ manual # None \/ resolving => clientRef # None
         /\ \A s \in Sockets : sock[s].st # "free" => clientRef # None
         /\ \A s \in Sockets : frame[s] # NoFrame => clientRef # None
         /\ \A c \in Clients : cl[c].timer \/ cl[c].ping \/ cl[c].leaked # 0 => clientRef # None
  <1>1. held # None \/ manual # None \/ resolving => clientRef # None
    BY DEF WebInv, NothingYet
  <1>2. ASSUME NEW s \in Sockets, sock[s].st # "free", clientRef = None PROVE FALSE
    <2>1. sock[s].owner \in Clients /\ cl[sock[s].owner].transport = s /\ s # None
      BY <1>2, ConnectAssumption DEF WebInv, SocketsMatch, ConnectAssumption
    <2>2. cl[sock[s].owner] = Fresh("direct") BY <1>2, <2>1 DEF WebInv, NothingYet
    <2> QED BY <2>1, <2>2 DEF Fresh
  <1>3. ASSUME NEW c \in Clients, cl[c].timer \/ cl[c].ping \/ cl[c].leaked # 0, clientRef = None
        PROVE  FALSE
    BY <1>3 DEF WebInv, NothingYet, Fresh
  <1>4. \A s \in Sockets : frame[s] # NoFrame => clientRef # None BY DEF WebInv, NothingYet
  <1> QED BY <1>1, <1>2, <1>3, <1>4

\* A new client has nothing.
LEMMA FreshFacts ==
  ASSUME NEW rt \in Routes
  PROVE  /\ Fresh(rt) \in ClientRec /\ Fresh(rt).transport = None
         /\ TimerIsSafe(Fresh(rt)) /\ ~Fresh(rt).connecting /\ ~Fresh(rt).timer
         /\ Fresh(rt).leaked = 0
  <1>1. 0 \in 0 .. StaleAfter /\ 0 \in 0 .. MaxPending
    BY ConnectAssumption DEF ConnectAssumption
  <1> QED BY <1>1 DEF Fresh, ClientRec, Status, TimerIsSafe

\* A client that is disconnected has nothing and stays away (ws-client.ts:231-246).
LEMMA DisconnectedFacts ==
  ASSUME NEW r \in ClientRec, TimerIsSafe(r)
  PROVE  LET q == Disconnected(r) IN
         q \in ClientRec /\ q.transport = None /\ TimerIsSafe(q) /\ Trying(q) /\ q.intentional
         /\ (~q.late => q.leaked = 0)
  BY DEF Disconnected, ClientRec, Status, TimerIsSafe, Trying

-----------------------------------------------------------------------------
(***************************************************************************)
(* The events of a socket.                                                 *)
(***************************************************************************)
\* The facts about the owner of a socket that is not free.
LEMMA OwnerFacts ==
  ASSUME WebInv, NEW s \in Sockets, sock[s].st # "free"
  PROVE  LET c == sock[s].owner IN
         /\ c \in Clients /\ cl[c] \in ClientRec /\ cl[c].transport = s /\ s # None
         /\ TimerIsSafe(cl[c]) /\ (sock[s].st # "shut" /\ ~cl[c].late => ~cl[c].timer)
         /\ Closed(cl[c]) = [sock EXCEPT ![s] = Free]
  <1>1. sock[s].owner \in Clients /\ cl[sock[s].owner].transport = s
    BY DEF WebInv, SocketsMatch
  <1>2. s # None BY ConnectAssumption DEF ConnectAssumption
  <1> QED BY <1>1, <1>2, OwnSocket DEF Closed, TimerIsDown

\* onClose leaves its client with a timer or told to stay away (ws-client.ts:184-193).
LEMMA CalledBackFacts ==
  ASSUME NEW c, NEW r \in ClientRec, CalledBack(c, r), TimerIsSafe(r), ~r.late => ~r.timer,
         RestOK
  PROVE  \E q \in ClientRec :
           /\ cl' = [cl EXCEPT ![c] = q] /\ q.transport = r.transport
           /\ TimerIsSafe(q) /\ Trying(q) /\ q.intentional = r.intentional /\ q.late = r.late
           /\ resolving' \in BOOLEAN
  <1> DEFINE p == [r EXCEPT !.connecting = FALSE, !.ping = FALSE]
             u == [p EXCEPT !.status = "reconnecting"]
             q == IF p.intentional THEN [p EXCEPT !.status = "disconnected"]
                  ELSE ScheduleReconnect(u)
  <1>1. cl' = [cl EXCEPT ![c] = q] /\ resolving' = (resolving \/ Stale(p)) BY DEF CalledBack
  <1>2. /\ p \in ClientRec /\ ~p.connecting /\ ~p.ping /\ p.transport = r.transport
        /\ p.timer = r.timer /\ p.late = r.late /\ p.leaked = r.leaked
        /\ p.intentional = r.intentional
    BY DEF ClientRec
  <1> HIDE DEF p
  <1>3. /\ u \in ClientRec /\ u.status = "reconnecting" /\ ~u.connecting /\ ~u.ping
        /\ u.transport = r.transport /\ u.timer = r.timer /\ u.late = r.late
        /\ u.leaked = r.leaked /\ u.intentional = r.intentional
    BY <1>2 DEF ClientRec, Status
  <1> HIDE DEF u
  <1>4. TimerIsSafe(u) BY <1>3 DEF TimerIsSafe
  <1>5. q \in ClientRec /\ q.transport = r.transport /\ TimerIsSafe(q) /\ Trying(q)
        /\ q.intentional = r.intentional /\ q.late = r.late
    <2>1. CASE p.intentional
      BY <1>2, <2>1 DEF ClientRec, Status, TimerIsSafe, Trying
    <2>2. CASE ~p.intentional
      <3>1. q = ScheduleReconnect(u) BY <2>2
      <3> HIDE DEF q
      <3> QED BY <1>3, <1>4, <3>1, ScheduleFacts
    <2> QED BY <2>1, <2>2
  <1> HIDE DEF q
  <1>6. resolving' \in BOOLEAN
    <2>1. Stale(p) \in BOOLEAN BY DEF Stale
    <2> QED BY <1>1, <2>1
  <1> QED BY <1>1, <1>5, <1>6

\* The far end, or the network, ends a socket, and its transport is detached or not
\* (transport.ts:66-68, 207-209, 225-228).
LEMMA OnCloseKeeps ==
  ASSUME WebInv, NEW s \in Sockets, OnClose(s)
  PROVE  WebInv'
  <1> DEFINE c == sock[s].owner
             r == [cl[c] EXCEPT !.transport = IF @ = s THEN None ELSE @]
  <1>0. sock[s].st \notin {"free", "shut"} /\ RestOK BY TypeParts DEF OnClose, WebInv
  <1>1. /\ c \in Clients /\ cl[c] \in ClientRec /\ cl[c].transport = s /\ s # None
        /\ TimerIsSafe(cl[c]) /\ (~cl[c].late => ~cl[c].timer)
        /\ Closed(cl[c]) = [sock EXCEPT ![s] = Free]
    BY <1>0, OwnerFacts
  <1>2. \/ sock' = [sock EXCEPT ![s] = Free] /\ CalledBack(c, r)
        \/ sock' = [sock EXCEPT ![s].st = "shut"] /\ CalledBack(c, cl[c])
    BY DEF OnClose
  <1>3. UNCHANGED <<held, clientRef, manual, paired, netVars, frameVars, unreported, cut>>
    BY DEF OnClose
  <1>c. sock[s].owner = c OBVIOUS
  <1> HIDE DEF c
  <1>4. clientRef' # None /\ DropsAreReported' /\ frame' = frame
    BY <1>0, <1>3, Begun DEF WebInv, DropsAreReported, frameVars
  <1>5. CASE sock' = [sock EXCEPT ![s] = Free] /\ CalledBack(c, r)
    <2>1. r \in ClientRec /\ r.transport = None /\ r.timer = cl[c].timer /\ r.late = cl[c].late
          /\ r.leaked = cl[c].leaked /\ r.connecting = cl[c].connecting /\ r.ping = cl[c].ping
          /\ r.intentional = cl[c].intentional /\ r.status = cl[c].status
      BY <1>1 DEF ClientRec
    <2> HIDE DEF r
    <2>2. TimerIsSafe(r) BY <1>1, <2>1 DEF TimerIsSafe
    <2>3. PICK q \in ClientRec :
            /\ cl' = [cl EXCEPT ![c] = q] /\ q.transport = None
            /\ TimerIsSafe(q) /\ Trying(q) /\ resolving' \in BOOLEAN
      BY <1>0, <1>1, <1>5, <2>1, <2>2, CalledBackFacts
    <2>4. RestOK' BY <1>0, <1>3, <2>3 DEF RestOK, netVars, frameVars
    <2>5. held' # None => (held' = c /\ Trying(q)) \/ (held' # c /\ held' = held)
      BY <1>3, <2>3
    <2> QED BY <1>1, <1>4, <1>5, <2>3, <2>4, <2>5, LetGoKeeps
  <1>6. CASE sock' = [sock EXCEPT ![s].st = "shut"] /\ CalledBack(c, cl[c])
    <2>1. PICK q \in ClientRec :
            /\ cl' = [cl EXCEPT ![c] = q] /\ q.transport = s
            /\ TimerIsSafe(q) /\ Trying(q) /\ resolving' \in BOOLEAN
      BY <1>0, <1>1, <1>6, CalledBackFacts
    <2>2. RestOK' BY <1>0, <1>3, <2>1 DEF RestOK, netVars, frameVars
    <2>3. held' # None => (held' = c /\ Trying(q)) \/ (held' # c /\ held' = held)
      BY <1>3, <2>1
    <2>4. /\ sock' \in [Sockets -> SocketRec] /\ sock'[s].st = "shut"
          /\ sock'[s].owner = c
          /\ \A x \in Sockets \ {s} : sock'[x] = sock[x]
      BY <1>c, <1>6, OwnSocket, <1>1 DEF SocketRec
    <2>5. Handover(c, q) BY <1>0, <1>1, <1>c, <2>1, <2>4, OwnSocket DEF Handover
    <2>6. FramesMatch' BY <1>0, <1>4, <1>c, <2>4, FramesKeep
    <2>7. DownAfter(q) BY <2>1, <2>4 DEF DownAfter
    <2> QED BY <1>1, <1>4, <2>1, <2>2, <2>3, <2>4, <2>5, <2>6, <2>7, ClientKeeps
  <1> QED BY <1>2, <1>5, <1>6

\* A step that only takes up or drops a frame keeps the invariant.
LEMMA FrameOnlyKeeps ==
  ASSUME WebInv, NEW s \in Sockets, FrameArrives(s) \/ FrameIgnored(s)
  PROVE  WebInv'
  <1>0. RestOK /\ sock \in [Sockets -> SocketRec] /\ MaxSlow \in Nat
    BY TypeParts, ConnectAssumption DEF WebInv, ConnectAssumption
  <1>1. CASE FrameArrives(s)
    <2>1. PICK k \in {"bad", "yes", "no"} :
            /\ sock[s].st \in {"open", "live"}
            /\ frame' = [frame EXCEPT ![s] = [kind |-> k, of |-> sock[s].owner]]
      BY <1>1 DEF FrameArrives
    <2>2. sock[s].owner \in Clients /\ None \notin Clients BY <2>1, OwnerFacts, OwnSocket
    <2>3. slow' \in 0 .. MaxSlow /\ frame' \in [Sockets -> FrameRec]
      <3>1. slow' \in 0 .. MaxSlow BY <1>0, <1>1 DEF FrameArrives, RestOK
      <3>2. [kind |-> k, of |-> sock[s].owner] \in FrameRec BY <2>2 DEF FrameRec
      <3> QED BY <1>0, <2>1, <3>1, <3>2 DEF RestOK
    <2>4. RestOK' /\ DropsAreReported'
      BY <1>0, <1>1, <2>3 DEF FrameArrives, RestOK, netVars, WebInv, DropsAreReported
    <2>5. FramesMatch'
      <3>1. \A x \in Sockets \ {s} : frame'[x] = frame[x] BY <1>0, <2>1 DEF RestOK
      <3>2. frame'[s].kind = k /\ frame'[s].of = sock[s].owner BY <1>0, <2>1 DEF RestOK
      <3>3. sock' = sock BY <1>1 DEF FrameArrives
      <3> QED BY <2>2, <3>1, <3>2, <3>3 DEF WebInv, FramesMatch
    <2>6. clientRef # None BY <2>1, Begun
    <2> QED BY <1>0, <1>1, <2>4, <2>5, <2>6, QuietKeeps DEF FrameArrives
  <1>2. CASE FrameIgnored(s)
    <2>1. frame' = [frame EXCEPT ![s] = NoFrame] /\ sock' = sock BY <1>2 DEF FrameIgnored
    <2>2. NoFrame \in FrameRec BY DEF NoFrame, FrameRec
    <2>3. RestOK' /\ DropsAreReported'
      BY <1>0, <1>2, <2>1, <2>2 DEF FrameIgnored, RestOK, netVars, WebInv, DropsAreReported
    <2>4. FramesMatch'
      <3>1. \A x \in Sockets : frame'[x] \in {frame[x], NoFrame} BY <1>0, <2>1 DEF RestOK
      <3>2. ASSUME NEW x \in Sockets, sock'[x].st # "free", frame'[x] # NoFrame
            PROVE  sock[x].st # "free" /\ sock'[x].owner = sock[x].owner
        BY <2>1, <3>2
      <3> QED BY <3>1, <3>2, FramesKeep
    <2>5. frame[s] # NoFrame BY <1>2 DEF FrameIgnored, NoFrame
    <2>6. clientRef # None BY <2>5, Begun
    <2> QED BY <1>0, <1>2, <2>3, <2>4, <2>6, QuietKeeps DEF FrameIgnored
  <1> QED BY <1>1, <1>2

\* A frame that cannot be opened closes its transport, or calls back a client that
\* has already been told (transport.ts:248-255).
LEMMA FrameFailsKeeps ==
  ASSUME WebInv, NEW s \in Sockets, FrameFails(s)
  PROVE  WebInv'
  <1> DEFINE c == frame[s].of
             v == IF sock[s].st = "free" THEN cl[c] ELSE [cl[c] EXCEPT !.transport = None]
             r == [v EXCEPT !.late = @ \/ sock[s].st \in {"free", "shut"}]
  <1>0. RestOK /\ sock \in [Sockets -> SocketRec] BY TypeParts DEF WebInv
  <1>1. /\ frame' = [frame EXCEPT ![s] = NoFrame] /\ sock' = [sock EXCEPT ![s] = Free]
        /\ CalledBack(c, r) /\ frame[s].kind = "bad"
        /\ UNCHANGED <<held, clientRef, manual, paired, netVars, slow, unreported, cut>>
    BY DEF FrameFails
  <1>2. c \in Clients /\ (sock[s].st # "free" => c = sock[s].owner)
    BY <1>0, <1>1 DEF RestOK, FrameRec, WebInv, FramesMatch
  <1> HIDE DEF c
  <1>3. /\ cl[c] \in ClientRec /\ TimerIsSafe(cl[c])
        /\ sock[s].st # "free" => cl[c].transport = s /\ Closed(cl[c]) = [sock EXCEPT ![s] = Free]
        /\ sock[s].st \notin {"free", "shut"} /\ ~cl[c].late => ~cl[c].timer
        /\ sock[s].st = "free" => cl[c].transport # s
    BY <1>2, OwnSocket, OwnerFacts
  <1>4. /\ v \in ClientRec /\ v.timer = cl[c].timer /\ v.late = cl[c].late
        /\ v.leaked = cl[c].leaked /\ v.connecting = cl[c].connecting /\ v.ping = cl[c].ping
        /\ v.intentional = cl[c].intentional /\ v.status = cl[c].status
        /\ v.transport = IF sock[s].st = "free" THEN cl[c].transport ELSE None
    BY <1>3 DEF ClientRec
  <1> HIDE DEF v
  <1>5. /\ r \in ClientRec /\ r.timer = cl[c].timer
        /\ r.late = (cl[c].late \/ sock[s].st \in {"free", "shut"})
        /\ r.leaked = cl[c].leaked /\ r.connecting = cl[c].connecting /\ r.ping = cl[c].ping
        /\ r.intentional = cl[c].intentional /\ r.status = cl[c].status
        /\ r.transport = IF sock[s].st = "free" THEN cl[c].transport ELSE None
    <2>1. (v.late \/ sock[s].st \in {"free", "shut"}) \in BOOLEAN OBVIOUS
    <2> QED BY <1>4, <2>1 DEF ClientRec
  <1> HIDE DEF r
  <1>6. TimerIsSafe(r) /\ (~r.late => ~r.timer) BY <1>3, <1>5 DEF TimerIsSafe
  <1>7. PICK q \in ClientRec :
          /\ cl' = [cl EXCEPT ![c] = q] /\ q.transport = r.transport
          /\ TimerIsSafe(q) /\ Trying(q) /\ q.late = r.late /\ resolving' \in BOOLEAN
    BY <1>0, <1>1, <1>5, <1>6, CalledBackFacts
  <1>8. NoFrame \in FrameRec /\ Free \in SocketRec
    BY DEF NoFrame, FrameRec, Free, SocketRec, Routes
  <1>9. RestOK' /\ DropsAreReported'
    BY <1>0, <1>1, <1>7, <1>8 DEF RestOK, netVars, WebInv, DropsAreReported
  <1>10. frame[s] # NoFrame BY <1>1 DEF NoFrame
  <1>11. clientRef' # None BY <1>1, <1>10, Begun
  <1>12. \A x \in Sockets : frame'[x] \in {frame[x], NoFrame} BY <1>0, <1>1 DEF RestOK
  <1>13. held' # None => (held' = c /\ Trying(q)) \/ (held' # c /\ held' = held)
    BY <1>1, <1>7
  <1>14. CASE sock[s].st # "free"
    <2>1. q.transport = None /\ sock' = Closed(cl[c]) BY <1>1, <1>3, <1>5, <1>7, <1>14
    <2> QED BY <1>2, <1>7, <1>9, <1>11, <1>12, <1>13, <2>1, LetGoKeeps
  <1>15. CASE sock[s].st = "free"
    <2>1. /\ q.transport = cl[c].transport /\ q.late /\ cl[c].transport # s
      BY <1>3, <1>5, <1>7, <1>15
    <2>2. sock' \in [Sockets -> SocketRec] /\ sock'[s] = Free
          /\ \A x \in Sockets \ {s} : sock'[x] = sock[x]
      BY <1>0, <1>1, <1>8
    <2>3. sock[s].owner = None BY <1>2, <1>15, OwnSocket
    <2>4. Handover(c, q)
      BY <1>2, <1>15, <2>1, <2>2, <2>3, OwnSocket DEF Handover, Free
    <2>5. FramesMatch'
      <3>1. ASSUME NEW x \in Sockets, sock'[x].st # "free", frame'[x] # NoFrame
            PROVE  sock[x].st # "free" /\ sock'[x].owner = sock[x].owner
        BY <2>2, <3>1 DEF Free
      <3> QED BY <1>12, <3>1, FramesKeep
    <2>6. DownAfter(q) BY <2>1 DEF DownAfter
    <2> QED BY <1>2, <1>7, <1>9, <1>11, <1>13, <2>2, <2>4, <2>5, <2>6, ClientKeeps
  <1> QED BY <1>14, <1>15

\* The token is sent, and nothing else changes.
LEMMA OnOpenKeeps ==
  ASSUME WebInv, NEW s \in Sockets, OnOpen(s)
  PROVE  WebInv'
  <1>1. sock \in [Sockets -> SocketRec] BY TypeParts DEF WebInv
  <1>2. sock' \in [Sockets -> SocketRec] BY <1>1 DEF OnOpen, SocketRec
  <1>3. \A x \in Sockets : sock'[x].owner = sock[x].owner
                           /\ (sock'[x].st = "free" <=> sock[x].st = "free")
                           /\ (sock'[x].st = "shut" <=> sock[x].st = "shut")
    BY <1>1 DEF OnOpen, SocketRec
  <1>4. RestOK' /\ DropsAreReported' /\ frame' = frame
    BY TypeParts DEF WebInv, RestOK, OnOpen, netVars, frameVars, DropsAreReported
  <1>5. FramesMatch' BY <1>3, <1>4, FramesKeep
  <1> QED BY <1>2, <1>3, <1>4, <1>5, QuietKeeps DEF OnOpen

\* What delivering a message does to the client and its socket before the message
\* is looked at (transport.ts:245-247).
LEMMA DeliveredFacts ==
  ASSUME WebInv, NEW s \in Sockets, sock[s].st \in {"open", "shut"}
  PROVE  LET c == sock[s].owner
             r == Delivered(s, c)
         IN  /\ c \in Clients /\ r \in ClientRec /\ s # None
             /\ r.transport = IF sock[s].st = "shut" THEN None ELSE s
             /\ ~r.late => ~r.timer /\ r.leaked = 0
             /\ r.intentional = cl[c].intentional
             /\ clientRef # None
  <1> DEFINE c == sock[s].owner
             r == Delivered(s, c)
  <1>1. /\ c \in Clients /\ cl[c] \in ClientRec /\ cl[c].transport = s /\ s # None
        /\ TimerIsSafe(cl[c]) /\ (sock[s].st # "shut" /\ ~cl[c].late => ~cl[c].timer)
        /\ clientRef # None
    BY OwnerFacts, Begun
  <1>2. CASE sock[s].st = "shut"
    <2>1. r = [cl[c] EXCEPT !.transport = None, !.late = TRUE] BY <1>2 DEF Delivered
    <2> HIDE DEF c, r
    <2>2. /\ r \in ClientRec /\ r.transport = None /\ r.late
          /\ r.intentional = cl[c].intentional
      BY <1>1, <2>1 DEF ClientRec
    <2> QED BY <1>1, <1>2, <2>2 DEF c, r
  <1>3. CASE sock[s].st = "open"
    <2>1. r = cl[c] BY <1>3 DEF Delivered
    <2> HIDE DEF c, r
    <2>2. ~r.late => ~r.timer /\ r.leaked = 0 BY <1>1, <1>3, <2>1 DEF TimerIsSafe
    <2> QED BY <1>1, <1>3, <2>1, <2>2 DEF c, r
  <1> QED BY <1>2, <1>3

\* The socket that authenticates is the one its client uses, and so the client has
\* no timer unless a closed transport has called it back (ws-client.ts:203-212).
LEMMA AuthSuccessKeeps ==
  ASSUME WebInv, NEW s \in Sockets, AuthSuccess(s)
  PROVE  WebInv'
  <1> DEFINE c == sock[s].owner
             r == Delivered(s, c)
             q == [r EXCEPT !.connecting = FALSE, !.status = "connected", !.count = 0,
                            !.asked = FALSE, !.ping = TRUE, !.pending = 0]
  <1>0. sock[s].st \in {"open", "shut"} /\ RestOK /\ sock \in [Sockets -> SocketRec]
    BY TypeParts DEF AuthSuccess, Receives, WebInv
  <1>1. /\ c \in Clients /\ r \in ClientRec /\ s # None /\ (~r.late => ~r.timer /\ r.leaked = 0)
        /\ r.transport = IF sock[s].st = "shut" THEN None ELSE s
        /\ clientRef # None
    BY <1>0, DeliveredFacts
  <1>2. /\ cl' = [cl EXCEPT ![c] = q] /\ frame' = [frame EXCEPT ![s] = NoFrame]
        /\ sock' = [sock EXCEPT ![s] = IF @.st = "shut" THEN Free ELSE [@ EXCEPT !.st = "live"]]
        /\ UNCHANGED <<held, clientRef, manual, resolving, paired, netVars, slow, unreported, cut>>
    BY DEF AuthSuccess
  <1>c. sock[s].owner = c /\ Closed(cl[c]) = [sock EXCEPT ![s] = Free]
    BY <1>0, OwnerFacts
  <1> HIDE DEF c, r
  <1>3. 0 \in 0 .. StaleAfter /\ 0 \in 0 .. MaxPending
    BY ConnectAssumption DEF ConnectAssumption
  <1>4. /\ q \in ClientRec /\ q.transport = r.transport /\ q.status = "connected"
        /\ (~q.late => ~q.timer /\ q.leaked = 0)
    BY <1>1, <1>3 DEF ClientRec, Status
  <1> HIDE DEF q
  <1>5. TimerIsSafe(q) /\ Trying(q) BY <1>4 DEF TimerIsSafe, Trying
  <1>6. NoFrame \in FrameRec BY DEF NoFrame, FrameRec
  <1>7. RestOK' /\ DropsAreReported' /\ clientRef' # None
    BY <1>0, <1>1, <1>2, <1>6 DEF WebInv, RestOK, netVars, DropsAreReported
  <1>8. held' # None => (held' = c /\ Trying(q)) \/ (held' # c /\ held' = held)
    BY <1>2, <1>5
  <1>9. \A x \in Sockets : frame'[x] \in {frame[x], NoFrame} BY <1>0, <1>2 DEF RestOK
  <1>10. CASE sock[s].st = "shut"
    <2>1. sock' = Closed(cl[c]) /\ q.transport = None BY <1>0, <1>1, <1>2, <1>4, <1>c, <1>10
    <2> QED BY <1>1, <1>2, <1>4, <1>5, <1>7, <1>8, <1>9, <2>1, LetGoKeeps
  <1>11. CASE sock[s].st = "open"
    <2>1. sock' \in [Sockets -> SocketRec] /\ sock'[s].owner = c /\ sock'[s].st = "live"
          /\ \A x \in Sockets \ {s} : sock'[x] = sock[x]
      BY <1>0, <1>2, <1>c, <1>11 DEF SocketRec
    <2>2. q.transport = s BY <1>1, <1>4, <1>11
    <2>3. Handover(c, q) BY <1>1, <1>c, <1>11, <2>1, <2>2, OwnSocket DEF Handover
    <2>4. FramesMatch'
      <3>1. ASSUME NEW x \in Sockets, sock'[x].st # "free", frame'[x] # NoFrame
            PROVE  sock[x].st # "free" /\ sock'[x].owner = sock[x].owner
        BY <1>c, <1>11, <2>1, <3>1
      <3> QED BY <1>9, <3>1, FramesKeep
    <2>5. DownAfter(q) BY <1>4 DEF DownAfter
    <2> QED BY <1>1, <1>2, <1>4, <1>5, <1>7, <1>8, <2>1, <2>3, <2>4, <2>5, ClientKeeps
  <1> QED BY <1>0, <1>10, <1>11

\* A client that was refused at the machine stays away (ws-client.ts:213-219).
LEMMA UnapprovedKeeps ==
  ASSUME WebInv, NEW s \in Sockets, Unapproved(s)
  PROVE  WebInv'
  <1> DEFINE c == sock[s].owner
             r == Delivered(s, c)
             q == [r EXCEPT !.intentional = TRUE, !.connecting = FALSE,
                            !.transport = None, !.status = "disconnected"]
  <1>0. sock[s].st \in {"open", "shut"} /\ RestOK BY TypeParts DEF Unapproved, Receives, WebInv
  <1>1. /\ c \in Clients /\ r \in ClientRec /\ (~r.late => ~r.timer /\ r.leaked = 0)
        /\ clientRef # None /\ Closed(cl[c]) = [sock EXCEPT ![s] = Free]
    BY <1>0, DeliveredFacts, OwnerFacts
  <1>2. cl' = [cl EXCEPT ![c] = q] /\ sock' = Closed(cl[c])
        /\ frame' = [frame EXCEPT ![s] = NoFrame]
        /\ UNCHANGED <<held, clientRef, manual, resolving, paired, netVars, slow, unreported, cut>>
    BY <1>1 DEF Unapproved
  <1> HIDE DEF c, r
  <1>4. q \in ClientRec /\ q.transport = None /\ q.intentional
        /\ (~q.late => ~q.timer /\ q.leaked = 0)
    BY <1>1 DEF ClientRec, Status
  <1> HIDE DEF q
  <1>5. TimerIsSafe(q) /\ Trying(q) BY <1>4 DEF TimerIsSafe, Trying
  <1>6. NoFrame \in FrameRec BY DEF NoFrame, FrameRec
  <1>8. RestOK' /\ DropsAreReported' /\ clientRef' # None
    BY <1>0, <1>1, <1>2, <1>6 DEF WebInv, RestOK, netVars, DropsAreReported
  <1>9. held' # None => (held' = c /\ Trying(q)) \/ (held' # c /\ held' = held)
    BY <1>2, <1>5
  <1>10. \A x \in Sockets : frame'[x] \in {frame[x], NoFrame} BY <1>0, <1>2 DEF RestOK
  <1> QED BY <1>1, <1>2, <1>4, <1>5, <1>8, <1>9, <1>10, LetGoKeeps

\* The page is left, and nothing of it remains.
LEMMA DeadCredentialKeeps ==
  ASSUME WebInv, NEW s \in Sockets, DeadCredential(s)
  PROVE  WebInv'
  <1>1. "direct" \in Routes BY DEF Routes
  <1>2. Free \in SocketRec BY DEF Free, SocketRec, Routes
  <1>3. /\ cl' \in [Clients -> ClientRec] /\ sock' \in [Sockets -> SocketRec]
        /\ \A c \in Clients : cl'[c] = Fresh("direct")
        /\ \A x \in Sockets : sock'[x] = Free /\ frame'[x] = NoFrame
    BY <1>1, <1>2, FreshFacts DEF DeadCredential
  <1>4. held' = None /\ manual' = None /\ resolving' = FALSE BY DEF DeadCredential
  <1>5. RestOK'
    <2>1. NoFrame \in FrameRec BY DEF NoFrame, FrameRec
    <2>2. frame' \in [Sockets -> FrameRec] BY <2>1 DEF DeadCredential
    <2> QED BY <2>2, TypeParts DEF WebInv, RestOK, DeadCredential, netVars
  <1>6. TypeOK' BY <1>3, <1>5 DEF TypeOK, RestOK, ClientRec, SocketRec, FrameRec
  <1>7. SocketsMatch'
    BY <1>1, <1>3, FreshFacts DEF SocketsMatch, Free
  <1>8. Timers' /\ FramesMatch'
    BY <1>1, <1>3, FreshFacts DEF Timers, TimerIsDown, FramesMatch, NoFrame
  <1>9. HeldTries' /\ NothingYet' BY <1>3, <1>4 DEF HeldTries, NothingYet
  <1>10. DropsAreReported' BY DEF DeadCredential, WebInv, DropsAreReported
  <1> QED BY <1>6, <1>7, <1>8, <1>9, <1>10 DEF WebInv

-----------------------------------------------------------------------------
(***************************************************************************)
(* Timers, the hook, the buttons and the routes.                           *)
(***************************************************************************)
\* The client changes and its socket does not.
LEMMA StayKeeps ==
  ASSUME WebInv, NEW c \in Clients, NEW q \in ClientRec, q.transport = cl[c].transport,
         cl' = [cl EXCEPT ![c] = q], sock' = sock, frame' = frame, RestOK', TimerIsSafe(q),
         q.late = cl[c].late, q.timer = cl[c].timer,
         clientRef' # None, DropsAreReported', held' = held, held = c => Trying(q)
  PROVE  WebInv'
  <1>1. Handover(c, q) BY OwnSocket DEF Handover
  <1>2. held' # None => (held' = c /\ Trying(q)) \/ (held' # c /\ held' = held) OBVIOUS
  <1>3. sock' \in [Sockets -> SocketRec] BY OwnSocket
  <1>4. FramesMatch' BY FramesKeep
  <1>5. DownAfter(q) BY OwnSocket DEF DownAfter, TimerIsDown
  <1> QED BY <1>1, <1>2, <1>3, <1>4, <1>5, ClientKeeps

\* setTransport() (ws-client.ts:305-314).
LEMMA SetTransportKeeps ==
  ASSUME WebInv, NEW c \in Clients, NEW rt \in Routes, SetTransport(c, rt), RestOK',
         clientRef' # None, DropsAreReported', held' = held, frame' = frame
  PROVE  WebInv'
  <1> DEFINE r == [cl[c] EXCEPT !.route = rt, !.asked = FALSE]
             q == [r EXCEPT !.connecting = FALSE]
  <1>1. /\ r \in ClientRec /\ r.transport = cl[c].transport
        /\ r.timer = cl[c].timer /\ r.connecting = cl[c].connecting
        /\ r.status = cl[c].status /\ r.intentional = cl[c].intentional
        /\ r.ping = cl[c].ping /\ r.late = cl[c].late /\ r.leaked = cl[c].leaked
    BY OwnSocket DEF ClientRec
  <1>2. IF r.intentional THEN cl' = [cl EXCEPT ![c] = r] /\ sock' = sock ELSE Connect(c, q)
    BY DEF SetTransport
  <1> HIDE DEF r
  <1>3. q \in ClientRec /\ q.transport = cl[c].transport /\ (~q.late => q.leaked = 0)
    BY <1>1, OwnSocket DEF ClientRec, TimerIsSafe
  <1> HIDE DEF q
  <1>4. CASE r.intentional
    <2>1. TimerIsSafe(r) /\ Trying(r) BY <1>1, <1>4, OwnSocket DEF TimerIsSafe, Trying
    <2> QED BY <1>1, <1>2, <1>4, <2>1, StayKeeps
  <1>5. CASE ~r.intentional BY <1>2, <1>3, <1>5, ConnectKeeps
  <1> QED BY <1>4, <1>5

\* reconnectNow() (ws-client.ts:277-281).
LEMMA ReconnectNowKeeps ==
  ASSUME WebInv, NEW c \in Clients, ReconnectNow(c), RestOK',
         clientRef' # None, DropsAreReported', held' = held, frame' = frame
  PROVE  WebInv'
  <1>0. cl[c] \in ClientRec BY OwnSocket
  <1>1. CASE cl[c].intentional
    <2>1. cl' = cl /\ sock' = sock BY <1>1 DEF ReconnectNow
    <2>2. cl' = [cl EXCEPT ![c] = cl[c]] BY <2>1, OwnSocket
    <2>3. TimerIsSafe(cl[c]) /\ Trying(cl[c]) BY <1>1, OwnSocket DEF Trying
    <2> QED BY <1>0, <2>1, <2>2, <2>3, StayKeeps
  <1>2. CASE ~cl[c].intentional
    <2>1. Connect(c, cl[c]) BY <1>2 DEF ReconnectNow
    <2> QED BY <1>0, <2>1, OwnSocket, ConnectKeeps DEF TimerIsSafe
  <1> QED BY <1>1, <1>2

\* disconnect() (ws-client.ts:231-246).
LEMMA DisconnectKeeps ==
  ASSUME WebInv, NEW c \in Clients, Disconnect(c), RestOK',
         clientRef' # None, DropsAreReported', held' = held, frame' = frame
  PROVE  WebInv'
  <1> DEFINE q == Disconnected(cl[c])
  <1>1. q \in ClientRec /\ q.transport = None /\ TimerIsSafe(q) /\ Trying(q)
    BY OwnSocket, DisconnectedFacts
  <1>2. cl' = [cl EXCEPT ![c] = q] /\ sock' = Closed(cl[c]) BY DEF Disconnect
  <1> HIDE DEF q
  <1>3. held' # None => (held' = c /\ Trying(q)) \/ (held' # c /\ held' = held) BY <1>1
  <1> QED BY <1>1, <1>2, <1>3, LetGoKeeps

\* The timers of a reconnect, and of a connection that no longer answers
\* (ws-client.ts:329-332, 345-372).
LEMMA TimersKeep ==
  ASSUME WebInv, NEW c \in Clients, Reconnect(c) \/ Overwritten(c) \/ DropConnection(c)
  PROVE  WebInv'
  <1>0. RestOK BY TypeParts DEF WebInv
  <1>1. CASE Reconnect(c)
    <2> DEFINE r == [cl[c] EXCEPT !.timer = FALSE]
    <2>1. r \in ClientRec /\ r.transport = cl[c].transport /\ (~r.late => r.leaked = 0)
      BY OwnSocket DEF ClientRec, TimerIsSafe
    <2>2. Connect(c, r) BY <1>1 DEF Reconnect
    <2> HIDE DEF r
    <2>3. RestOK' /\ DropsAreReported' /\ clientRef' # None /\ held' = held /\ frame' = frame
      BY <1>0, <1>1, Begun DEF Reconnect, RestOK, netVars, frameVars, WebInv, DropsAreReported
    <2> QED BY <2>1, <2>2, <2>3, ConnectKeeps
  <1>2. CASE Overwritten(c)
    <2> DEFINE n == IF cl[c].timer THEN cl[c].leaked ELSE cl[c].leaked - 1
               r == [cl[c] EXCEPT !.timer = FALSE, !.leaked = n]
    <2>1. cl[c] \in ClientRec /\ cl[c].leaked \in Nat /\ cl[c].leaked > 0 /\ cl[c].late
      BY <1>2, OwnSocket DEF Overwritten, ClientRec, TimerIsSafe
    <2>2. n \in Nat BY <2>1
    <2>3. Connect(c, r) BY <1>2 DEF Overwritten
    <2> HIDE DEF n
    <2>4. r \in ClientRec /\ r.transport = cl[c].transport /\ r.late
      BY <2>1, <2>2 DEF ClientRec
    <2> HIDE DEF r
    <2>5. RestOK' /\ DropsAreReported' /\ clientRef' # None /\ held' = held /\ frame' = frame
      BY <1>0, <1>2, <2>1, Begun
      DEF Overwritten, RestOK, netVars, frameVars, WebInv, DropsAreReported
    <2> QED BY <2>3, <2>4, <2>5, ConnectKeeps
  <1>3. CASE DropConnection(c)
    <2> DEFINE r == [cl[c] EXCEPT !.transport = None, !.connecting = FALSE, !.ping = FALSE,
                                  !.status = "reconnecting"]
               q == ScheduleReconnect(r)
    <2>1. /\ r \in ClientRec /\ r.transport = None /\ ~r.connecting /\ r.status = "reconnecting"
          /\ ~r.ping /\ r.timer = cl[c].timer /\ r.intentional = cl[c].intentional
          /\ r.late = cl[c].late /\ r.leaked = cl[c].leaked
      <3>1. cl[c] \in ClientRec BY OwnSocket
      <3>2. r \in ClientRec BY <3>1 DEF ClientRec, Status
      <3> QED BY <3>1, <3>2 DEF ClientRec
    <2>2. cl[c].ping /\ sock' = Closed(cl[c]) /\ cl' = [cl EXCEPT ![c] = q]
          /\ resolving' = (resolving \/ Stale(r))
          /\ UNCHANGED <<held, clientRef, manual, paired, netVars, frameVars, unreported, cut>>
      BY <1>3 DEF DropConnection
    <2> HIDE DEF r
    <2>3. TimerIsSafe(r) /\ (~r.late => ~r.timer) BY <2>1, <2>2, OwnSocket DEF TimerIsSafe
    <2>4. q \in ClientRec /\ q.transport = None /\ TimerIsSafe(q) /\ Trying(q)
      BY <2>1, <2>3, ScheduleFacts
    <2> HIDE DEF q
    <2>5. RestOK'
      <3>1. Stale(r) \in BOOLEAN BY DEF Stale
      <3>2. resolving' \in BOOLEAN BY <2>2, <3>1
      <3> QED BY <1>0, <2>2, <3>2 DEF RestOK, netVars, frameVars
    <2>6. clientRef' # None /\ DropsAreReported' /\ frame' = frame
      BY <2>2, Begun DEF WebInv, DropsAreReported, frameVars
    <2>7. held' # None => (held' = c /\ Trying(q)) \/ (held' # c /\ held' = held)
      BY <2>2, <2>4
    <2> QED BY <2>2, <2>4, <2>5, <2>6, <2>7, LetGoKeeps
  <1> QED BY <1>1, <1>2, <1>3

\* send(): what is discarded past the limit is reported (ws-client.ts:248-275).
LEMMA SendKeeps ==
  ASSUME WebInv, Send
  PROVE  WebInv'
  <1>0. RestOK /\ unreported = 0 BY TypeParts DEF WebInv, DropsAreReported
  <1>1. held \in Clients BY <1>0 DEF Send, RestOK
  <1>2. cl[held].pending \in 0 .. MaxPending /\ MaxPending \in Nat \ {0}
    BY <1>1, OwnSocket, ConnectAssumption DEF ClientRec, ConnectAssumption
  <1>3. /\ UNCHANGED <<sock, held, clientRef, manual, resolving, paired, netVars, frameVars, cut>>
        /\ clientRef' # None
    BY Begun DEF Send, frameVars
  <1>4. CASE UNCHANGED <<cl, unreported>>
    <2>1. RestOK' /\ DropsAreReported' /\ frame' = frame
      BY <1>0, <1>3, <1>4 DEF RestOK, netVars, frameVars, DropsAreReported
    <2>2. sock' \in [Sockets -> SocketRec] BY <1>3, TypeParts DEF WebInv
    <2>3. FramesMatch' BY <1>3, <2>1, FramesKeep
    <2> QED BY <1>3, <1>4, <2>1, <2>2, <2>3, QuietKeeps
  <1>5. CASE ~UNCHANGED <<cl, unreported>>
    <2> DEFINE n == cl[held].pending + 1
               q == [cl[held] EXCEPT !.pending = Kept(n)]
    <2>1. /\ cl' = [cl EXCEPT ![held].pending = Kept(n)]
          /\ unreported' = IF n > MaxPending THEN unreported + (n - Kept(n)) - Dropped(n)
                           ELSE unreported
      BY <1>5 DEF Send
    <2>2. Kept(n) \in 0 .. MaxPending /\ unreported' = 0
      BY <1>0, <1>2, <2>1 DEF Kept, Dropped
    <2>3. cl' = [cl EXCEPT ![held] = q] BY <1>1, <2>1, OwnSocket
    <2>4. /\ q \in ClientRec /\ q.transport = cl[held].transport
          /\ q.timer = cl[held].timer /\ q.connecting = cl[held].connecting
          /\ q.status = cl[held].status /\ q.intentional = cl[held].intentional
          /\ q.ping = cl[held].ping /\ q.late = cl[held].late /\ q.leaked = cl[held].leaked
      BY <1>1, <2>2, OwnSocket DEF ClientRec
    <2> HIDE DEF n, q
    <2>5. TimerIsSafe(q) /\ Trying(q)
      BY <1>1, <2>4, OwnSocket, ConnectAssumption
      DEF TimerIsSafe, Trying, WebInv, HeldTries, ConnectAssumption
    <2>6. RestOK' /\ DropsAreReported' /\ frame' = frame
      BY <1>0, <1>3, <2>2 DEF RestOK, netVars, frameVars, DropsAreReported
    <2> QED BY <1>1, <1>3, <2>3, <2>4, <2>5, <2>6, StayKeeps
  <1> QED BY <1>4, <1>5

\* The hook makes a client (use-websocket.ts:437-504).
LEMMA MountKeeps ==
  ASSUME WebInv, Mount
  PROVE  WebInv'
  <1>1. PICK rt \in Routes :
          LET c == CHOOSE x \in Unused : TRUE IN
          /\ paired \/ rt = "direct"
          /\ held' = c /\ clientRef' = c
          /\ Connect(c, Fresh(rt))
    BY DEF Mount
  <1> DEFINE c == CHOOSE x \in Unused : TRUE
  <1>2. c \in Unused BY DEF Mount
  <1>3. held' = c /\ clientRef' = c /\ Connect(c, Fresh(rt)) BY <1>1
  <1> HIDE DEF c
  <1>4. c \in Clients /\ \A s \in Sockets : sock[s].owner # c BY <1>2 DEF Unused
  <1>5. cl[c].transport = None BY <1>4, OwnSocket
  <1>6. RestOK' /\ DropsAreReported' /\ frame' = frame /\ clientRef' # None
    BY <1>3, <1>4, TypeParts, OwnSocket DEF WebInv, RestOK, Mount, netVars, frameVars, DropsAreReported
  <1> QED BY <1>3, <1>4, <1>5, <1>6, FreshFacts, ConnectKeeps

\* The hook lets its client go (relay-registry.ts:92-99).
LEMMA UnmountKeeps ==
  ASSUME WebInv, Unmount
  PROVE  WebInv'
  <1> DEFINE r == IF Forgotten(held) THEN Fresh("direct") ELSE cl[held]
             q == Disconnected(r)
  <1>0. RestOK /\ held \in Clients BY TypeParts DEF WebInv, RestOK, Unmount
  <1>1. r \in ClientRec /\ TimerIsSafe(r)
    <2>1. "direct" \in Routes BY DEF Routes
    <2> QED BY <1>0, <2>1, OwnSocket, FreshFacts
  <1>2. cl' = [cl EXCEPT ![held] = q] /\ sock' = Closed(cl[held]) /\ held' = None
        /\ UNCHANGED <<clientRef, manual, resolving, paired, netVars, frameVars, unreported, cut>>
    BY DEF Unmount
  <1> HIDE DEF r
  <1>3. q \in ClientRec /\ q.transport = None /\ TimerIsSafe(q) BY <1>1, DisconnectedFacts
  <1> HIDE DEF q
  <1>4. RestOK' /\ DropsAreReported' /\ frame' = frame
    BY <1>0, <1>2 DEF WebInv, RestOK, netVars, frameVars, DropsAreReported
  <1>5. clientRef' # None BY <1>2, Begun DEF Unmount
  <1> QED BY <1>0, <1>2, <1>3, <1>4, <1>5, LetGoKeeps

\* The network comes, goes and changes (use-websocket.ts:506-538).
LEMMA NetworkKeeps ==
  ASSUME WebInv, Network
  PROVE  WebInv'
  <1>0. RestOK /\ MaxMoves \in Nat /\ sock \in [Sockets -> SocketRec]
    BY TypeParts, ConnectAssumption DEF WebInv, ConnectAssumption
  <1>1. CASE Offline
    <2>1. moves' \in 0 .. MaxMoves BY <1>0, <1>1 DEF Offline, RestOK
    <2>2. RestOK' /\ DropsAreReported' /\ frame' = frame /\ held' = held /\ clientRef' = clientRef
          /\ manual' = manual /\ resolving' = resolving
      BY <1>0, <1>1, <2>1 DEF Offline, RestOK, frameVars, WebInv, DropsAreReported
    <2>3. CASE held # None
      BY <1>0, <1>1, <2>2, <2>3, Begun, DisconnectKeeps DEF Offline, RestOK
    <2>4. CASE held = None
      <3>1. cl' = cl /\ sock' = sock BY <1>1, <2>4 DEF Offline
      <3> QED BY <1>0, <2>2, <3>1, FramesKeep, QuietKeeps
    <2> QED BY <2>3, <2>4
  <1>2. CASE Online
    <2>2. RestOK' /\ DropsAreReported' /\ frame' = frame /\ held' = held /\ clientRef' = clientRef
          /\ manual' = manual /\ resolving' = resolving
      BY <1>0, <1>2 DEF Online, RestOK, frameVars, WebInv, DropsAreReported
    <2>3. CASE held # None /\ ReconnectNow(held)
      BY <1>0, <2>2, <2>3, Begun, ReconnectNowKeeps DEF RestOK
    <2>4. CASE cl' = cl /\ sock' = sock BY <1>0, <2>2, <2>4, FramesKeep, QuietKeeps
    <2> QED BY <1>2, <2>3, <2>4 DEF Online
  <1>3. CASE Move
    <2>1. moves' \in 0 .. MaxMoves BY <1>0, <1>3 DEF Move, RestOK
    <2>2. RestOK' /\ DropsAreReported' /\ frame' = frame /\ held' = held /\ clientRef' = clientRef
          /\ manual' = manual /\ resolving' = resolving /\ cl' = cl
      BY <1>0, <1>3, <2>1 DEF Move, RestOK, frameVars, WebInv, DropsAreReported
    <2>3. /\ sock' \in [Sockets -> SocketRec]
          /\ \A s \in Sockets : sock'[s].owner = sock[s].owner
                                /\ (sock'[s].st = "free" <=> sock[s].st = "free")
                                /\ (sock'[s].st = "shut" <=> sock[s].st = "shut")
      BY <1>0, <1>3 DEF Move, SocketRec
    <2>4. FramesMatch' BY <2>2, <2>3, FramesKeep
    <2> QED BY <2>2, <2>3, <2>4, QuietKeeps
  <1> QED BY <1>1, <1>2, <1>3 DEF Network

\* What people do keeps the invariant.
LEMMA PersonKeeps ==
  ASSUME WebInv, Person
  PROVE  WebInv'
  <1>0. RestOK /\ sock \in [Sockets -> SocketRec] BY TypeParts DEF WebInv
  <1>1. CASE Visible
    <2>1. RestOK' /\ DropsAreReported' /\ frame' = frame /\ held' = held /\ clientRef' # None
      BY <1>0, <1>1, Begun DEF Visible, RestOK, netVars, frameVars, WebInv, DropsAreReported
    <2> QED BY <1>0, <1>1, <2>1, ReconnectNowKeeps DEF Visible, RestOK
  <1>2. CASE RetryNow
    <2>1. RestOK' /\ DropsAreReported' /\ frame' = frame /\ held' = held /\ clientRef' # None
      BY <1>0, <1>2, Begun DEF RetryNow, RestOK, netVars, frameVars, WebInv, DropsAreReported
    <2>2. held \in Clients BY <1>0, <1>2 DEF RetryNow, RestOK
    <2>3. CASE Connect(held, cl[held])
      BY <2>1, <2>2, <2>3, OwnSocket, ConnectKeeps DEF TimerIsSafe
    <2> DEFINE d == Disconnected(cl[held])
               r == [d EXCEPT !.transport = cl[held].transport]
    <2>4. CASE Connect(held, r)
      <3>1. d \in ClientRec /\ cl[held].transport \in Sockets \cup {None} /\ (~d.late => d.leaked = 0)
        BY <2>2, OwnSocket, DisconnectedFacts
      <3> HIDE DEF d
      <3>2. r \in ClientRec /\ r.transport = cl[held].transport /\ (~r.late => r.leaked = 0)
        BY <3>1 DEF ClientRec
      <3> HIDE DEF r
      <3> QED BY <2>1, <2>2, <2>4, <3>2, ConnectKeeps
    <2> QED BY <1>2, <2>3, <2>4 DEF RetryNow
  <1>3. CASE TryAnotherRoute
    <2>1. RestOK' /\ DropsAreReported' /\ frame' = frame /\ held' = held /\ clientRef' = clientRef
          /\ clientRef # None /\ cl' = cl /\ sock' = sock
      BY <1>0, <1>3, Begun DEF TryAnotherRoute, RestOK, netVars, frameVars, WebInv, DropsAreReported
    <2> QED BY <1>0, <2>1, FramesKeep, QuietKeeps
  <1>4. CASE Leave
    <2>1. RestOK' /\ DropsAreReported' /\ frame' = frame /\ held' = held /\ clientRef' # None
      BY <1>0, <1>4, Begun DEF Leave, RestOK, netVars, frameVars, WebInv, DropsAreReported
    <2> QED BY <1>0, <1>4, <2>1, DisconnectKeeps DEF Leave, RestOK
  <1>5. CASE Return
    <2>1. RestOK' /\ DropsAreReported' /\ frame' = frame /\ held' = held /\ clientRef' = clientRef
          /\ manual' = manual /\ resolving' = resolving /\ cl' = cl /\ sock' = sock
      BY <1>0, <1>5 DEF Return, RestOK, netVars, frameVars, WebInv, DropsAreReported
    <2> QED BY <1>0, <2>1, FramesKeep, QuietKeeps
  <1> QED BY <1>1, <1>2, <1>3, <1>4, <1>5, MountKeeps, UnmountKeeps, SendKeeps DEF Person

\* A route that was being decided is taken (use-websocket.ts:62-71, 484-495).
LEMMA RoutesKeep ==
  ASSUME WebInv, RouteForManual \/ RouteForStale
  PROVE  WebInv'
  <1>0. RestOK /\ sock \in [Sockets -> SocketRec] BY TypeParts DEF WebInv
  <1>1. CASE RouteForManual
    <2>1. RestOK' /\ DropsAreReported' /\ frame' = frame /\ held' = held /\ clientRef' # None
      BY <1>0, <1>1, Begun DEF RouteForManual, RestOK, netVars, frameVars, WebInv, DropsAreReported
    <2>2. manual \in Clients BY <1>0, <1>1 DEF RouteForManual, RestOK
    <2>3. ASSUME NEW rt \in Routes, SetTransport(manual, rt) PROVE WebInv'
      BY <2>1, <2>2, <2>3, SetTransportKeeps
    <2>4. CASE Connect(manual, cl[manual])
      BY <2>1, <2>2, <2>4, OwnSocket, ConnectKeeps DEF TimerIsSafe
    <2> QED BY <1>1, <2>3, <2>4 DEF RouteForManual
  <1>2. CASE RouteForStale
    <2>1. RestOK' /\ DropsAreReported' /\ frame' = frame /\ held' = held /\ clientRef' = clientRef
          /\ clientRef # None
      BY <1>0, <1>2, Begun DEF RouteForStale, RestOK, netVars, frameVars, WebInv, DropsAreReported
    <2>2. clientRef \in Clients BY <1>0, <2>1 DEF RestOK
    <2>3. ASSUME NEW rt \in Routes, SetTransport(clientRef, rt) PROVE WebInv'
      BY <2>1, <2>2, <2>3, SetTransportKeeps
    <2>4. CASE cl' = cl /\ sock' = sock BY <1>0, <2>1, <2>4, FramesKeep, QuietKeeps
    <2> QED BY <1>2, <2>3, <2>4 DEF RouteForStale
  <1> QED BY <1>1, <1>2

\* The invariant holds at the start.
LEMMA WebInit == Init => WebInv
  <1> SUFFICES ASSUME Init PROVE WebInv OBVIOUS
  <1>1. "direct" \in Routes BY DEF Routes
  <1>2. Free \in SocketRec BY DEF Free, SocketRec, Routes
  <1>3. /\ cl \in [Clients -> ClientRec] /\ sock \in [Sockets -> SocketRec]
        /\ \A c \in Clients : cl[c] = Fresh("direct")
        /\ \A s \in Sockets : sock[s] = Free /\ frame[s] = NoFrame
    BY <1>1, <1>2, FreshFacts DEF Init
  <1>4. /\ moves \in 0 .. MaxMoves /\ unreported \in Int /\ slow \in 0 .. MaxSlow
        /\ frame \in [Sockets -> FrameRec]
    <2>1. NoFrame \in FrameRec BY DEF NoFrame, FrameRec
    <2> QED BY <2>1, ConnectAssumption DEF ConnectAssumption, Init
  <1>5. RestOK BY <1>4, Zenon DEF Init, RestOK
  <1>6. TypeOK BY <1>3, <1>5, TypeParts
  <1>7. SocketsMatch BY <1>1, <1>3, FreshFacts DEF SocketsMatch, Free
  <1>8. Timers /\ FramesMatch
    BY <1>1, <1>3, FreshFacts DEF Timers, TimerIsDown, FramesMatch, NoFrame
  <1>9. HeldTries /\ NothingYet /\ DropsAreReported
    BY <1>3 DEF Init, HeldTries, NothingYet, DropsAreReported
  <1> QED BY <1>6, <1>7, <1>8, <1>9 DEF WebInv

\* Every step keeps the invariant.
LEMMA WebStep == WebInv /\ [Next]_vars => WebInv'
  <1> SUFFICES ASSUME WebInv, [Next]_vars PROVE WebInv' OBVIOUS
  <1>1. ASSUME NEW s \in Sockets,
               OnOpen(s) \/ OnClose(s) \/ AuthSuccess(s) \/ Unapproved(s) \/ DeadCredential(s)
                 \/ FrameArrives(s) \/ FrameFails(s) \/ FrameIgnored(s)
        PROVE  WebInv'
    BY <1>1, OnOpenKeeps, OnCloseKeeps, AuthSuccessKeeps, UnapprovedKeeps, DeadCredentialKeeps,
       FrameOnlyKeeps, FrameFailsKeeps
  <1>2. CASE UNCHANGED vars
    <2>1. RestOK' /\ DropsAreReported' /\ frame' = frame /\ sock' \in [Sockets -> SocketRec]
      BY <1>2, TypeParts DEF WebInv, vars, netVars, frameVars, RestOK, DropsAreReported
    <2> QED BY <1>2, <2>1, FramesKeep, QuietKeeps DEF vars
  <1> QED BY <1>1, <1>2, NetworkKeeps, PersonKeeps, TimersKeep, RoutesKeep DEF Next

-----------------------------------------------------------------------------
\* The inductive invariant of the connection holds throughout every behaviour
\* (ws-client.ts, use-websocket.ts).
THEOREM WebInvariant == Spec => []WebInv
  BY WebInit, WebStep, PTL DEF Spec

\* A client has one socket that can call back, and while no closed transport has
\* called it back one socket or one timer, never both (ws-client.ts:150-176,
\* 329-332), for any number of clients and sockets.
THEOREM OneSocketOrOneTimer == Spec => []OneSocketOneTimer
  <1>1. WebInv => OneSocketOneTimer
    BY DEF WebInv, OneSocketOneTimer, OneSocket, TimerMeansDown, SocketsMatch, Timers,
           TimerIsSafe, TimerIsDown
  <1> QED BY <1>1, WebInvariant, PTL

\* The client that is held is up, trying or about to unless it has been told to
\* stay away, and what it discards is reported (ws-client.ts:82-90, 257-264).
THEOREM NothingIsStranded == Spec => []NothingStranded
  <1>1. WebInv => NothingStranded
    BY DEF WebInv, NothingStranded, NeverStranded, HeldTries, Trying
  <1> QED BY <1>1, WebInvariant, PTL

-----------------------------------------------------------------------------
(***************************************************************************)
(* Who brings a client back.                                               *)
(***************************************************************************)
\* connect() concerns one client.
LEMMA ConnectTouches ==
  ASSUME NEW c \in Clients, NEW r, Connect(c, r), NEW b \in Clients, b # c,
         cl \in [Clients -> ClientRec]
  PROVE  cl'[b] = cl[b]
  BY DEF Connect

\* setTransport() leaves a client that was told to stay away where it is, and
\* every other client alone (ws-client.ts:305-314).
LEMMA SetTransportStays ==
  ASSUME WebInv, NEW c \in Clients, NEW rt \in Routes, SetTransport(c, rt),
         NEW b \in Clients, cl[b].intentional
  PROVE  cl'[b].intentional
  <1>0. cl \in [Clients -> ClientRec] BY OwnSocket
  <1> DEFINE r == [cl[c] EXCEPT !.route = rt, !.asked = FALSE]
             q == [r EXCEPT !.connecting = FALSE]
  <1>1. r.intentional = cl[c].intentional BY <1>0 DEF ClientRec
  <1>2. IF r.intentional THEN cl' = [cl EXCEPT ![c] = r] ELSE Connect(c, q)
    BY DEF SetTransport
  <1> HIDE DEF r, q
  <1>3. CASE b = c BY <1>0, <1>1, <1>2, <1>3
  <1>4. CASE b # c BY <1>0, <1>2, <1>4, ConnectTouches
  <1> QED BY <1>3, <1>4

\* The same of reconnectNow() (ws-client.ts:277-281).
LEMMA ReconnectNowStays ==
  ASSUME WebInv, NEW c \in Clients, ReconnectNow(c), NEW b \in Clients, cl[b].intentional
  PROVE  cl'[b].intentional
  <1>0. cl \in [Clients -> ClientRec] BY OwnSocket
  <1>1. CASE b = c BY <1>1 DEF ReconnectNow
  <1>2. CASE b # c BY <1>0, <1>2, ConnectTouches DEF ReconnectNow
  <1> QED BY <1>1, <1>2

\* What no button does leaves a client that was told to stay away where it is.
LEMMA StaysAway ==
  ASSUME WebInv, Next, NEW b \in Clients, cl[b].intentional, ~cl'[b].intentional
  PROVE  \/ RetryNow \/ RouteForManual \/ Mount \/ \E s \in Sockets : DeadCredential(s)
         \/ cl[b].late /\ (Reconnect(b) \/ Overwritten(b))
  <1>0. cl \in [Clients -> ClientRec] /\ RestOK BY TypeParts DEF WebInv
  <1>1. ASSUME NEW c \in Clients, NEW q, cl' = [cl EXCEPT ![c] = q],
               q.intentional \/ q.intentional = cl[c].intentional
        PROVE  FALSE
    BY <1>0, <1>1
  <1>2. ASSUME NEW c \in Clients, Disconnect(c) PROVE FALSE
    <2>1. Disconnected(cl[c]).intentional BY <1>0, OwnSocket, DisconnectedFacts
    <2> QED BY <1>1, <1>2, <2>1 DEF Disconnect
  <1>3. CASE Network
    <2>1. CASE held \in Clients BY <1>2, <1>3, <2>1, ReconnectNowStays DEF Network, Offline, Online, Move
    <2>2. CASE held = None BY <1>3, <2>2 DEF Network, Offline, Online, Move
    <2> QED BY <1>0, <2>1, <2>2 DEF RestOK
  <1>4. CASE Unmount
    <2> DEFINE r == IF Forgotten(held) THEN Fresh("direct") ELSE cl[held]
    <2>1. held \in Clients /\ cl' = [cl EXCEPT ![held] = Disconnected(r)]
      BY <1>0, <1>4 DEF Unmount, RestOK
    <2>2. r \in ClientRec /\ TimerIsSafe(r)
      <3>1. "direct" \in Routes BY DEF Routes
      <3> QED BY <1>0, <2>1, <3>1, FreshFacts, OwnSocket
    <2> HIDE DEF r
    <2>3. Disconnected(r).intentional BY <2>2, DisconnectedFacts
    <2> QED BY <1>1, <2>1, <2>3
  <1>5. CASE Visible
    BY <1>0, <1>5, ReconnectNowStays DEF Visible, RestOK
  <1>6. CASE TryAnotherRoute \/ Return BY <1>6 DEF TryAnotherRoute, Return
  <1>7. CASE Leave BY <1>0, <1>2, <1>7 DEF Leave, RestOK
  <1>8. CASE Send
    <2>1. held \in Clients BY <1>0, <1>8 DEF Send, RestOK
    <2>2. cl'[b].intentional = cl[b].intentional BY <1>0, <1>8, <2>1 DEF Send, ClientRec
    <2> QED BY <2>2
  <1>9. ASSUME NEW s \in Sockets, OnOpen(s) PROVE FALSE BY <1>9 DEF OnOpen
  <1>10. ASSUME NEW s \in Sockets, OnClose(s) \/ FrameFails(s) PROVE FALSE
    <2>1. ASSUME NEW c \in Clients, NEW r, CalledBack(c, r), r.intentional = cl[c].intentional
          PROVE  FALSE
      <3> DEFINE p == [r EXCEPT !.connecting = FALSE, !.ping = FALSE]
                 q == IF p.intentional THEN [p EXCEPT !.status = "disconnected"]
                      ELSE ScheduleReconnect([p EXCEPT !.status = "reconnecting"])
      <3>1. cl' = [cl EXCEPT ![c] = q] BY <2>1 DEF CalledBack
      <3> HIDE DEF q
      <3>2. CASE c # b BY <1>0, <3>1, <3>2
      <3>3. CASE c = b
        <4>1. cl'[b] = q BY <1>0, <3>1, <3>3
        <4> QED BY <1>0, <2>1, <3>3, <4>1 DEF q
      <3> QED BY <3>2, <3>3
    <2>2. CASE OnClose(s)
      <3> DEFINE c == sock[s].owner
                 r == [cl[c] EXCEPT !.transport = IF @ = s THEN None ELSE @]
      <3>1. c \in Clients /\ cl[c] \in ClientRec BY <2>2, OwnerFacts DEF OnClose
      <3>2. CalledBack(c, r) \/ CalledBack(c, cl[c]) BY <2>2 DEF OnClose
      <3> HIDE DEF c
      <3>3. r.intentional = cl[c].intentional BY <3>1 DEF ClientRec
      <3> HIDE DEF r
      <3> QED BY <2>1, <3>1, <3>2, <3>3
    <2>3. CASE FrameFails(s)
      <3> DEFINE c == frame[s].of
                 v == IF sock[s].st = "free" THEN cl[c] ELSE [cl[c] EXCEPT !.transport = None]
                 r == [v EXCEPT !.late = @ \/ sock[s].st \in {"free", "shut"}]
      <3>1. CalledBack(c, r) /\ frame[s].kind = "bad" BY <2>3 DEF FrameFails
      <3>2. c \in Clients BY <1>0, <3>1 DEF RestOK, FrameRec, WebInv, FramesMatch
      <3> HIDE DEF c
      <3>3. cl[c] \in ClientRec BY <1>0, <3>2
      <3>4. v.intentional = cl[c].intentional /\ v \in ClientRec BY <3>3 DEF ClientRec
      <3> HIDE DEF v
      <3>5. r.intentional = cl[c].intentional BY <3>4 DEF ClientRec
      <3> HIDE DEF r
      <3> QED BY <2>1, <3>1, <3>2, <3>5
    <2> QED BY <1>10, <2>2, <2>3
  <1>11. ASSUME NEW s \in Sockets, AuthSuccess(s) \/ Unapproved(s) PROVE FALSE
    <2> DEFINE c == sock[s].owner
               r == Delivered(s, c)
    <2>1. sock[s].st \in {"open", "shut"} BY <1>11 DEF AuthSuccess, Unapproved, Receives
    <2>2. c \in Clients /\ r \in ClientRec /\ r.intentional = cl[c].intentional
      BY <2>1, DeliveredFacts
    <2>3. CASE AuthSuccess(s)
      <3> DEFINE q == [r EXCEPT !.connecting = FALSE, !.status = "connected", !.count = 0,
                                !.asked = FALSE, !.ping = TRUE, !.pending = 0]
      <3>1. cl' = [cl EXCEPT ![c] = q] BY <2>3 DEF AuthSuccess
      <3> HIDE DEF c, r
      <3>2. q.intentional = cl[c].intentional BY <2>2 DEF ClientRec
      <3> HIDE DEF q
      <3> QED BY <1>1, <2>2, <3>1, <3>2
    <2>4. CASE Unapproved(s)
      <3> DEFINE q == [r EXCEPT !.intentional = TRUE, !.connecting = FALSE,
                                !.transport = None, !.status = "disconnected"]
      <3>1. cl' = [cl EXCEPT ![c] = q] BY <2>4 DEF Unapproved
      <3> HIDE DEF c, r
      <3>2. q.intentional BY <2>2 DEF ClientRec
      <3> HIDE DEF q
      <3> QED BY <1>1, <2>2, <3>1, <3>2
    <2> QED BY <1>11, <2>3, <2>4
  <1>12. ASSUME NEW c \in Clients, Reconnect(c) \/ Overwritten(c)
         PROVE  cl[b].late /\ (Reconnect(b) \/ Overwritten(b))
    <2>1. c = b BY <1>0, <1>12, ConnectTouches DEF Reconnect, Overwritten
    <2>2. TimerIsSafe(cl[b]) BY OwnSocket
    <2> QED BY <1>12, <2>1, <2>2 DEF Reconnect, Overwritten, TimerIsSafe
  <1>15. ASSUME NEW s \in Sockets, FrameArrives(s) \/ FrameIgnored(s) PROVE FALSE
    BY <1>15 DEF FrameArrives, FrameIgnored
  <1>13. ASSUME NEW c \in Clients, DropConnection(c) PROVE FALSE
    <2> DEFINE r == [cl[c] EXCEPT !.transport = None, !.connecting = FALSE, !.ping = FALSE,
                                  !.status = "reconnecting"]
    <2>1. cl' = [cl EXCEPT ![c] = ScheduleReconnect(r)] BY <1>13 DEF DropConnection
    <2>2. r.intentional = cl[c].intentional BY <1>0 DEF ClientRec
    <2> HIDE DEF r
    <2>3. cl[c].intentional => ScheduleReconnect(r).intentional BY <2>2 DEF ScheduleReconnect
    <2> QED BY <1>0, <2>1, <2>3
  <1>14. CASE RouteForStale
    <2>1. clientRef \in Clients BY <1>0, <1>14, Begun DEF RouteForStale, RestOK
    <2> QED BY <1>14, <2>1, SetTransportStays DEF RouteForStale
  <1> QED
    BY <1>3, <1>4, <1>5, <1>6, <1>7, <1>8, <1>9, <1>10, <1>11, <1>12, <1>13, <1>14,
       <1>15
    DEF Next, Person

\* A client that was told to stay away dials again because somebody pressed a
\* button, never because of an event of the page, a route that was being decided or
\* the ping (ws-client.ts:276-280, 304-307), and because of a timer only if a closed
\* transport has called it back.
THEOREM OnlyAPersonDoes == Spec => OnlyAPersonBringsItBack
  <1>1. WebInv /\ [Next]_vars =>
          [\A c \in Clients : cl[c].intentional /\ ~cl'[c].intentional =>
             \/ RetryNow \/ RouteForManual \/ Mount \/ \E s \in Sockets : DeadCredential(s)
             \/ cl[c].late /\ (Reconnect(c) \/ Overwritten(c))]_vars
    BY StaysAway
  <1> QED BY <1>1, WebInvariant, PTL DEF Spec, OnlyAPersonBringsItBack
=============================================================================

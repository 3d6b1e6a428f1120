--------------------------- MODULE TerminalAttach ---------------------------
(***************************************************************************)
(* One terminal of a browser and the relay connection behind it: the       *)
(* attach state machine of apps/web/src/lib/attach-state.ts and the effect *)
(* of terminal-view.tsx that drives it, the websocket, the queue and the   *)
(* removal of connection-manager.ts, the session:attach and session:detach *)
(* handlers of message-router.ts with their pty-bridge.ts and, for a       *)
(* read-only share, their clone of tmux-clone.ts, and the tmux server that *)
(* other people use meanwhile.                                             *)
(*                                                                         *)
(* A handler gives way at every await, so it is several actions; queued    *)
(* messages wait for it, but an exit of a pty, a hang-up from the panel    *)
(* and everything tmux does need not.  A session is known by the name it   *)
(* has now.  Connections share nothing but tmux, so the one slot is reused *)
(* by the browser's next connection once the last is removed.              *)
(***************************************************************************)
EXTENDS Naturals, Sequences, FiniteSets

CONSTANTS
    Names,          \* names of tmux sessions
    None,
    MaxAttaches,    \* bound on the attaches a browser sends
    MaxShared,      \* the same when its grant is read-only
    HighWater       \* OUTPUT_HIGH_WATER, in messages that are not yet sent

Slots == {1, 2}     \* a pty that is ending, and the one that replaces it
Removers == {"hangup", "close"}

VARIABLES
    \* the browser
    desired,        \* sessionName
    phase, name,    \* AttachState; its attachId is the last one sent
    handled,        \* handledExits, and the names that have left it
    sent,           \* attachCounter
    \* the websocket
    up, toRelay, toBrowser,
    \* the connection
    sock,           \* none, open, hung (ws.close() called), shut (close event)
    readOnly,       \* its grant
    at, msg,        \* where the handler of which message is
    pty, attachedSession, cloneSession,
    removal,        \* where each run of removeConnection() is
    \* tmux
    sessions, clone, bridge, paused,
    \* history
    refused,        \* the last attach was answered with an error or an exit
    painted,        \* the attaches whose output was written since the screen was reset
    overtaken,      \* the attaches that replayed their screen when another had their place
    missed          \* an exit of the session shown was taken for an earlier one

browserVars == <<desired, phase, name, handled, sent>>
wireVars == <<up, toRelay, toBrowser>>
connVars == <<sock, readOnly, at, msg, pty, attachedSession, cloneSession, removal>>
tmuxVars == <<sessions, clone, bridge, paused>>
histVars == <<refused, painted, overtaken, missed>>
vars == <<browserVars, wireVars, connVars, tmuxVars, histVars>>

Free == [st |-> "free", ready |-> FALSE, detaching |-> FALSE, name |-> None, on |-> None, id |-> 0]

Bridges ==
    [st : {"free", "live", "dead"}, ready : BOOLEAN, detaching : BOOLEAN,
     name : Names \cup {None},      \* the session that was asked for
     on : Names \cup {None},        \* the session it shows, by its present name
     id : 0 .. MaxAttaches]

Requests == [type : {"attach", "detach"}, name : Names \cup {None}, id : 0 .. MaxAttaches]
Replies == [type : {"attached", "output", "exited", "error"}, name : Names \cup {None}, id : 0 .. MaxAttaches]

ASSUME AttachAssumption ==
    /\ None \notin Names \cup Slots \cup Requests
    /\ MaxAttaches \in Nat /\ MaxShared \in Nat /\ HighWater \in Nat

TypeOK ==
    /\ desired \in Names \cup {None}
    /\ phase \in {"idle", "attaching", "attached"}
    /\ name \in Names \cup {None}
    /\ handled \subseteq Names /\ sent \in 0 .. MaxAttaches
    /\ up \in BOOLEAN
    /\ toRelay \in Seq(Requests) /\ toBrowser \in Seq(Replies)
    /\ sock \in {"none", "open", "hung", "shut"} /\ readOnly \in BOOLEAN
    /\ at \in {"idle", "passed", "dropping", "dropped", "found", "locking"}
    /\ msg \in Requests \cup {None} /\ (msg = None <=> at = "idle")
    /\ pty \in Slots \cup {None}
    /\ attachedSession \in Names \cup {None} /\ cloneSession \in BOOLEAN
    /\ removal \in [Removers -> {"no", "kill", "forget", "rest", "done"}]
    /\ sessions \subseteq Names /\ clone \in Names \cup {None}
    /\ bridge \in [Slots -> Bridges] /\ paused \in BOOLEAN
    /\ refused \in BOOLEAN /\ missed \in BOOLEAN
    /\ painted \subseteq 0 .. MaxAttaches /\ overtaken \subseteq 0 .. MaxAttaches

Init ==
    /\ desired = None /\ phase = "idle" /\ name = None
    /\ handled = {} /\ sent = 0
    /\ up = FALSE /\ toRelay = <<>> /\ toBrowser = <<>>
    /\ sock = "none" /\ readOnly \in BOOLEAN
    /\ at = "idle" /\ msg = None
    /\ pty = None /\ attachedSession = None /\ cloneSession = FALSE
    /\ removal = [w \in Removers |-> "no"]
    /\ sessions = Names /\ clone = None
    /\ bridge = [b \in Slots |-> Free] /\ paused = FALSE
    /\ refused = FALSE /\ painted = {} /\ overtaken = {} /\ missed = FALSE

-----------------------------------------------------------------------------
(***************************************************************************)
(* The browser: reduceAttach() and the effect that runs when the session   *)
(* chosen or the status of the connection changes.                         *)
(***************************************************************************)
NotThere(n) == name # n                                 \* mutant of NeedsAttach
NeedsAttach(n) == ~(phase = "attached" /\ name = n)

\* The effect with a session and a connection: one attach, with a new id.
RequestAttach(n) ==
    IF NeedsAttach(n)
      THEN /\ sent < MaxAttaches /\ (readOnly => sent < MaxShared)
           /\ sent' = sent + 1
           /\ phase' = "attaching" /\ name' = n
           /\ toRelay' = Append(toRelay, [type |-> "attach", name |-> n, id |-> sent + 1])
           /\ refused' = FALSE /\ painted' = {}
      ELSE UNCHANGED <<sent, phase, name, toRelay, refused, painted>>

\* The effect without a session.
Detach ==
    /\ phase' = "idle" /\ name' = None
    /\ toRelay' = IF phase # "idle" /\ up
                    THEN Append(toRelay, [type |-> "detach", name |-> None, id |-> 0])
                    ELSE toRelay
    /\ refused' = FALSE /\ painted' = {}
    /\ UNCHANGED sent

\* The effect without a connection: what is desired waits for the next one.
ConnectionLost ==
    /\ phase' = IF phase = "idle" THEN "idle" ELSE "attaching"
    /\ painted' = {}
    /\ UNCHANGED <<name, sent, refused>>

\* The person picks a session, or none.
Choose(n) ==
    /\ n # desired
    /\ desired' = n
    /\ IF n = None THEN Detach
       ELSE IF up THEN RequestAttach(n)
       ELSE ConnectionLost /\ UNCHANGED toRelay
    /\ UNCHANGED <<handled, up, toBrowser, connVars, tmuxVars, overtaken, missed>>

\* The socket is connected and authenticated, on a fresh connection.
Connect ==
    /\ sock = "none" /\ ~up
    /\ sock' = "open" /\ up' = TRUE
    /\ IF desired = None THEN UNCHANGED <<sent, phase, name, toRelay, refused, painted>>
       ELSE RequestAttach(desired)
    /\ UNCHANGED <<desired, handled, toBrowser, readOnly, at, msg, pty, attachedSession,
                   cloneSession, removal, tmuxVars, overtaken, missed>>

\* The browser's side of the socket ends; what it has sent may still arrive.
LinkBreaks ==
    /\ up
    /\ up' = FALSE /\ toBrowser' = <<>>
    /\ ConnectionLost
    /\ UNCHANGED <<desired, handled, toRelay, connVars, tmuxVars, overtaken, missed>>

\* Only the acknowledgement of the attach that is waited for counts.
AnyAck(m) == phase = "attaching"                        \* mutant of Acknowledges
Acknowledges(m) == phase = "attaching" /\ m.id = sent

\* session:exited: the session leaves the list, and if it was the one shown
\* nothing is desired any more.  One of a name that exited within the last ten
\* seconds is taken for the same exit.  (The monitor's broadcast of the same exit
\* and session:killed do no more to the view than the person choosing nothing.)
Exited(n) ==
    \/ /\ n \in handled
       /\ missed' = (missed \/ desired = n)
       /\ UNCHANGED <<desired, handled, phase, name, sent, toRelay, refused, painted>>
    \/ /\ handled' = handled \cup {n}
       /\ IF desired = n THEN desired' = None /\ Detach
          ELSE UNCHANGED <<desired, phase, name, sent, toRelay, refused, painted>>
       /\ UNCHANGED missed

\* An acknowledgement that counts resets the screen.  Output carries no attach
\* and is written whenever the view is attached.
Receive ==
    LET m == Head(toBrowser) IN
    /\ up /\ toBrowser # <<>>
    /\ toBrowser' = Tail(toBrowser)
    /\ CASE m.type = "attached" ->
              /\ phase' = IF Acknowledges(m) THEN "attached" ELSE phase
              /\ painted' = IF Acknowledges(m) THEN {} ELSE painted
              /\ UNCHANGED <<desired, name, handled, sent, toRelay, refused, missed>>
         [] m.type = "output" ->
              /\ painted' = IF phase = "attached" THEN painted \cup {m.id} ELSE painted
              /\ UNCHANGED <<browserVars, toRelay, refused, missed>>
         [] m.type = "exited" -> Exited(m.name)
         [] m.type = "error" -> UNCHANGED <<browserVars, toRelay, refused, painted, missed>>
    /\ UNCHANGED <<up, connVars, tmuxVars, overtaken>>

-----------------------------------------------------------------------------
(***************************************************************************)
(* The relay's handlers.                                                   *)
(***************************************************************************)
\* sendJson(): nothing is sent on a socket that is not open.
Reply(t, n, i) == [type |-> t, name |-> n, id |-> i]
Sent(q, m) == IF sock = "open" /\ up THEN Append(q, m) ELSE q
Send(m) == toBrowser' = Sent(toBrowser, m)

Dead(b) == [bridge[b] EXCEPT !.st = "dead"]

\* conn.pty.markDetaching(); conn.pty.kill(): its exit will say nothing.
Killed(b) == [Dead(b) EXCEPT !.detaching = TRUE, !.on = None]
DropPty ==
    /\ pty' = None /\ paused' = FALSE
    /\ bridge' = IF pty = None THEN bridge ELSE [bridge EXCEPT ![pty] = Killed(pty)]

\* kill-session on the clone ends the pty that shows it.
CloneKilled ==
    /\ clone' = None
    /\ bridge' = [b \in Slots |-> IF readOnly /\ bridge[b].st = "live" THEN Dead(b) ELSE bridge[b]]

Done == at' = "idle" /\ msg' = None

\* The queue takes the next message when the last handler has ended, and
\* enforce() lets it through.  An attach may be refused: by enforce() for what the
\* grant covers, or by the rate limiter before it is queued.  (A detach that the
\* limiter drops leaves a pty whose output the idle view does not write.)
Take ==
    LET m == Head(toRelay) IN
    /\ sock # "none" /\ at = "idle" /\ toRelay # <<>>
    /\ toRelay' = Tail(toRelay)
    /\ \/ /\ at' = "passed" /\ msg' = m
          /\ UNCHANGED <<toBrowser, refused>>
       \/ /\ m.type # "detach"
          /\ Send(Reply("error", m.name, m.id))
          /\ refused' = (refused \/ m.id = sent)
          /\ UNCHANGED <<at, msg>>
    /\ UNCHANGED <<browserVars, up, sock, readOnly, pty, attachedSession, cloneSession, removal,
                   tmuxVars, painted, overtaken, missed>>

\* session:attach and session:detach first let go of what there is.
LetGo ==
    /\ at = "passed" /\ msg.type \in {"attach", "detach"}
    /\ DropPty
    /\ attachedSession' = None
    /\ IF cloneSession THEN at' = "dropping" /\ UNCHANGED msg
       ELSE IF msg.type = "attach" THEN at' = "dropped" /\ UNCHANGED msg
       ELSE Done
    /\ UNCHANGED <<browserVars, wireVars, sock, readOnly, cloneSession, removal, sessions, clone,
                   histVars>>

DropClone ==
    /\ at = "dropping"
    /\ CloneKilled
    /\ cloneSession' = FALSE
    /\ IF msg.type = "attach" THEN at' = "dropped" /\ UNCHANGED msg ELSE Done
    /\ UNCHANGED <<browserVars, wireVars, sock, readOnly, pty, attachedSession, removal, sessions,
                   paused, histVars>>

Refuse ==
    /\ Done
    /\ Send(Reply("error", msg.name, msg.id))
    /\ refused' = (refused \/ msg.id = sent)

\* Is there such a session?  Its screen is captured before anything else.
FindSession ==
    /\ at = "dropped"
    /\ IF msg.name \in sessions
         THEN at' = "found" /\ UNCHANGED <<msg, toBrowser, refused>>
         ELSE Refuse
    /\ UNCHANGED <<browserVars, up, toRelay, sock, readOnly, pty, attachedSession, cloneSession,
                   removal, tmuxVars, painted, overtaken, missed>>

\* createReadOnlyClone(): new-session fails if the target has gone or the
\* clone's name is taken.
MakeClone ==
    /\ at = "found" /\ readOnly
    /\ IF msg.name \in sessions /\ clone = None
         THEN /\ clone' = msg.name /\ at' = "locking"
              /\ UNCHANGED <<msg, toBrowser, refused>>
         ELSE Refuse /\ UNCHANGED clone
    /\ UNCHANGED <<browserVars, up, toRelay, sock, readOnly, pty, attachedSession, cloneSession,
                   removal, sessions, bridge, paused, painted, overtaken, missed>>

\* An option could not be set: the clone is torn down rather than attached.
LeftBehind == UNCHANGED <<clone, bridge>>               \* mutant of TornDown
TornDown == CloneKilled
LockFails ==
    /\ at = "locking"
    /\ TornDown
    /\ Refuse
    /\ UNCHANGED <<browserVars, up, toRelay, sock, readOnly, pty, attachedSession, cloneSession,
                   removal, sessions, paused, painted, overtaken, missed>>

Attachable == (at = "found" /\ ~readOnly) \/ (at = "locking" /\ clone # None)

\* The pty is spawned.  If its target has gone by then it only exits.
Spawn ==
    LET target == IF readOnly THEN clone
                  ELSE IF msg.name \in sessions THEN msg.name ELSE None IN
    /\ Attachable
    /\ LET b == IF bridge[1].st = "free" THEN 1 ELSE 2 IN
         /\ bridge[b].st = "free"
         /\ bridge' = [bridge EXCEPT ![b] =
              [st |-> IF target = None THEN "dead" ELSE "live", ready |-> FALSE,
               detaching |-> FALSE, name |-> msg.name, on |-> target, id |-> msg.id]]
         /\ pty' = b
    /\ attachedSession' = msg.name
    /\ cloneSession' = readOnly
    /\ paused' = FALSE
    /\ Done
    /\ UNCHANGED <<browserVars, wireVars, sock, readOnly, removal, sessions, clone, histVars>>

\* pty.spawn() throws: the clone goes, and the client is told.
SpawnFails ==
    /\ Attachable
    /\ IF readOnly THEN CloneKilled ELSE UNCHANGED <<clone, bridge>>
    /\ cloneSession' = FALSE
    /\ Refuse
    /\ UNCHANGED <<browserVars, up, toRelay, sock, readOnly, pty, attachedSession, removal, sessions,
                   paused, painted, overtaken, missed>>

-----------------------------------------------------------------------------
(***************************************************************************)
(* The pty.                                                                *)
(***************************************************************************)
\* The first output or 50 ms: acknowledged, and then the captured screen, if
\* there is one, replayed as output.  What a pty had written when it was killed
\* may still come, and neither message asks whose pty the connection has now.
Ack(b) == Reply("attached", bridge[b].name, bridge[b].id)
Replay(b) == Reply("output", bridge[b].name, bridge[b].id)
Ready(b) ==
    /\ bridge[b].st # "free" /\ ~bridge[b].ready
    /\ bridge' = [bridge EXCEPT ![b].ready = TRUE]
    /\ \/ Send(Ack(b)) /\ UNCHANGED overtaken
       \/ /\ toBrowser' = Sent(Sent(toBrowser, Ack(b)), Replay(b))
          /\ overtaken' = IF pty = b THEN overtaken ELSE overtaken \cup {bridge[b].id}
    /\ UNCHANGED <<browserVars, up, toRelay, connVars, sessions, clone, paused, refused, painted, missed>>

\* Only the connection's own pty is heard, and it is paused while the socket's
\* buffer is past the high-water mark.
Pauses(q) == Len(q) > HighWater
Output(b) ==
    /\ bridge[b].st # "free" /\ bridge[b].ready /\ pty = b /\ ~paused
    /\ Send(Reply("output", bridge[b].name, bridge[b].id))
    /\ paused' = Pauses(toBrowser')
    /\ UNCHANGED <<browserVars, up, toRelay, connVars, sessions, clone, bridge, histVars>>

\* The poll every 50 ms.
DrainPoll ==
    /\ paused /\ toBrowser = <<>>
    /\ paused' = FALSE
    /\ UNCHANGED <<browserVars, wireVars, connVars, sessions, clone, bridge, histVars>>

\* The exit of a pty: of one that is being let go, silence; of one that never
\* was ready, a spawn error; of any other, session:exited.
SilentOnceReady(b) == bridge[b].detaching \/ bridge[b].ready    \* mutant of Silent
Silent(b) == bridge[b].detaching
PtyExit(b) ==
    /\ bridge[b].st = "dead"
    /\ bridge' = [bridge EXCEPT ![b] = Free]
    /\ IF Silent(b) THEN UNCHANGED <<pty, attachedSession, paused, toBrowser, refused>>
       ELSE /\ Send(Reply(IF bridge[b].ready THEN "exited" ELSE "error", bridge[b].name, bridge[b].id))
            /\ pty' = IF pty = b THEN None ELSE pty
            /\ attachedSession' = IF pty = b THEN None ELSE attachedSession
            /\ paused' = IF pty = b THEN FALSE ELSE paused
            /\ refused' = (refused \/ bridge[b].id = sent)
    /\ UNCHANGED <<browserVars, up, toRelay, sock, readOnly, at, msg, cloneSession, removal,
                   sessions, clone, painted, overtaken, missed>>

-----------------------------------------------------------------------------
(***************************************************************************)
(* The end of a connection: the close event drains the queue and removes   *)
(* it; a hang-up from the panel removes it at once, and the close event    *)
(* that follows removes it again.                                          *)
(***************************************************************************)
CloseEvent ==
    /\ sock \in {"open", "hung"} /\ ~up
    /\ sock' = "shut"
    /\ \E k \in 0 .. Len(toRelay) : toRelay' = SubSeq(toRelay, 1, k)
    /\ UNCHANGED <<browserVars, up, toBrowser, readOnly, at, msg, pty, attachedSession, cloneSession,
                   removal, tmuxVars, histVars>>

NoDrain == TRUE                                         \* mutant of Drained
Drained == at = "idle" /\ toRelay = <<>>

BeginRemoval(w) ==
    /\ removal[w] = "no"
    /\ DropPty
    /\ removal' = [removal EXCEPT ![w] = IF cloneSession THEN "kill" ELSE "rest"]
    /\ UNCHANGED <<browserVars, wireVars, readOnly, at, msg, attachedSession, cloneSession,
                   sessions, clone, histVars>>

HangUp ==
    /\ sock \in {"open", "shut"} /\ removal["close"] # "done"
    /\ sock' = IF sock = "open" THEN "hung" ELSE sock
    /\ BeginRemoval("hangup")

Remove ==
    /\ sock = "shut" /\ Drained
    /\ BeginRemoval("close")
    /\ UNCHANGED sock

RemovalStep(w) ==
    /\ \/ /\ removal[w] = "kill"
          /\ CloneKilled
          /\ removal' = [removal EXCEPT ![w] = "forget"]
          /\ UNCHANGED cloneSession
       \/ /\ removal[w] = "forget"
          /\ cloneSession' = FALSE
          /\ removal' = [removal EXCEPT ![w] = "rest"]
          /\ UNCHANGED <<clone, bridge>>
       \/ /\ removal[w] = "rest"
          /\ removal' = [removal EXCEPT ![w] = "done"]
          /\ UNCHANGED <<cloneSession, clone, bridge>>
    /\ UNCHANGED <<browserVars, wireVars, sock, readOnly, at, msg, pty, attachedSession, sessions,
                   paused, histVars>>

Gone == removal["close"] = "done" /\ removal["hangup"] \in {"no", "done"}

\* Nothing refers to the connection any more; the next has another id, and so
\* another clone, and what a pty of the last may still say is said to its socket.
Forgotten ==
    /\ Gone
    /\ sock' = "none" /\ removal' = [w \in Removers |-> "no"]
    /\ attachedSession' = None /\ cloneSession' = FALSE /\ clone' = None
    /\ bridge' = [b \in Slots |-> Free] /\ overtaken' = {}
    /\ UNCHANGED <<browserVars, wireVars, readOnly, at, msg, pty, sessions, paused,
                   refused, painted, missed>>

-----------------------------------------------------------------------------
\* A session ends, and with it its clone and whatever shows either.
EndSession(n) ==
    /\ sessions' = sessions \ {n}
    /\ clone' = IF clone = n THEN None ELSE clone
    /\ bridge' = [b \in Slots |-> IF bridge[b].on = n THEN Dead(b) ELSE bridge[b]]

\* Other people's use of tmux, and what session:*, pane:* and window:* messages,
\* here or on other connections, make it do.
Others ==
    /\ \/ \E n \in Names \ sessions : sessions' = sessions \cup {n} /\ UNCHANGED <<clone, bridge>>
       \/ \E n \in sessions : EndSession(n)
       \/ \E n \in sessions, m \in Names \ sessions :
            /\ sessions' = (sessions \ {n}) \cup {m}
            /\ clone' = IF clone = n THEN m ELSE clone
            /\ bridge' = [b \in Slots |-> IF bridge[b].on = n THEN [bridge[b] EXCEPT !.on = m] ELSE bridge[b]]
    /\ UNCHANGED <<browserVars, wireVars, connVars, paused, histVars>>

RelayStep ==
    \/ Take \/ LetGo \/ DropClone \/ FindSession \/ MakeClone \/ LockFails \/ Spawn \/ SpawnFails
RemovalSteps == Remove \/ \E w \in Removers : RemovalStep(w)
PtyStep(b) == Ready(b) \/ PtyExit(b)

Next ==
    \/ \E n \in Names \cup {None} : Choose(n)
    \/ Connect \/ LinkBreaks \/ Receive
    \/ RelayStep
    \/ \E b \in Slots : PtyStep(b) \/ Output(b)
    \/ DrainPoll
    \/ CloseEvent \/ HangUp \/ RemovalSteps \/ Forgotten
    \/ Others

Spec == Init /\ [][Next]_vars

-----------------------------------------------------------------------------
(***************************************************************************)
(* Properties.                                                             *)
(***************************************************************************)
Live(b) == bridge[b].st = "live" /\ ~bridge[b].detaching

\* A pty belongs to the connection that is attached through it, and none
\* survives its connection (connection-manager.ts:181-223), however the queue,
\* a hang-up and the close event fall together.
NoStrayPty ==
    \A b \in Slots : Live(b) => pty = b /\ ~Gone /\ sock # "none"

\* "A clone outliving its connection is a leak" (connection-manager.ts:60-61): a
\* connection that ends of itself leaves none.
NoStrayClone == Gone /\ removal["hangup"] = "no" => clone = None

\* The same after a hang-up, which does not wait for the handler that is running
\* and clears cloneSession after its own await.  This one does not hold.
HangUpLeavesNoClone == Gone => clone = None

\* What is on the screen of a view that is attached was written by the pty of
\* the attach it asked for last (message-router.ts:371-379, attach-state.ts:64-75),
\* or is the replay of a pty whose place another already had.
PaintsItsOwn == phase = "attached" => painted \subseteq {sent} \cup overtaken

\* "Server output may only be written once the ack for this attach has landed"
\* (attach-state.ts:88): never output of an attach that was left.  This one does
\* not hold: a late replay is written by whichever attach the view is in.
PaintsOnlyItsOwn == phase = "attached" => painted \subseteq {sent}

\* Nothing is under way between the browser and its connection.
Quiet ==
    /\ up /\ sock = "open" /\ toRelay = <<>> /\ toBrowser = <<>> /\ at = "idle"
    /\ \A b \in Slots : bridge[b].st # "dead" /\ (bridge[b].st = "live" => bridge[b].ready)

\* The "unrecoverable wedges" of attach-state.ts:4-16: with nothing under way,
\* an attach that is still waited for has been refused, never lost.
NoWedge == Quiet /\ phase = "attaching" => refused

\* With nothing under way, a browser that believes itself attached has the pty
\* of that attach behind it, unless it took its exit for an earlier one of the
\* same name (use-websocket.ts:230-244).
AttachedIsReal ==
    Quiet /\ phase = "attached" /\ ~missed =>
        pty # None /\ bridge[pty].id = sent /\ attachedSession = name

Outputs(i) == {k \in DOMAIN toBrowser : toBrowser[k].type = "output" /\ toBrowser[k].id = i}

\* "This bounds the relay's heap growth on fast producers"
\* (message-router.ts:35-38): beyond the high-water mark a pty adds one output, and
\* the replay of its screen, which no mark is applied to.
BufferBounded == \A b \in Slots : Cardinality(Outputs(bridge[b].id)) <= HighWater + 2

\* What the relay keeps for a connection is the connection's and ends with it:
\* its pty, its clone and its bounded share of the send buffer
\* (connection-manager.ts:181-223, message-router.ts:35-38).
ConnectionOwnsAll ==
    /\ TypeOK
    /\ NoStrayPty
    /\ NoStrayClone
    /\ BufferBounded

\* Handlers act on attachedSession by name: it names the session of the pty.
\* This one does not hold once a session has been renamed.
ActsOnItsOwn == pty # None /\ Live(pty) => bridge[pty].on = attachedSession
=============================================================================

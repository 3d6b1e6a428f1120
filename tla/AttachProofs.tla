---------------------------- MODULE AttachProofs ----------------------------
(***************************************************************************)
(* Proofs about TerminalAttach for any names of sessions, any number of    *)
(* attaches and any high-water mark.                                       *)
(***************************************************************************)
EXTENDS TerminalAttach, FiniteSetTheorems, TLAPS

\* The connection has at most one pty that it has not let go of, and that is
\* the one it knows.
OnePty ==
    /\ \A b \in Slots : bridge[b].st = "free" => bridge[b] = Free
    /\ \A b \in Slots : bridge[b].st # "free" /\ ~bridge[b].detaching => pty = b
    /\ \A b \in Slots : bridge[b].detaching => bridge[b].st = "dead"
    /\ pty # None => bridge[pty].st # "free" /\ ~bridge[pty].detaching
    /\ at \in {"dropping", "dropped", "found", "locking"} => pty = None

\* How far the ends of a connection can be apart.
Lifecycle ==
    /\ up => sock \in {"open", "hung"}
    /\ ~up => toBrowser = <<>> /\ phase # "attached"
    /\ sock = "none" => removal = [w \in Removers |-> "no"] /\ at = "idle"
                          /\ toRelay = <<>> /\ pty = None
    /\ sock = "open" => removal = [w \in Removers |-> "no"]
    /\ removal["close"] # "no" => sock = "shut" /\ at = "idle" /\ toRelay = <<>> /\ pty = None

\* Who will destroy the clone, as long as nobody has hung up.
Clones ==
    /\ ~readOnly => clone = None
    /\ removal["hangup"] = "no" =>
         /\ clone # None => cloneSession \/ at = "locking"
         /\ at \in {"dropped", "found", "locking"} => ~cloneSession
         /\ removal["close"] \in {"forget", "rest", "done"} => clone = None

-----------------------------------------------------------------------------
(***************************************************************************)
(* Attach ids.  The relay takes them up in the order they were sent, so    *)
(* what is on its way back is older than what is still to be handled.      *)
(***************************************************************************)
IsAttach(m) == m.type = "attach"
Handling == at # "idle" /\ IsAttach(msg)

Older(i) ==
    /\ i \in 1 .. sent
    /\ Handling => i < msg.id
    /\ \A k \in DOMAIN toRelay : IsAttach(toRelay[k]) => i < toRelay[k].id

\* What the relay has not answered yet.
Queued ==
    /\ Handling => /\ msg.id \in 1 .. sent /\ msg.name # None
                   /\ \A k \in DOMAIN toRelay : IsAttach(toRelay[k]) => msg.id < toRelay[k].id
    /\ at \in {"dropped", "found", "locking"} => IsAttach(msg)
    /\ \A k \in DOMAIN toRelay : IsAttach(toRelay[k]) =>
          toRelay[k].id \in 1 .. sent /\ toRelay[k].name # None
    /\ \A j, k \in DOMAIN toRelay :
          j < k /\ IsAttach(toRelay[j]) /\ IsAttach(toRelay[k]) => toRelay[j].id < toRelay[k].id

\* What it has.
Numbered ==
    /\ \A b \in Slots : bridge[b].st # "free" => Older(bridge[b].id) /\ bridge[b].name # None
    /\ \A k \in DOMAIN toBrowser : Older(toBrowser[k].id) /\ toBrowser[k].name # None
    /\ \A b, c \in Slots : bridge[b].st # "free" /\ bridge[b].id = bridge[c].id => b = c

\* The browser's wish, and what bears the number of its last attach.
Wanted == up /\ phase # "idle"

OfLast ==
    /\ desired = None => phase = "idle"
    /\ Wanted =>
         /\ name = desired
         /\ \A b \in Slots : bridge[b].id = sent => bridge[b].name = name
         /\ Handling /\ msg.id = sent => msg.name = name
         /\ \A k \in DOMAIN toRelay :
               IsAttach(toRelay[k]) /\ toRelay[k].id = sent => toRelay[k].name = name
         /\ \A k \in DOMAIN toBrowser : toBrowser[k].id = sent => toBrowser[k].name = name

\* The acknowledgement that is waited for is on its way.
IsAck(m) == m.type = "attached" /\ m.id = sent
Acked == \E k \in DOMAIN toBrowser : IsAck(toBrowser[k])

\* No output of another attach can follow it, but a replay that was overtaken.
OwnOrOvertaken(m) == m.id \in {sent} \cup overtaken
Paints ==
    Wanted =>
      /\ PaintsItsOwn
      /\ phase = "attached" =>
            \A k \in DOMAIN toBrowser : toBrowser[k].type = "output" => OwnOrOvertaken(toBrowser[k])
      /\ \A j, k \in DOMAIN toBrowser :
            j < k /\ IsAck(toBrowser[j]) /\ toBrowser[k].type = "output" => OwnOrOvertaken(toBrowser[k])

\* The last attach is in the queue, with the handler, or has been answered: with
\* a pty, or with a refusal or an exit that the browser will hear of.
Asked == toRelay # <<>> /\ IsAttach(toRelay[Len(toRelay)]) /\ toRelay[Len(toRelay)].id = sent
InHand == toRelay = <<>> /\ Handling /\ msg.id = sent
Served == pty # None /\ bridge[pty].id = sent /\ attachedSession = name
ExitOnTheWay == \E k \in DOMAIN toBrowser : toBrowser[k].type = "exited" /\ toBrowser[k].name = name

Answered ==
    /\ toRelay = <<>> /\ at = "idle"
    /\ phase = "attaching" => refused \/ Acked \/ (Served /\ ~bridge[pty].ready)
    /\ phase = "attached" \/ Acked => /\ Served \/ missed \/ ExitOnTheWay
                                      /\ pty # None => bridge[pty].id = sent /\ bridge[pty].ready
    /\ \A b \in Slots : bridge[b].st # "free" /\ bridge[b].id = sent =>
                           pty = b /\ attachedSession = name

Awaiting == phase = "attaching" /\ ~Acked /\ (Asked \/ InHand)
Awaited == Wanted /\ sock = "open" => Awaiting \/ Answered

\* A pty that is not paused has room for one more output, and one that is not
\* ready has written none.
Buffered ==
    /\ BufferBounded
    /\ pty # None /\ ~paused => Cardinality(Outputs(bridge[pty].id)) <= HighWater + 1
    /\ \A b \in Slots : ~bridge[b].ready => Outputs(bridge[b].id) = {}

AttachInv ==
    /\ TypeOK /\ OnePty /\ Lifecycle /\ Clones /\ Queued /\ Numbered /\ OfLast /\ Paints
    /\ Awaited /\ Buffered

-----------------------------------------------------------------------------
(***************************************************************************)
(* Queues.                                                                 *)
(***************************************************************************)
\* Append, seen from an index.
LEMMA AppendAt ==
    ASSUME NEW S, NEW q \in Seq(S), NEW m \in S
    PROVE  /\ Append(q, m) \in Seq(S)
           /\ Len(q) \in Nat /\ Len(Append(q, m)) = Len(q) + 1
           /\ DOMAIN q = 1 .. Len(q) /\ DOMAIN Append(q, m) = 1 .. (Len(q) + 1)
           /\ \A k \in 1 .. Len(q) : Append(q, m)[k] = q[k]
           /\ Append(q, m)[Len(q) + 1] = m
           /\ Append(q, m) # <<>>
  OBVIOUS

\* Tail, seen from an index.
LEMMA TailAt ==
    ASSUME NEW S, NEW q \in Seq(S), q # <<>>
    PROVE  /\ Head(q) \in S /\ Head(q) = q[1]
           /\ Tail(q) \in Seq(S)
           /\ Len(q) \in Nat /\ Len(q) >= 1 /\ Len(Tail(q)) = Len(q) - 1
           /\ DOMAIN q = 1 .. Len(q) /\ DOMAIN Tail(q) = 1 .. (Len(q) - 1)
           /\ \A k \in 1 .. (Len(q) - 1) : Tail(q)[k] = q[k + 1]
  OBVIOUS

\* An initial segment, seen from an index.
LEMMA SubSeqAt ==
    ASSUME NEW S, NEW q \in Seq(S), NEW n \in 0 .. Len(q)
    PROVE  /\ SubSeq(q, 1, n) \in Seq(S)
           /\ \A k \in DOMAIN SubSeq(q, 1, n) : k \in DOMAIN q /\ SubSeq(q, 1, n)[k] = q[k]
  OBVIOUS

-----------------------------------------------------------------------------
(***************************************************************************)
(* Types, by the parts of the system.                                      *)
(***************************************************************************)
BrowserOK ==
    /\ desired \in Names \cup {None} /\ phase \in {"idle", "attaching", "attached"}
    /\ name \in Names \cup {None} /\ handled \subseteq Names /\ sent \in 0 .. MaxAttaches
WireOK == up \in BOOLEAN /\ toRelay \in Seq(Requests) /\ toBrowser \in Seq(Replies)
HandlerOK ==
    /\ at \in {"idle", "passed", "dropping", "dropped", "found", "locking"}
    /\ msg \in Requests \cup {None} /\ (msg = None <=> at = "idle")
ConnOK ==
    /\ sock \in {"none", "open", "hung", "shut"} /\ readOnly \in BOOLEAN
    /\ pty \in Slots \cup {None}
    /\ attachedSession \in Names \cup {None} /\ cloneSession \in BOOLEAN
    /\ removal \in [Removers -> {"no", "kill", "forget", "rest", "done"}]
TmuxOK ==
    /\ sessions \subseteq Names /\ clone \in Names \cup {None}
    /\ bridge \in [Slots -> Bridges] /\ paused \in BOOLEAN
HistOK ==
    /\ refused \in BOOLEAN /\ missed \in BOOLEAN
    /\ painted \subseteq 0 .. MaxAttaches /\ overtaken \subseteq 0 .. MaxAttaches

\* The type invariant in its parts.
LEMMA TypeParts == TypeOK <=> BrowserOK /\ WireOK /\ HandlerOK /\ ConnOK /\ TmuxOK /\ HistOK
  BY DEF TypeOK, BrowserOK, WireOK, HandlerOK, ConnOK, TmuxOK, HistOK

\* The same of the next state.
LEMMA TypePartsNext ==
    TypeOK' <=> BrowserOK' /\ WireOK' /\ HandlerOK' /\ ConnOK' /\ TmuxOK' /\ HistOK'
  BY DEF TypeOK, BrowserOK, WireOK, HandlerOK, ConnOK, TmuxOK, HistOK

\* A part that a step leaves alone keeps its type.
LEMMA Unchanged ==
    /\ TypeOK /\ UNCHANGED browserVars => BrowserOK'
    /\ TypeOK /\ UNCHANGED wireVars => WireOK'
    /\ TypeOK /\ UNCHANGED connVars => HandlerOK' /\ ConnOK'
    /\ TypeOK /\ UNCHANGED tmuxVars => TmuxOK'
    /\ TypeOK /\ UNCHANGED histVars => HistOK'
  BY TypeParts
  DEF browserVars, wireVars, connVars, tmuxVars, histVars,
      BrowserOK, WireOK, HandlerOK, ConnOK, TmuxOK, HistOK

\* A pty of which only the state, the session it shows or a flag changes.
LEMMA BridgeFields ==
    ASSUME NEW r \in Bridges, NEW n \in Names \cup {None}
    PROVE  /\ [r EXCEPT !.st = "dead"] \in Bridges
           /\ [r EXCEPT !.ready = TRUE] \in Bridges
           /\ [r EXCEPT !.on = n] \in Bridges
           /\ [[[r EXCEPT !.st = "dead"] EXCEPT !.detaching = TRUE] EXCEPT !.on = None] \in Bridges
           /\ r.id \in 0 .. MaxAttaches /\ r.name \in Names \cup {None}
           /\ r.ready \in BOOLEAN /\ r.detaching \in BOOLEAN
  BY DEF Bridges

\* A request of the browser.
LEMMA RequestIs ==
    ASSUME TypeOK, sent < MaxAttaches, NEW n \in Names
    PROVE  [type |-> "attach", name |-> n, id |-> sent + 1] \in Requests
  BY AttachAssumption DEF TypeOK, Requests

\* The detach that is sent when nothing is wanted any more.
LEMMA DetachIs == [type |-> "detach", name |-> None, id |-> 0] \in Requests
  BY AttachAssumption DEF Requests

\* The effect with a session and a connection.
LEMMA RequestTyped ==
    ASSUME TypeOK, NEW n \in Names, RequestAttach(n)
    PROVE  /\ sent' \in 0 .. MaxAttaches /\ phase' \in {"idle", "attaching", "attached"}
           /\ name' \in Names \cup {None} /\ toRelay' \in Seq(Requests)
           /\ refused' \in BOOLEAN /\ painted' \subseteq 0 .. MaxAttaches
  <1>1. CASE NeedsAttach(n)
    <2>1. sent < MaxAttaches /\ sent \in 0 .. MaxAttaches /\ toRelay \in Seq(Requests)
      BY <1>1, TypeParts DEF RequestAttach, BrowserOK, WireOK
    <2>2. toRelay' \in Seq(Requests)
      BY <1>1, <2>1, RequestIs, AppendAt DEF RequestAttach
    <2>3. sent' \in 0 .. MaxAttaches BY <1>1, <2>1, AttachAssumption DEF RequestAttach
    <2>4. refused' = FALSE /\ painted' = {} /\ phase' = "attaching" /\ name' = n
      BY <1>1 DEF RequestAttach
    <2> QED BY <2>2, <2>3, <2>4
  <1>2. CASE ~NeedsAttach(n)
    BY <1>2, TypeParts DEF RequestAttach, BrowserOK, WireOK, HistOK
  <1> QED BY <1>1, <1>2

\* The effect without a session.
LEMMA DetachTyped ==
    ASSUME TypeOK, Detach
    PROVE  /\ sent' \in 0 .. MaxAttaches /\ phase' \in {"idle", "attaching", "attached"}
           /\ name' \in Names \cup {None} /\ toRelay' \in Seq(Requests)
           /\ refused' \in BOOLEAN /\ painted' \subseteq 0 .. MaxAttaches
  BY DetachIs, AppendAt, TypeParts DEF Detach, BrowserOK, WireOK

\* The effect without a connection.
LEMMA LostTyped ==
    ASSUME TypeOK, ConnectionLost
    PROVE  /\ sent' \in 0 .. MaxAttaches /\ phase' \in {"idle", "attaching", "attached"}
           /\ name' \in Names \cup {None}
           /\ refused' \in BOOLEAN /\ painted' \subseteq 0 .. MaxAttaches
  BY TypeParts DEF ConnectionLost, BrowserOK, HistOK

\* The browser's steps keep the types.
LEMMA ChooseTyped == ASSUME TypeOK, NEW n \in Names \cup {None}, Choose(n) PROVE TypeOK'
  <1>1. /\ sent' \in 0 .. MaxAttaches /\ phase' \in {"idle", "attaching", "attached"}
        /\ name' \in Names \cup {None} /\ toRelay' \in Seq(Requests)
        /\ refused' \in BOOLEAN /\ painted' \subseteq 0 .. MaxAttaches
    <2>1. CASE n = None BY <2>1, DetachTyped DEF Choose
    <2>2. CASE n # None /\ up BY <2>2, RequestTyped DEF Choose
    <2>3. CASE n # None /\ ~up BY <2>3, LostTyped, TypeParts DEF Choose, WireOK
    <2> QED BY <2>1, <2>2, <2>3
  <1>2. BrowserOK' BY <1>1, TypeParts DEF Choose, BrowserOK
  <1>3. WireOK' BY <1>1, TypeParts DEF Choose, WireOK
  <1>4. HistOK' BY <1>1, TypeParts DEF Choose, HistOK
  <1>5. HandlerOK' /\ ConnOK' /\ TmuxOK' BY Unchanged DEF Choose
  <1> QED BY <1>2, <1>3, <1>4, <1>5, TypePartsNext

\* The socket is connected.
LEMMA ConnectTyped == ASSUME TypeOK, Connect PROVE TypeOK'
  <1>1. /\ sent' \in 0 .. MaxAttaches /\ phase' \in {"idle", "attaching", "attached"}
        /\ name' \in Names \cup {None} /\ toRelay' \in Seq(Requests)
        /\ refused' \in BOOLEAN /\ painted' \subseteq 0 .. MaxAttaches
    <2>1. CASE desired = None BY <2>1, TypeParts DEF Connect, BrowserOK, WireOK, HistOK
    <2>2. CASE desired # None BY <2>2, RequestTyped, TypeParts DEF Connect, BrowserOK
    <2> QED BY <2>1, <2>2
  <1>2. BrowserOK' BY <1>1, TypeParts DEF Connect, BrowserOK
  <1>3. WireOK' BY <1>1, TypeParts DEF Connect, WireOK
  <1>4. HistOK' BY <1>1, TypeParts DEF Connect, HistOK
  <1>5. HandlerOK' BY TypeParts DEF Connect, HandlerOK
  <1>6. ConnOK' BY TypeParts DEF Connect, ConnOK
  <1>7. TmuxOK' BY Unchanged DEF Connect
  <1> QED BY <1>2, <1>3, <1>4, <1>5, <1>6, <1>7, TypePartsNext

\* It breaks.
LEMMA LinkBreaksTyped == ASSUME TypeOK, LinkBreaks PROVE TypeOK'
  <1>1. BrowserOK' BY LostTyped, TypeParts DEF LinkBreaks, BrowserOK
  <1>2. WireOK'
    <2>1. toBrowser' \in Seq(Replies) BY DEF LinkBreaks
    <2> QED BY <2>1, TypeParts DEF LinkBreaks, WireOK
  <1>3. HandlerOK' /\ ConnOK' /\ TmuxOK' BY Unchanged DEF LinkBreaks
  <1>4. HistOK' BY LostTyped, TypeParts DEF LinkBreaks, HistOK
  <1> QED BY <1>1, <1>2, <1>3, <1>4, TypePartsNext

\* What the browser does with a message, type by type.
LEMMA ReceiveCases ==
    ASSUME TypeOK, Receive
    PROVE  LET m == Head(toBrowser) IN
           /\ m \in Replies /\ toBrowser' = Tail(toBrowser) /\ toBrowser' \in Seq(Replies)
           /\ m.type = "attached" =>
                /\ phase' = IF Acknowledges(m) THEN "attached" ELSE phase
                /\ painted' = IF Acknowledges(m) THEN {} ELSE painted
                /\ UNCHANGED <<desired, name, handled, sent, toRelay, refused, missed>>
           /\ m.type = "output" =>
                /\ painted' = IF phase = "attached" THEN painted \cup {m.id} ELSE painted
                /\ UNCHANGED <<browserVars, toRelay, refused, missed>>
           /\ m.type = "exited" => Exited(m.name)
           /\ m.type = "error" => UNCHANGED <<browserVars, toRelay, histVars>>
           /\ UNCHANGED overtaken
           /\ m.type \in {"attached", "output", "exited", "error"}
           /\ m.name \in Names \cup {None} /\ m.id \in 0 .. MaxAttaches
  <1> DEFINE m == Head(toBrowser)
  <1>1. toBrowser \in Seq(Replies) /\ toBrowser # <<>> BY TypeParts DEF WireOK, Receive
  <1>2. m \in Replies /\ Tail(toBrowser) \in Seq(Replies) BY <1>1, TailAt
  <1>3. /\ m.type \in {"attached", "output", "exited", "error"} /\ m.name \in Names \cup {None}
        /\ m.id \in 0 .. MaxAttaches
    BY <1>2 DEF Replies
  <1>4. toBrowser' = Tail(toBrowser) /\ UNCHANGED overtaken BY DEF Receive
  <1>5. CASE m.type = "attached" BY <1>2, <1>3, <1>4, <1>5, Zenon DEF Receive
  <1>6. CASE m.type = "output" BY <1>2, <1>3, <1>4, <1>6, Zenon DEF Receive
  <1>7. CASE m.type = "exited" BY <1>2, <1>3, <1>4, <1>7, Zenon DEF Receive
  <1>8. CASE m.type = "error" BY <1>2, <1>3, <1>4, <1>8, Zenon DEF Receive, histVars
  <1> QED BY <1>3, <1>5, <1>6, <1>7, <1>8

\* A message is received: every reply names a session.
LEMMA ReceiveTyped == ASSUME TypeOK, Numbered, Receive PROVE TypeOK'
  <1> DEFINE m == Head(toBrowser)
  <1>0. /\ m.type \in {"attached", "output", "exited", "error"} /\ m.name \in Names \cup {None}
        /\ toBrowser' \in Seq(Replies) /\ m.id \in 0 .. MaxAttaches /\ UNCHANGED overtaken
    BY ReceiveCases
  <1>n. m.name # None
    <2>1. toBrowser \in Seq(Replies) /\ toBrowser # <<>> BY TypeParts DEF WireOK, Receive
    <2>2. m = toBrowser[1] /\ 1 \in DOMAIN toBrowser BY <2>1, TailAt
    <2> QED BY <2>2 DEF Numbered
  <1>1. HandlerOK' /\ ConnOK' /\ TmuxOK' BY Unchanged DEF Receive
  <1>2. up' \in BOOLEAN BY TypeParts DEF Receive, WireOK
  <1>3. CASE m.type = "attached"
    <2>1. BrowserOK' BY <1>3, ReceiveCases, TypeParts DEF BrowserOK
    <2>2. WireOK' BY <1>0, <1>2, <1>3, ReceiveCases, TypeParts DEF WireOK
    <2>3. HistOK' BY <1>0, <1>3, ReceiveCases, TypeParts DEF HistOK
    <2> QED BY <1>1, <2>1, <2>2, <2>3, TypePartsNext
  <1>4. CASE m.type = "output"
    <2>1. BrowserOK' BY <1>4, ReceiveCases, Unchanged
    <2>2. WireOK' BY <1>0, <1>2, <1>4, ReceiveCases, TypeParts DEF WireOK
    <2>3. HistOK' BY <1>0, <1>4, ReceiveCases, TypeParts DEF HistOK
    <2> QED BY <1>1, <2>1, <2>2, <2>3, TypePartsNext
  <1>5. CASE m.type = "error"
    <2>1. BrowserOK' /\ HistOK' BY <1>5, ReceiveCases, Unchanged
    <2>2. WireOK' BY <1>0, <1>2, <1>5, ReceiveCases, TypeParts DEF WireOK
    <2> QED BY <1>1, <2>1, <2>2, TypePartsNext
  <1>6. CASE m.type = "exited"
    <2> DEFINE n == m.name
    <2>1. Exited(n) BY <1>6, ReceiveCases
    <2>2. handled' \subseteq Names /\ missed' \in BOOLEAN
      <3>1. handled \subseteq Names /\ missed \in BOOLEAN /\ n \in Names
        BY <1>0, <1>n, TypeParts DEF BrowserOK, HistOK
      <3>2. handled' = handled \/ handled' = handled \cup {n} BY <2>1 DEF Exited
      <3>3. missed' = missed \/ missed' = (missed \/ desired = n) BY <2>1 DEF Exited
      <3> QED BY <3>1, <3>2, <3>3
    <2>3. CASE UNCHANGED <<desired, phase, name, sent, toRelay, refused, painted>>
      <3>1. BrowserOK' BY <2>2, <2>3, TypeParts DEF BrowserOK
      <3>2. WireOK' BY <1>0, <1>2, <2>3, TypeParts DEF WireOK
      <3>3. HistOK' BY <1>0, <2>2, <2>3, TypeParts DEF HistOK
      <3> QED BY <1>1, <3>1, <3>2, <3>3, TypePartsNext
    <2>4. CASE desired' = None /\ Detach
      <3>1. BrowserOK' BY <2>2, <2>4, DetachTyped DEF BrowserOK
      <3>2. WireOK' BY <1>0, <1>2, <2>4, DetachTyped DEF WireOK
      <3>3. HistOK' BY <1>0, <2>2, <2>4, DetachTyped, TypeParts DEF HistOK
      <3> QED BY <1>1, <3>1, <3>2, <3>3, TypePartsNext
    <2> QED BY <2>1, <2>3, <2>4 DEF Exited
  <1> QED BY <1>0, <1>3, <1>4, <1>5, <1>6

-----------------------------------------------------------------------------
\* What sendJson() makes of the queue to the browser.
LEMMA Sending ==
    ASSUME TypeOK, NEW t \in {"attached", "output", "exited", "error"},
           NEW n \in Names \cup {None}, NEW i \in 0 .. MaxAttaches, Send(Reply(t, n, i))
    PROVE  /\ toBrowser' \in Seq(Replies) /\ Reply(t, n, i) \in Replies
           /\ sock = "open" /\ up => toBrowser' = Append(toBrowser, Reply(t, n, i))
           /\ ~(sock = "open" /\ up) => toBrowser' = toBrowser
  <1>1. Reply(t, n, i) \in Replies BY DEF Reply, Replies
  <1>2. toBrowser \in Seq(Replies) BY TypeParts DEF WireOK
  <1> QED BY <1>1, <1>2, AppendAt DEF Send, Sent

\* The fields of a request.
LEMMA RequestFields ==
    ASSUME NEW m \in Requests
    PROVE  m.type \in {"attach", "detach"} /\ m.name \in Names \cup {None} /\ m.id \in 0 .. MaxAttaches
  BY DEF Requests

\* A handler that is at work has a message.
LEMMA Working == ASSUME TypeOK, at # "idle" PROVE msg \in Requests /\ msg # None
  BY TypeParts DEF HandlerOK

\* The next message is taken from the queue.
LEMMA TakeTyped == ASSUME TypeOK, Take PROVE TypeOK'
  <1> DEFINE m == Head(toRelay)
  <1>1. toRelay \in Seq(Requests) /\ toRelay # <<>> BY TypeParts DEF WireOK, Take
  <1>2. m \in Requests /\ toRelay' \in Seq(Requests) BY <1>1, TailAt DEF Take
  <1>3. m # None /\ up' \in BOOLEAN BY <1>2, AttachAssumption, TypeParts DEF Take, WireOK
  <1>4. toBrowser' \in Seq(Replies) /\ HandlerOK' /\ refused' \in BOOLEAN
    <2>1. CASE at' = "passed" /\ msg' = m /\ UNCHANGED <<toBrowser, refused>>
      BY <1>2, <1>3, <2>1, TypeParts DEF WireOK, HandlerOK, HistOK
    <2>2. CASE /\ Send(Reply("error", m.name, m.id))
               /\ refused' = (refused \/ m.id = sent)
               /\ UNCHANGED <<at, msg>>
      <3>1. toBrowser' \in Seq(Replies) BY <1>2, <2>2, RequestFields, Sending
      <3>2. HandlerOK' BY <2>2, TypeParts DEF HandlerOK
      <3> QED BY <2>2, <3>1, <3>2
    <2> QED BY <2>1, <2>2 DEF Take
  <1>5. BrowserOK' /\ TmuxOK' BY Unchanged DEF Take
  <1>6. WireOK' BY <1>2, <1>3, <1>4 DEF WireOK
  <1>7. ConnOK' BY TypeParts DEF Take, ConnOK
  <1>8. HistOK' BY <1>4, TypeParts DEF Take, HistOK
  <1> QED BY <1>4, <1>5, <1>6, <1>7, <1>8, TypePartsNext

\* The pty is let go of.
LEMMA DropPtyTyped ==
    ASSUME TypeOK, DropPty
    PROVE  pty' = None /\ paused' = FALSE /\ bridge' \in [Slots -> Bridges]
  <1>1. bridge \in [Slots -> Bridges] /\ pty \in Slots \cup {None} BY TypeParts DEF TmuxOK, ConnOK
  <1>2. pty # None => Killed(pty) \in Bridges BY <1>1, BridgeFields DEF Killed, Dead
  <1> QED BY <1>1, <1>2 DEF DropPty

\* The clone is killed.
LEMMA CloneKilledTyped ==
    ASSUME TypeOK, CloneKilled PROVE clone' = None /\ bridge' \in [Slots -> Bridges]
  <1>1. bridge \in [Slots -> Bridges] BY TypeParts DEF TmuxOK
  <1>2. \A b \in Slots : Dead(b) \in Bridges BY <1>1, BridgeFields DEF Dead
  <1> QED BY <1>1, <1>2 DEF CloneKilled

\* An attach is refused.
LEMMA RefuseTyped ==
    ASSUME TypeOK, at # "idle", Refuse
    PROVE  at' = "idle" /\ msg' = None /\ toBrowser' \in Seq(Replies) /\ refused' \in BOOLEAN
  BY Working, RequestFields, Sending DEF Refuse, Done

\* A handler has ended.
LEMMA DoneTyped == ASSUME at' = "idle", msg' = None PROVE HandlerOK'
  BY DEF HandlerOK

\* The handler's steps keep the types.
LEMMA RelayTyped == ASSUME TypeOK, RelayStep PROVE TypeOK'
  <1>1. CASE Take BY <1>1, TakeTyped
  <1>2. CASE LetGo
    <2>1. BrowserOK' /\ WireOK' /\ HistOK' BY <1>2, Unchanged DEF LetGo
    <2>2. HandlerOK' BY <1>2, TypeParts, Working, DoneTyped DEF LetGo, Done, HandlerOK
    <2>3. ConnOK' BY <1>2, TypeParts, DropPtyTyped DEF LetGo, ConnOK
    <2>4. TmuxOK' BY <1>2, TypeParts, DropPtyTyped DEF LetGo, TmuxOK
    <2> QED BY <2>1, <2>2, <2>3, <2>4, TypePartsNext
  <1>3. CASE DropClone
    <2>1. BrowserOK' /\ WireOK' /\ HistOK' BY <1>3, Unchanged DEF DropClone
    <2>2. HandlerOK' BY <1>3, TypeParts, Working, DoneTyped DEF DropClone, Done, HandlerOK
    <2>3. ConnOK' BY <1>3, TypeParts DEF DropClone, ConnOK
    <2>4. TmuxOK' BY <1>3, TypeParts, CloneKilledTyped DEF DropClone, TmuxOK
    <2> QED BY <2>1, <2>2, <2>3, <2>4, TypePartsNext
  <1>4. CASE FindSession
    <2>1. BrowserOK' /\ TmuxOK' BY <1>4, Unchanged DEF FindSession
    <2>2. HandlerOK' BY <1>4, TypeParts, Working, RefuseTyped, DoneTyped DEF FindSession, HandlerOK
    <2>3. ConnOK' BY <1>4, TypeParts DEF FindSession, ConnOK
    <2>4. WireOK' BY <1>4, TypeParts, RefuseTyped DEF FindSession, WireOK
    <2>5. HistOK' BY <1>4, TypeParts, RefuseTyped DEF FindSession, HistOK
    <2> QED BY <2>1, <2>2, <2>3, <2>4, <2>5, TypePartsNext
  <1>5. CASE MakeClone
    <2>1. BrowserOK' BY <1>5, Unchanged DEF MakeClone
    <2>2. HandlerOK' BY <1>5, TypeParts, Working, RefuseTyped, DoneTyped DEF MakeClone, HandlerOK
    <2>3. ConnOK' BY <1>5, TypeParts DEF MakeClone, ConnOK
    <2>4. WireOK' BY <1>5, TypeParts, RefuseTyped DEF MakeClone, WireOK
    <2>5. HistOK' BY <1>5, TypeParts, RefuseTyped DEF MakeClone, HistOK
    <2>6. TmuxOK' BY <1>5, TypeParts, Working, RequestFields DEF MakeClone, TmuxOK
    <2> QED BY <2>1, <2>2, <2>3, <2>4, <2>5, <2>6, TypePartsNext
  <1>6. CASE LockFails
    <2>1. BrowserOK' BY <1>6, Unchanged DEF LockFails
    <2>2. HandlerOK' BY <1>6, RefuseTyped, DoneTyped DEF LockFails
    <2>3. ConnOK' BY <1>6, TypeParts DEF LockFails, ConnOK
    <2>4. WireOK' BY <1>6, TypeParts, RefuseTyped DEF LockFails, WireOK
    <2>5. HistOK' BY <1>6, TypeParts, RefuseTyped DEF LockFails, HistOK
    <2>6. TmuxOK' BY <1>6, TypeParts, CloneKilledTyped DEF LockFails, TornDown, TmuxOK
    <2> QED BY <2>1, <2>2, <2>3, <2>4, <2>5, <2>6, TypePartsNext
  <1>7. CASE Spawn
    <2>1. BrowserOK' /\ WireOK' /\ HistOK' BY <1>7, Unchanged DEF Spawn
    <2>2. HandlerOK' BY <1>7, DoneTyped DEF Spawn, Done
    <2>3. ConnOK' /\ TmuxOK'
      <3>1. msg \in Requests /\ pty' \in Slots
        BY <1>7, Working DEF Spawn, Attachable, Slots
      <3>2. msg.name \in Names \cup {None} /\ msg.id \in 0 .. MaxAttaches BY <3>1, RequestFields
      <3>3. clone \in Names \cup {None} /\ bridge \in [Slots -> Bridges] /\ sessions \subseteq Names
        BY TypeParts DEF TmuxOK
      <3>4. \E r \in Bridges : bridge' = [bridge EXCEPT ![pty'] = r]
        BY <1>7, <3>1, <3>2, <3>3 DEF Spawn, Bridges
      <3>5. bridge' \in [Slots -> Bridges] BY <3>1, <3>3, <3>4
      <3> QED BY <1>7, <3>1, <3>2, <3>3, <3>5, TypeParts DEF Spawn, ConnOK, TmuxOK
    <2> QED BY <2>1, <2>2, <2>3, TypePartsNext
  <1>8. CASE SpawnFails
    <2>0. at # "idle" BY <1>8 DEF SpawnFails, Attachable
    <2>1. BrowserOK' BY <1>8, Unchanged DEF SpawnFails
    <2>2. HandlerOK' BY <1>8, <2>0, RefuseTyped, DoneTyped DEF SpawnFails
    <2>3. ConnOK' BY <1>8, TypeParts DEF SpawnFails, ConnOK
    <2>4. WireOK' BY <1>8, <2>0, TypeParts, RefuseTyped DEF SpawnFails, WireOK
    <2>5. HistOK' BY <1>8, <2>0, TypeParts, RefuseTyped DEF SpawnFails, HistOK
    <2>6. TmuxOK' BY <1>8, TypeParts, CloneKilledTyped DEF SpawnFails, TmuxOK
    <2> QED BY <2>1, <2>2, <2>3, <2>4, <2>5, <2>6, TypePartsNext
  <1> QED BY <1>1, <1>2, <1>3, <1>4, <1>5, <1>6, <1>7, <1>8 DEF RelayStep

\* What a pty sends.
LEMMA BridgeIs ==
    ASSUME TypeOK, NEW b \in Slots
    PROVE  /\ bridge[b] \in Bridges /\ bridge \in [Slots -> Bridges]
           /\ bridge[b].name \in Names \cup {None} /\ bridge[b].id \in 0 .. MaxAttaches
           /\ bridge[b].ready \in BOOLEAN /\ bridge[b].detaching \in BOOLEAN
           /\ bridge[b].st \in {"free", "live", "dead"} /\ bridge[b].on \in Names \cup {None}
  <1>1. bridge[b] \in Bridges /\ bridge \in [Slots -> Bridges] BY TypeParts DEF TmuxOK
  <1> QED BY <1>1 DEF Bridges

\* A pty that is ready acknowledges and may replay, on an open socket only.
LEMMA ReadySays ==
    ASSUME TypeOK, NEW b \in Slots, Ready(b)
    PROVE  /\ Ack(b) \in Replies /\ Replay(b) \in Replies
           /\ Ack(b).type = "attached" /\ Ack(b).name = bridge[b].name /\ Ack(b).id = bridge[b].id
           /\ Replay(b).type = "output" /\ Replay(b).name = bridge[b].name /\ Replay(b).id = bridge[b].id
           /\ toBrowser' \in Seq(Replies)
           /\ \/ toBrowser' = toBrowser
              \/ up /\ sock = "open" /\ toBrowser' = Append(toBrowser, Ack(b))
              \/ /\ up /\ sock = "open" /\ toBrowser' = Append(Append(toBrowser, Ack(b)), Replay(b))
                 /\ pty # b => bridge[b].id \in overtaken'
           /\ up /\ sock = "open" => toBrowser' # toBrowser
           /\ overtaken \subseteq overtaken' /\ overtaken' \subseteq 0 .. MaxAttaches
  <1>1. bridge[b].name \in Names \cup {None} /\ bridge[b].id \in 0 .. MaxAttaches BY BridgeIs
  <1>2. Ack(b) \in Replies /\ Replay(b) \in Replies BY <1>1 DEF Ack, Replay, Reply, Replies
  <1>3. /\ Ack(b).type = "attached" /\ Ack(b).name = bridge[b].name /\ Ack(b).id = bridge[b].id
        /\ Replay(b).type = "output" /\ Replay(b).name = bridge[b].name /\ Replay(b).id = bridge[b].id
    BY DEF Ack, Replay, Reply
  <1>4. /\ toBrowser \in Seq(Replies) /\ Len(toBrowser) \in Nat
        /\ Append(toBrowser, Ack(b)) \in Seq(Replies) /\ Len(Append(toBrowser, Ack(b))) = Len(toBrowser) + 1
        /\ Append(Append(toBrowser, Ack(b)), Replay(b)) \in Seq(Replies)
        /\ Len(Append(Append(toBrowser, Ack(b)), Replay(b))) = Len(toBrowser) + 2
    <2>1. toBrowser \in Seq(Replies) BY TypeParts DEF WireOK
    <2>2. /\ Append(toBrowser, Ack(b)) \in Seq(Replies) /\ Len(toBrowser) \in Nat
          /\ Len(Append(toBrowser, Ack(b))) = Len(toBrowser) + 1
      BY <1>2, <2>1, AppendAt
    <2>3. /\ Append(Append(toBrowser, Ack(b)), Replay(b)) \in Seq(Replies)
          /\ Len(Append(Append(toBrowser, Ack(b)), Replay(b))) = Len(Append(toBrowser, Ack(b))) + 1
      BY <1>2, <2>2, AppendAt
    <2> QED BY <2>1, <2>2, <2>3
  <1>5. \/ toBrowser' = Sent(toBrowser, Ack(b)) /\ overtaken' = overtaken
        \/ /\ toBrowser' = Sent(Sent(toBrowser, Ack(b)), Replay(b))
           /\ overtaken' = IF pty = b THEN overtaken ELSE overtaken \cup {bridge[b].id}
    BY DEF Ready, Send
  <1>6. overtaken \subseteq 0 .. MaxAttaches BY TypeParts DEF HistOK
  <1> HIDE DEF Ack, Replay
  <1>7. /\ \/ toBrowser' = toBrowser
           \/ up /\ sock = "open" /\ toBrowser' = Append(toBrowser, Ack(b))
           \/ /\ up /\ sock = "open" /\ toBrowser' = Append(Append(toBrowser, Ack(b)), Replay(b))
              /\ pty # b => bridge[b].id \in overtaken'
        /\ toBrowser' \in Seq(Replies)
    BY <1>4, <1>5 DEF Sent
  <1>8. up /\ sock = "open" => toBrowser' # toBrowser BY <1>4, <1>5 DEF Sent
  <1>9. overtaken \subseteq overtaken' /\ overtaken' \subseteq 0 .. MaxAttaches BY <1>1, <1>5, <1>6
  <1> QED BY <1>2, <1>3, <1>7, <1>8, <1>9

\* The steps of a pty keep the types.
LEMMA PtyTyped ==
    ASSUME TypeOK, NEW b \in Slots, PtyStep(b) \/ Output(b) PROVE TypeOK'
  <1>1. CASE Ready(b)
    <2>1. BrowserOK' /\ HandlerOK' /\ ConnOK' BY <1>1, Unchanged DEF Ready
    <2>2. WireOK' BY <1>1, TypeParts, ReadySays DEF Ready, WireOK
    <2>5. HistOK' BY <1>1, TypeParts, ReadySays DEF Ready, HistOK
    <2>3. bridge' \in [Slots -> Bridges] BY <1>1, BridgeIs, BridgeFields DEF Ready
    <2>4. TmuxOK' BY <1>1, <2>3, TypeParts DEF Ready, TmuxOK
    <2> QED BY <2>1, <2>2, <2>4, <2>5, TypePartsNext
  <1>2. CASE Output(b)
    <2>1. BrowserOK' /\ HandlerOK' /\ ConnOK' /\ HistOK' BY <1>2, Unchanged DEF Output
    <2>2. WireOK' BY <1>2, TypeParts, BridgeIs, Sending DEF Output, WireOK
    <2>3. TmuxOK' BY <1>2, TypeParts DEF Output, Pauses, TmuxOK
    <2> QED BY <2>1, <2>2, <2>3, TypePartsNext
  <1>3. CASE PtyExit(b)
    <2>1. BrowserOK' BY <1>3, Unchanged DEF PtyExit
    <2>2. HandlerOK' BY <1>3, TypeParts DEF PtyExit, HandlerOK
    <2>3. ConnOK' BY <1>3, TypeParts DEF PtyExit, ConnOK
    <2>4. WireOK'
      <3>1. CASE Silent(b) BY <1>3, <3>1, TypeParts DEF PtyExit, WireOK
      <3>2. CASE ~Silent(b)
        <4>1. \E t \in {"exited", "error"} : Send(Reply(t, bridge[b].name, bridge[b].id))
          BY <1>3, <3>2 DEF PtyExit
        <4> QED BY <1>3, <4>1, TypeParts, BridgeIs, Sending DEF PtyExit, WireOK
      <3> QED BY <3>1, <3>2
    <2>5. HistOK' BY <1>3, TypeParts DEF PtyExit, HistOK
    <2>6. Free \in Bridges BY AttachAssumption DEF Free, Bridges
    <2>7. TmuxOK' BY <1>3, <2>6, TypeParts DEF PtyExit, TmuxOK
    <2> QED BY <2>1, <2>2, <2>3, <2>4, <2>5, <2>7, TypePartsNext
  <1> QED BY <1>1, <1>2, <1>3 DEF PtyStep

\* The end of a connection keeps the types.
LEMMA RemovalTyped ==
    ASSUME TypeOK, NEW w \in Removers, BeginRemoval(w), sock' \in {"hung", "shut", "open"}
    PROVE  TypeOK'
  <1>1. BrowserOK' /\ WireOK' /\ HistOK' BY Unchanged DEF BeginRemoval
  <1>2. HandlerOK' BY TypeParts DEF BeginRemoval, HandlerOK
  <1>3. ConnOK' BY TypeParts, DropPtyTyped DEF BeginRemoval, ConnOK
  <1>4. TmuxOK' BY TypeParts, DropPtyTyped DEF BeginRemoval, TmuxOK
  <1> QED BY <1>1, <1>2, <1>3, <1>4, TypePartsNext

\* The poll, the close event and every run of the removal.
LEMMA EndTyped ==
    ASSUME TypeOK, DrainPoll \/ CloseEvent \/ HangUp \/ RemovalSteps \/ Forgotten PROVE TypeOK'
  <1>1. CASE DrainPoll
    <2>1. BrowserOK' /\ WireOK' /\ HandlerOK' /\ ConnOK' /\ HistOK' BY <1>1, Unchanged DEF DrainPoll
    <2>2. TmuxOK' BY <1>1, TypeParts DEF DrainPoll, TmuxOK
    <2> QED BY <2>1, <2>2, TypePartsNext
  <1>2. CASE CloseEvent
    <2>1. BrowserOK' /\ TmuxOK' /\ HistOK' BY <1>2, Unchanged DEF CloseEvent
    <2>2. HandlerOK' BY <1>2, TypeParts DEF CloseEvent, HandlerOK
    <2>3. ConnOK' BY <1>2, TypeParts DEF CloseEvent, ConnOK
    <2>4. toRelay \in Seq(Requests) BY TypeParts DEF WireOK
    <2>5. toRelay' \in Seq(Requests) BY <1>2, <2>4, SubSeqAt DEF CloseEvent
    <2>6. WireOK' BY <1>2, <2>5, TypeParts DEF CloseEvent, WireOK
    <2> QED BY <2>1, <2>2, <2>3, <2>6, TypePartsNext
  <1>3. CASE HangUp BY <1>3, RemovalTyped DEF HangUp, Removers
  <1>4. CASE Remove BY <1>4, RemovalTyped DEF Remove, Removers
  <1>5. ASSUME NEW w \in Removers, RemovalStep(w) PROVE TypeOK'
    <2>1. BrowserOK' /\ WireOK' /\ HistOK' BY <1>5, Unchanged DEF RemovalStep
    <2>2. HandlerOK' BY <1>5, TypeParts DEF RemovalStep, HandlerOK
    <2>3. ConnOK' BY <1>5, TypeParts DEF RemovalStep, ConnOK
    <2>4. TmuxOK' BY <1>5, TypeParts, CloneKilledTyped DEF RemovalStep, TmuxOK
    <2> QED BY <2>1, <2>2, <2>3, <2>4, TypePartsNext
  <1>6. CASE Forgotten
    <2>1. BrowserOK' /\ WireOK' BY <1>6, Unchanged DEF Forgotten
    <2>2. HandlerOK' BY <1>6, TypeParts DEF Forgotten, HandlerOK
    <2>3. ConnOK' BY <1>6, TypeParts DEF Forgotten, ConnOK
    <2>4. Free \in Bridges BY AttachAssumption DEF Free, Bridges
    <2>5. TmuxOK' BY <1>6, <2>4, TypeParts DEF Forgotten, TmuxOK
    <2>6. HistOK' BY <1>6, TypeParts DEF Forgotten, HistOK
    <2> QED BY <2>1, <2>2, <2>3, <2>5, <2>6, TypePartsNext
  <1> QED BY <1>1, <1>2, <1>3, <1>4, <1>5, <1>6 DEF RemovalSteps

\* What others do to tmux touches the ptys in these ways only.
LEMMA OthersTyped == ASSUME TypeOK, Others PROVE TypeOK'
  <1>1. BrowserOK' /\ WireOK' /\ HandlerOK' /\ ConnOK' /\ HistOK' BY Unchanged DEF Others
  <1>2. \A b \in Slots : /\ Dead(b) \in Bridges
                         /\ \A m \in Names : [bridge[b] EXCEPT !.on = m] \in Bridges
    BY BridgeIs, BridgeFields DEF Dead
  <1>3. sessions \subseteq Names /\ clone \in Names \cup {None} /\ bridge \in [Slots -> Bridges]
    BY TypeParts DEF TmuxOK
  <1>4. sessions' \subseteq Names /\ clone' \in Names \cup {None} BY <1>3 DEF Others, EndSession
  <1>5. bridge' \in [Slots -> Bridges] BY <1>2, <1>3 DEF Others, EndSession
  <1>6. TmuxOK' BY <1>4, <1>5, TypeParts DEF Others, TmuxOK
  <1> QED BY <1>1, <1>6, TypePartsNext

\* Every step keeps the types.
LEMMA TypeStep == ASSUME TypeOK, Numbered, Next PROVE TypeOK'
  BY ChooseTyped, ConnectTyped, LinkBreaksTyped, ReceiveTyped, RelayTyped, PtyTyped, EndTyped,
     OthersTyped
  DEF Next

-----------------------------------------------------------------------------
(***************************************************************************)
(* What a step does to the ptys.                                           *)
(***************************************************************************)
\* What a pty answers for never changes while it lasts.
Kept(b) ==
    /\ bridge'[b].id = bridge[b].id /\ bridge'[b].name = bridge[b].name
    /\ bridge'[b].ready = bridge[b].ready
    /\ bridge'[b].st = "free" <=> bridge[b].st = "free"

\* A pty is as it was, shows another session or has died of itself.
Aged(b) ==
    \/ bridge'[b] = bridge[b]
    \/ /\ Kept(b) /\ bridge'[b].detaching = bridge[b].detaching
       /\ bridge'[b].st \in {bridge[b].st, "dead"} /\ bridge[b].st # "free"

\* A pty is as it was or has been let go of.
LetGoOf(b) ==
    IF b = pty THEN Kept(b) /\ bridge'[b].detaching /\ bridge'[b].st = "dead"
    ELSE bridge'[b] = bridge[b]

\* The fields of a pty of which one has changed.
LEMMA FieldsOf ==
    ASSUME NEW r \in Bridges, NEW n
    PROVE  /\ LET d == [r EXCEPT !.st = "dead"] IN
              d.st = "dead" /\ d.ready = r.ready /\ d.detaching = r.detaching /\ d.name = r.name /\ d.id = r.id
           /\ LET d == [r EXCEPT !.ready = TRUE] IN
              d.st = r.st /\ d.ready /\ d.detaching = r.detaching /\ d.name = r.name /\ d.id = r.id
           /\ LET d == [r EXCEPT !.on = n] IN
              d.st = r.st /\ d.ready = r.ready /\ d.detaching = r.detaching /\ d.name = r.name /\ d.id = r.id
           /\ LET d == [[[r EXCEPT !.st = "dead"] EXCEPT !.detaching = TRUE] EXCEPT !.on = None] IN
              d.st = "dead" /\ d.ready = r.ready /\ d.detaching /\ d.name = r.name /\ d.id = r.id
  BY DEF Bridges

\* conn.pty.kill() is of the connection's pty only.
LEMMA DropPtyIs ==
    ASSUME TypeOK, OnePty, DropPty
    PROVE  pty' = None /\ paused' = FALSE /\ \A b \in Slots : LetGoOf(b)
  <1> SUFFICES ASSUME NEW b \in Slots PROVE LetGoOf(b) BY DEF DropPty
  <1>0. bridge \in [Slots -> Bridges] /\ bridge[b] \in Bridges BY BridgeIs
  <1>1. CASE b = pty
    <2>1. bridge'[b] = Killed(b) /\ bridge[b].st # "free"
      BY <1>0, <1>1, AttachAssumption DEF DropPty, OnePty
    <2> QED BY <1>0, <1>1, <2>1, FieldsOf DEF Killed, Dead, LetGoOf, Kept
  <1>2. CASE b # pty BY <1>0, <1>2 DEF DropPty, LetGoOf
  <1> QED BY <1>1, <1>2

\* kill-session on the clone.
LEMMA CloneKilledIs ==
    ASSUME TypeOK, CloneKilled
    PROVE  clone' = None /\ \A b \in Slots : Aged(b)
  <1> SUFFICES ASSUME NEW b \in Slots PROVE Aged(b) BY DEF CloneKilled
  <1>0. bridge[b] \in Bridges BY BridgeIs
  <1>1. bridge'[b] = bridge[b] \/ (bridge'[b] = Dead(b) /\ bridge[b].st = "live") BY DEF CloneKilled
  <1>2. CASE bridge'[b] = bridge[b] BY <1>2 DEF Aged
  <1>3. CASE bridge'[b] = Dead(b) /\ bridge[b].st = "live"
    <2>1. /\ bridge'[b].st = "dead" /\ bridge'[b].ready = bridge[b].ready
          /\ bridge'[b].detaching = bridge[b].detaching /\ bridge'[b].name = bridge[b].name
          /\ bridge'[b].id = bridge[b].id
      BY <1>0, <1>3, FieldsOf DEF Dead
    <2> QED BY <1>3, <2>1 DEF Aged, Kept
  <1> QED BY <1>1, <1>2, <1>3

\* Other people's use of tmux.
LEMMA OthersIs ==
    ASSUME TypeOK, OnePty, Others
    PROVE  /\ \A b \in Slots : Aged(b)
           /\ clone = None => clone' = None
  <1>1. clone = None => clone' = None 
    BY AttachAssumption, TypeParts DEF Others, EndSession, TmuxOK
  <1> SUFFICES ASSUME NEW b \in Slots PROVE Aged(b) BY <1>1
  <1>0. bridge[b] \in Bridges BY BridgeIs
  <1>2. bridge[b].on \in Names => bridge[b].st # "free"
    BY AttachAssumption DEF OnePty, Free
  <1>3. \/ bridge'[b] = bridge[b]
        \/ bridge'[b] = Dead(b) /\ bridge[b].on \in Names
        \/ \E m \in Names : bridge'[b] = [bridge[b] EXCEPT !.on = m] /\ bridge[b].on \in Names
    BY TypeParts DEF Others, EndSession, TmuxOK
  <1>4. CASE bridge'[b] = bridge[b] BY <1>4 DEF Aged
  <1>5. CASE bridge'[b] = Dead(b) /\ bridge[b].on \in Names
    BY <1>0, <1>2, <1>5, FieldsOf DEF Dead, Aged, Kept
  <1>6. ASSUME NEW m \in Names, bridge'[b] = [bridge[b] EXCEPT !.on = m], bridge[b].on \in Names
        PROVE  Aged(b)
    <2>1. bridge[b].st # "free" BY <1>2, <1>6
    <2>2. /\ bridge'[b].st = bridge[b].st /\ bridge'[b].ready = bridge[b].ready
          /\ bridge'[b].detaching = bridge[b].detaching /\ bridge'[b].name = bridge[b].name
          /\ bridge'[b].id = bridge[b].id
      BY <1>0, <1>6, FieldsOf
    <2> QED BY <2>1, <2>2 DEF Aged, Kept
  <1> QED BY <1>3, <1>4, <1>5, <1>6

\* pty.spawn(): a free slot is taken by the attach that is handled.
LEMMA SpawnIs ==
    ASSUME TypeOK, Spawn
    PROVE  /\ pty' \in Slots /\ bridge[pty'].st = "free"
           /\ \A b \in Slots : b # pty' => bridge'[b] = bridge[b]
           /\ bridge'[pty'].st # "free" /\ ~bridge'[pty'].ready /\ ~bridge'[pty'].detaching
           /\ bridge'[pty'].name = msg.name /\ bridge'[pty'].id = msg.id
           /\ at' = "idle" /\ msg' = None /\ paused' = FALSE /\ attachedSession' = msg.name
           /\ cloneSession' = readOnly
           /\ at \in {"found", "locking"}
  <1>1. pty' \in Slots /\ bridge[pty'].st = "free" BY DEF Spawn, Slots
  <1>2. bridge \in [Slots -> Bridges] BY TypeParts DEF TmuxOK
  <1>3. /\ at' = "idle" /\ msg' = None /\ paused' = FALSE /\ attachedSession' = msg.name
        /\ cloneSession' = readOnly
        /\ at \in {"found", "locking"}
    BY DEF Spawn, Done, Attachable
  <1>4. \E t : bridge' = [bridge EXCEPT ![pty'] =
              [st |-> IF t = None THEN "dead" ELSE "live", ready |-> FALSE,
               detaching |-> FALSE, name |-> msg.name, on |-> t, id |-> msg.id]]
    BY DEF Spawn
  <1> QED BY <1>1, <1>2, <1>3, <1>4

\* The acknowledgement.
LEMMA ReadyIs ==
    ASSUME TypeOK, NEW b \in Slots, Ready(b)
    PROVE  /\ \A c \in Slots : c # b => bridge'[c] = bridge[c]
           /\ bridge'[b].ready /\ bridge'[b].id = bridge[b].id /\ bridge'[b].name = bridge[b].name
           /\ bridge'[b].st = bridge[b].st /\ bridge'[b].detaching = bridge[b].detaching
           /\ ~bridge[b].ready /\ bridge[b].st # "free"
  <1>1. bridge \in [Slots -> Bridges] /\ bridge[b] \in Bridges BY BridgeIs
  <1>2. bridge' = [bridge EXCEPT ![b] = [bridge[b] EXCEPT !.ready = TRUE]] BY DEF Ready
  <1>3. bridge'[b] = [bridge[b] EXCEPT !.ready = TRUE] BY <1>1, <1>2
  <1> QED BY <1>1, <1>2, <1>3, FieldsOf DEF Ready

\* The exit of a pty: heard if it is still the connection's, silent otherwise.
LEMMA PtyExitIs ==
    ASSUME TypeOK, OnePty, NEW b \in Slots, PtyExit(b)
    PROVE  /\ \A c \in Slots : c # b => bridge'[c] = bridge[c]
           /\ bridge'[b] = Free
           /\ \/ /\ bridge[b].detaching /\ b # pty
                 /\ UNCHANGED <<pty, attachedSession, paused, toBrowser, refused>>
              \/ /\ ~bridge[b].detaching /\ b = pty
                 /\ pty' = None /\ attachedSession' = None /\ paused' = FALSE
                 /\ refused' = (refused \/ bridge[b].id = sent)
                 /\ Send(Reply(IF bridge[b].ready THEN "exited" ELSE "error", bridge[b].name, bridge[b].id))
  <1>1. bridge \in [Slots -> Bridges] BY BridgeIs
  <1>2. CASE Silent(b) BY <1>1, <1>2, AttachAssumption DEF PtyExit, Silent, OnePty
  <1>3. CASE ~Silent(b) BY <1>1, <1>3, AttachAssumption DEF PtyExit, Silent, OnePty
  <1> QED BY <1>2, <1>3

-----------------------------------------------------------------------------
(***************************************************************************)
(* One pty.                                                                *)
(***************************************************************************)
\* Ptys that have only aged belong to whom they belonged.
LEMMA AgedOnePty ==
    ASSUME TypeOK, OnePty, \A b \in Slots : Aged(b), pty' = pty,
           at' \in {"dropping", "dropped", "found", "locking"} => pty = None
    PROVE  OnePty'
  <1>1. ASSUME NEW b \in Slots PROVE
        /\ bridge'[b].st = "free" <=> bridge[b].st = "free"
        /\ bridge'[b].detaching = bridge[b].detaching
        /\ bridge[b].st = "dead" => bridge'[b].st = "dead"
        /\ bridge[b].st = "free" => bridge'[b] = bridge[b]
    BY DEF Aged, Kept
  <1>2. pty \in Slots \cup {None} BY TypeParts DEF ConnOK
  <1> QED BY <1>1, <1>2 DEF OnePty

\* Once the connection's pty is let go of, there is none that is not.
LEMMA LetGoOnePty ==
    ASSUME TypeOK, OnePty, pty' = None, \A b \in Slots : LetGoOf(b) PROVE OnePty'
  <1>1. ASSUME NEW b \in Slots PROVE
        /\ bridge'[b].st = "free" => bridge'[b] = Free
        /\ bridge'[b].st # "free" => bridge'[b].detaching
        /\ bridge'[b].detaching => bridge'[b].st = "dead"
    BY DEF LetGoOf, OnePty
  <1> QED BY <1>1 DEF OnePty

\* Every step keeps the connection to one pty.
LEMMA OnePtyStep == ASSUME TypeOK, OnePty, Lifecycle, Next PROVE OnePty'
  <1>0. pty \in Slots \cup {None} BY TypeParts DEF ConnOK
  <1>1. ASSUME UNCHANGED <<bridge, pty>>, at' \in {"dropping", "dropped", "found", "locking"} => pty = None
        PROVE  OnePty'
    BY <1>1 DEF OnePty
  <1>2. CASE \/ \E n \in Names \cup {None} : Choose(n)
             \/ Connect \/ LinkBreaks \/ Receive \/ Take \/ FindSession \/ MakeClone
             \/ DrainPoll \/ CloseEvent \/ \E b \in Slots : Output(b)
    <2>1. UNCHANGED <<bridge, pty>>
      BY <1>2 DEF Choose, Connect, LinkBreaks, Receive, Take, FindSession, MakeClone, DrainPoll,
                  CloseEvent, Output, connVars, tmuxVars
    <2>2. \/ at' = at \/ at' \in {"passed", "idle"} \/ at \in {"dropped", "found"}
      BY <1>2 DEF Choose, Connect, LinkBreaks, Receive, Take, FindSession, MakeClone, DrainPoll,
                  CloseEvent, Output, connVars
    <2> QED BY <1>1, <2>1, <2>2 DEF OnePty
  <1>f. CASE Forgotten
    <2>1. pty' = None /\ \A b \in Slots : bridge'[b] = Free
      BY <1>f, AttachAssumption DEF Forgotten, Gone, Lifecycle
    <2>2. Free.st = "free" /\ ~Free.detaching BY DEF Free
    <2> QED BY <2>1, <2>2 DEF OnePty
  <1>3. CASE LetGo BY <1>3, DropPtyIs, LetGoOnePty DEF LetGo
  <1>4. CASE HangUp \/ Remove BY <1>4, DropPtyIs, LetGoOnePty DEF HangUp, Remove, BeginRemoval
  <1>5. CASE DropClone \/ LockFails
    <2>1. \A b \in Slots : Aged(b) BY <1>5, CloneKilledIs DEF DropClone, LockFails, TornDown
    <2>2. pty' = pty /\ pty = None BY <1>5 DEF DropClone, LockFails, OnePty
    <2> QED BY <2>1, <2>2, AgedOnePty
  <1>6. CASE SpawnFails
    <2>1. \A b \in Slots : Aged(b) BY <1>6, CloneKilledIs DEF SpawnFails, Aged
    <2>2. pty' = pty /\ pty = None BY <1>6 DEF SpawnFails, Attachable, OnePty
    <2> QED BY <2>1, <2>2, AgedOnePty
  <1>7. CASE Spawn
    <2>1. pty = None BY <1>7, SpawnIs DEF OnePty
    <2>2. at' = "idle" /\ pty' \in Slots BY <1>7, SpawnIs
    <2>3. ASSUME NEW b \in Slots PROVE
          /\ bridge'[b].st = "free" => bridge'[b] = Free
          /\ bridge'[b].st # "free" /\ ~bridge'[b].detaching => pty' = b
          /\ bridge'[b].detaching => bridge'[b].st = "dead"
      BY <1>7, <2>1, SpawnIs, AttachAssumption DEF OnePty
    <2> QED BY <1>7, <2>2, <2>3, SpawnIs DEF OnePty
  <1>8. ASSUME NEW b \in Slots, Ready(b) PROVE OnePty'
    <2>1. pty' = pty /\ at' = at BY <1>8 DEF Ready, connVars
    <2>2. ASSUME NEW c \in Slots PROVE
          /\ bridge'[c].st = bridge[c].st /\ bridge'[c].detaching = bridge[c].detaching
          /\ bridge[c].st = "free" => bridge'[c] = bridge[c]
      BY <1>8, ReadyIs
    <2> QED BY <1>0, <2>1, <2>2 DEF OnePty
  <1>9. ASSUME NEW b \in Slots, PtyExit(b) PROVE OnePty'
    <2>1. at' = at BY <1>9 DEF PtyExit
    <2>2. pty' # None => pty' = pty /\ pty # b BY <1>9, PtyExitIs
    <2>3. pty' = None \/ pty' = pty BY <1>9, PtyExitIs
    <2>4. bridge'[b].st = "free" /\ ~bridge'[b].detaching /\ bridge'[b] = Free
      <3>1. bridge'[b] = Free BY <1>9, PtyExitIs
      <3>2. Free.st = "free" /\ ~Free.detaching BY DEF Free
      <3> QED BY <3>1, <3>2
    <2>5. ASSUME NEW c \in Slots, c # b PROVE
          /\ bridge'[c] = bridge[c]
          /\ pty = c => pty' = c
      BY <1>9, <2>5, PtyExitIs
    <2> QED BY <1>0, <2>1, <2>2, <2>3, <2>4, <2>5 DEF OnePty
  <1>10. ASSUME NEW w \in Removers, RemovalStep(w) PROVE OnePty'
    <2>1. \A b \in Slots : Aged(b) BY <1>10, CloneKilledIs DEF RemovalStep, Aged
    <2>2. pty' = pty /\ at' = at BY <1>10 DEF RemovalStep
    <2> QED BY <2>1, <2>2, AgedOnePty DEF OnePty
  <1>11. CASE Others
    <2>1. pty' = pty /\ at' = at BY <1>11 DEF Others, connVars
    <2> QED BY <1>11, <2>1, OthersIs, AgedOnePty DEF OnePty
  <1> QED BY <1>2, <1>3, <1>4, <1>5, <1>6, <1>7, <1>8, <1>9, <1>10, <1>11, <1>f
          DEF Next, RelayStep, PtyStep, RemovalSteps

-----------------------------------------------------------------------------
(***************************************************************************)
(* The ends of a connection.                                               *)
(***************************************************************************)
\* With a connection the browser always asks: it never believes itself attached
\* to what it has just chosen, nor to anything on a fresh connection.
LEMMA AlwaysAsks ==
    /\ \A n \in Names : Lifecycle /\ OfLast /\ Choose(n) /\ up => NeedsAttach(n)
    /\ Lifecycle /\ Connect => NeedsAttach(desired)
  BY DEF Lifecycle, OfLast, Wanted, Choose, Connect, NeedsAttach

\* Only on an open socket whose browser still listens does a reply get through.
LEMMA OnlyWhenUp ==
    ASSUME Lifecycle, NEW m, Send(m)
    PROVE  ~up => toBrowser' = <<>>
  BY DEF Lifecycle, Send, Sent

\* Steps that leave the ends of the connection alone, and the queues of one that
\* is over.
LEMMA LifecycleKept ==
    ASSUME Lifecycle, UNCHANGED <<up, sock, removal>>,
           ~up => toBrowser' = <<>> /\ phase' # "attached",
           sock = "none" \/ removal["close"] # "no" => at' = "idle" /\ toRelay' = <<>> /\ pty' = None
    PROVE  Lifecycle'
  BY DEF Lifecycle

\* Every step keeps the ends of the connection together.
LEMMA LifecycleStep == ASSUME TypeOK, OnePty, Lifecycle, OfLast, Next PROVE Lifecycle'
  <1>0. /\ removal \in [Removers -> {"no", "kill", "forget", "rest", "done"}]
        /\ sock \in {"none", "open", "hung", "shut"}
    BY TypeParts DEF ConnOK
  <1>1. ASSUME NEW n \in Names \cup {None}, Choose(n) PROVE Lifecycle'
    <2>1. UNCHANGED <<up, sock, removal, at, pty, toBrowser>> BY <1>1 DEF Choose, connVars
    <2>2. ~up => phase' # "attached" /\ toRelay' = toRelay
      BY <1>1 DEF Choose, Detach, ConnectionLost, Lifecycle
    <2>3. up => sock # "none" /\ removal["close"] = "no" BY DEF Lifecycle
    <2>4. ~up => toBrowser = <<>> BY DEF Lifecycle
    <2>5. sock = "none" \/ removal["close"] # "no" => at = "idle" /\ toRelay = <<>> /\ pty = None
      BY DEF Lifecycle
    <2> QED BY <2>1, <2>2, <2>3, <2>4, <2>5, LifecycleKept
  <1>2. CASE Connect BY <1>0, <1>2 DEF Connect, Lifecycle, Removers
  <1>3. CASE LinkBreaks BY <1>0, <1>3 DEF LinkBreaks, ConnectionLost, Lifecycle, connVars
  <1>4. CASE Receive
    <2>1. up /\ UNCHANGED <<up, sock, removal, at, pty>> BY <1>4 DEF Receive, connVars
    <2> QED BY <2>1, LifecycleKept DEF Lifecycle
  <1>5. CASE Take
    <2>1. UNCHANGED <<up, sock, removal, pty, phase>> BY <1>5 DEF Take, browserVars
    <2>2. sock # "none" /\ toRelay # <<>> BY <1>5 DEF Take
    <2>3. removal["close"] = "no" BY <2>2 DEF Lifecycle
    <2>4. ~up => toBrowser' = <<>> BY <1>5, OnlyWhenUp DEF Take, Lifecycle
    <2> QED BY <2>1, <2>2, <2>3, <2>4, LifecycleKept DEF Lifecycle
  <1>6. CASE LetGo \/ DropClone \/ FindSession \/ MakeClone \/ LockFails \/ Spawn \/ SpawnFails
    <2>1. UNCHANGED <<up, sock, removal, phase, toRelay>>
      BY <1>6 DEF LetGo, DropClone, FindSession, MakeClone, LockFails, Spawn, SpawnFails,
                  browserVars, wireVars
    <2>2. at # "idle"
      BY <1>6 DEF LetGo, DropClone, FindSession, MakeClone, LockFails, Spawn, SpawnFails, Attachable
    <2>3. ~up => toBrowser' = <<>>
      BY <1>6, OnlyWhenUp DEF LetGo, DropClone, FindSession, MakeClone, LockFails, Spawn, SpawnFails,
                              Refuse, wireVars, Lifecycle
    <2> QED BY <2>1, <2>2, <2>3, LifecycleKept DEF Lifecycle
  <1>7. ASSUME NEW b \in Slots, Ready(b) \/ Output(b) PROVE Lifecycle'
    <2>1. UNCHANGED <<up, sock, removal, phase, toRelay, at, pty>>
      BY <1>7 DEF Ready, Output, browserVars, connVars
    <2>2. ~up => toBrowser' = <<>> BY <1>7, OnlyWhenUp DEF Ready, Output, Sent, Lifecycle
    <2> QED BY <2>1, <2>2, LifecycleKept DEF Lifecycle
  <1>8. ASSUME NEW b \in Slots, PtyExit(b) PROVE Lifecycle'
    <2>1. UNCHANGED <<up, sock, removal, phase, toRelay, at>> BY <1>8 DEF PtyExit, browserVars
    <2>2. ~up => toBrowser' = <<>> BY <1>8, OnlyWhenUp DEF PtyExit, Lifecycle
    <2>3. pty' \in {None, pty} BY <1>8 DEF PtyExit
    <2> QED BY <2>1, <2>2, <2>3, LifecycleKept DEF Lifecycle
  <1>9. CASE DrainPoll \/ Others
    BY <1>9, LifecycleKept DEF DrainPoll, Others, browserVars, wireVars, connVars, Lifecycle
  <1>10. CASE CloseEvent
    <2>1. removal' = removal /\ ~up /\ up' = up /\ UNCHANGED <<phase, toBrowser>> /\ sock' = "shut"
      BY <1>10 DEF CloseEvent, browserVars
    <2>2. removal["close"] = "no" BY <1>10 DEF CloseEvent, Lifecycle
    <2> QED BY <2>1, <2>2 DEF Lifecycle
  <1>11. CASE HangUp
    <2>1. UNCHANGED <<up, toBrowser, phase, at, toRelay>> /\ pty' = None /\ sock' \in {"hung", "shut"}
      BY <1>11, DropPtyIs DEF HangUp, BeginRemoval, browserVars, wireVars
    <2>2. removal'["close"] = removal["close"]
      BY <1>0, <1>11 DEF HangUp, BeginRemoval, Removers
    <2>3. sock' = "shut" <=> sock = "shut" BY <1>11 DEF HangUp
    <2>4. sock # "none" BY <1>11 DEF HangUp
    <2> QED BY <1>0, <2>1, <2>2, <2>3, <2>4 DEF Lifecycle
  <1>12. CASE Remove
    <2>1. UNCHANGED <<up, toBrowser, phase, at, toRelay, sock>> /\ pty' = None
      BY <1>12, DropPtyIs DEF Remove, BeginRemoval, browserVars, wireVars
    <2> QED BY <1>12, <2>1 DEF Remove, Drained, Lifecycle
  <1>13. ASSUME NEW w \in Removers, RemovalStep(w) PROVE Lifecycle'
    <2>1. UNCHANGED <<up, toBrowser, phase, at, toRelay, sock, pty>>
      BY <1>13 DEF RemovalStep, browserVars, wireVars
    <2>2. removal[w] # "no" /\ sock # "none" /\ sock # "open"
      BY <1>13 DEF RemovalStep, Lifecycle
    <2>3. removal'["close"] # "no" => removal["close"] # "no"
      BY <1>0, <1>13 DEF RemovalStep, Removers
    <2> QED BY <2>1, <2>2, <2>3 DEF Lifecycle
  <1>14. CASE Forgotten
    <2>1. UNCHANGED <<up, toBrowser, phase, at, toRelay, pty>>
      BY <1>14 DEF Forgotten, browserVars, wireVars
    <2>2. removal["close"] # "no" /\ removal' = [w \in Removers |-> "no"] /\ sock' = "none"
      BY <1>14 DEF Forgotten, Gone
    <2> QED BY <2>1, <2>2 DEF Lifecycle, Removers
  <1> QED BY <1>1, <1>2, <1>3, <1>4, <1>5, <1>6, <1>7, <1>8, <1>9, <1>10, <1>11, <1>12, <1>13, <1>14
          DEF Next, RelayStep, PtyStep, RemovalSteps

-----------------------------------------------------------------------------
(***************************************************************************)
(* The clone.                                                              *)
(***************************************************************************)
\* Steps that leave the clone and the removals alone.
LEMMA ClonesKept ==
    ASSUME Clones, UNCHANGED <<readOnly, removal, cloneSession, clone>>,
           at = "locking" => at' = "locking",
           at' \in {"dropped", "found", "locking"} => ~cloneSession \/ at \in {"dropped", "found", "locking"}
    PROVE  Clones'
  BY DEF Clones

\* Every step keeps somebody who will destroy the clone.
LEMMA ClonesStep == ASSUME TypeOK, OnePty, Lifecycle, Clones, Next PROVE Clones'
  <1>0. /\ removal \in [Removers -> {"no", "kill", "forget", "rest", "done"}]
        /\ cloneSession \in BOOLEAN /\ readOnly \in BOOLEAN
    BY TypeParts DEF ConnOK
  <1>1. CASE \/ \E n \in Names \cup {None} : Choose(n)
             \/ Connect \/ LinkBreaks \/ Receive \/ DrainPoll \/ CloseEvent
             \/ \E b \in Slots : Ready(b) \/ Output(b) \/ PtyExit(b)
    <2>1. UNCHANGED <<readOnly, removal, cloneSession, clone, at>>
      BY <1>1 DEF Choose, Connect, LinkBreaks, Receive, DrainPoll, CloseEvent, Ready, Output, PtyExit,
                  connVars, tmuxVars
    <2> QED BY <2>1, ClonesKept
  <1>2. CASE Take
    <2>1. UNCHANGED <<readOnly, removal, cloneSession, clone>> /\ at = "idle" /\ at' \in {"idle", "passed"}
      BY <1>2 DEF Take, tmuxVars
    <2> QED BY <2>1, ClonesKept
  <1>3. CASE LetGo
    <2>1. /\ UNCHANGED <<readOnly, removal, cloneSession, clone>> /\ at = "passed"
          /\ at' = "dropped" => ~cloneSession
          /\ at' \in {"dropping", "dropped", "idle"}
      BY <1>3 DEF LetGo, Done
    <2> QED BY <2>1, ClonesKept
  <1>4. CASE DropClone
    <2>1. clone' = None /\ cloneSession' = FALSE /\ UNCHANGED <<readOnly, removal>>
      BY <1>4 DEF DropClone, CloneKilled
    <2> QED BY <2>1 DEF Clones
  <1>5. CASE FindSession
    <2>1. /\ UNCHANGED <<readOnly, removal, cloneSession, clone>> /\ at = "dropped"
          /\ at' \in {"found", "idle"}
      BY <1>5 DEF FindSession, Refuse, Done, tmuxVars
    <2> QED BY <2>1, ClonesKept
  <1>6. CASE MakeClone
    <2>1. at = "found" /\ readOnly /\ UNCHANGED <<readOnly, removal, cloneSession>> BY <1>6 DEF MakeClone
    <2>2. (at' = "locking" /\ clone = None) \/ (at' = "idle" /\ clone' = clone)
      BY <1>6 DEF MakeClone, Refuse, Done
    <2>3. removal["close"] = "no" BY <2>1 DEF Lifecycle
    <2> QED BY <2>1, <2>2, <2>3 DEF Clones
  <1>7. CASE LockFails
    <2>1. clone' = None /\ at' = "idle" /\ UNCHANGED <<readOnly, removal, cloneSession>>
      BY <1>7 DEF LockFails, TornDown, CloneKilled, Refuse, Done
    <2> QED BY <2>1 DEF Clones
  <1>8. CASE Spawn
    <2>1. UNCHANGED <<readOnly, removal, clone>> /\ at' = "idle" /\ cloneSession' = readOnly /\ at # "idle"
      BY <1>8 DEF Spawn, Done, Attachable
    <2>2. removal["close"] = "no" BY <2>1 DEF Lifecycle
    <2> QED BY <2>1, <2>2 DEF Clones
  <1>9. CASE SpawnFails
    <2>1. /\ UNCHANGED <<readOnly, removal>> /\ at' = "idle" /\ cloneSession' = FALSE
          /\ IF readOnly THEN clone' = None ELSE clone' = clone
      BY <1>9 DEF SpawnFails, Refuse, Done, CloneKilled
    <2> QED BY <2>1 DEF Clones
  <1>10. CASE HangUp
    <2>1. UNCHANGED <<readOnly, clone>> BY <1>10 DEF HangUp, BeginRemoval
    <2>2. removal'["hangup"] # "no" BY <1>0, <1>10 DEF HangUp, BeginRemoval, Removers
    <2> QED BY <2>1, <2>2 DEF Clones
  <1>11. CASE Remove
    <2>1. UNCHANGED <<readOnly, clone, cloneSession, at>> /\ at = "idle"
      BY <1>11 DEF Remove, Drained, BeginRemoval
    <2>2. /\ removal'["hangup"] = removal["hangup"]
          /\ removal'["close"] = IF cloneSession THEN "kill" ELSE "rest"
      BY <1>0, <1>11 DEF Remove, BeginRemoval, Removers
    <2> QED BY <1>0, <2>1, <2>2 DEF Clones
  <1>12. ASSUME NEW w \in Removers, RemovalStep(w) PROVE Clones'
    <2>1. UNCHANGED <<readOnly, at>> BY <1>12 DEF RemovalStep
    <2>2. CASE w = "hangup"
      <3>1. removal'["hangup"] # "no" BY <1>0, <1>12, <2>2 DEF RemovalStep
      <3>2. clone' = None \/ clone' = clone BY <1>12 DEF RemovalStep, CloneKilled
      <3> QED BY <2>1, <3>1, <3>2 DEF Clones
    <2>3. CASE w = "close"
      <3>1. removal'["hangup"] = removal["hangup"] BY <1>0, <1>12, <2>3 DEF RemovalStep, Removers
      <3>2. removal["close"] # "no" BY <1>12, <2>3 DEF RemovalStep
      <3>3. at = "idle" BY <3>2 DEF Lifecycle
      <3>4. \/ clone' = None
            \/ removal["close"] \in {"forget", "rest"} /\ clone' = clone
        BY <1>12, <2>3 DEF RemovalStep, CloneKilled
      <3>5. cloneSession' = cloneSession \/ (cloneSession' = FALSE /\ removal["close"] = "forget")
        BY <1>12, <2>3 DEF RemovalStep
      <3> QED BY <2>1, <3>1, <3>3, <3>4, <3>5 DEF Clones
    <2> QED BY <2>2, <2>3 DEF Removers
  <1>13. CASE Forgotten
    <2>1. clone' = None /\ cloneSession' = FALSE /\ UNCHANGED readOnly BY <1>13 DEF Forgotten
    <2> QED BY <2>1 DEF Clones
  <1>14. CASE Others
    <2>1. UNCHANGED <<readOnly, at, removal, cloneSession>> /\ (clone = None => clone' = None)
      BY <1>14, OthersIs DEF Others, connVars
    <2> QED BY <2>1 DEF Clones
  <1> QED BY <1>1, <1>2, <1>3, <1>4, <1>5, <1>6, <1>7, <1>8, <1>9, <1>10, <1>11, <1>12, <1>13, <1>14
          DEF Next, RelayStep, PtyStep, RemovalSteps

-----------------------------------------------------------------------------
(***************************************************************************)
(* What a step does to the queue of the relay.                             *)
(***************************************************************************)
\* The browser asks for what it wants, under the next number.
Asks ==
    /\ sent' = sent + 1 /\ UNCHANGED <<at, msg, toBrowser, bridge, pty, attachedSession, paused>>
    /\ toRelay' = Append(toRelay, [type |-> "attach", name |-> name', id |-> sent + 1])
    /\ name' = desired' /\ name' \in Names /\ phase' = "attaching" /\ up' /\ sock' \in {"open", "hung"}
    /\ [type |-> "attach", name |-> name', id |-> sent + 1] \in Requests

\* It wants nothing any more, or the step is nothing to the queue.
Leaves ==
    /\ UNCHANGED <<sent, at, msg>>
    /\ \/ toRelay' = toRelay
       \/ toRelay' = Append(toRelay, [type |-> "detach", name |-> None, id |-> 0]) /\ phase' = "idle"

\* A message is taken, and handled or refused.
Takes ==
    /\ at = "idle" /\ toRelay # <<>> /\ toRelay' = Tail(toRelay) /\ UNCHANGED sent
    /\ \/ at' = "passed" /\ msg' = Head(toRelay)
       \/ UNCHANGED <<at, msg>> /\ IsAttach(Head(toRelay))

\* The handler goes on, or has ended.
Handles ==
    /\ at # "idle" /\ UNCHANGED <<sent, toRelay>>
    /\ \/ at' # "idle" /\ msg' = msg /\ (at' \in {"dropped", "found", "locking"} => IsAttach(msg))
       \/ at' = "idle"

\* What was on its way to a socket that has closed is lost.
Cuts ==
    /\ UNCHANGED <<sent, at, msg>> /\ ~up'
    /\ \E n \in 0 .. Len(toRelay) : toRelay' = SubSeq(toRelay, 1, n)

\* The effect with a session and a connection, when it has to ask.
LEMMA AskIs ==
    ASSUME TypeOK, NEW n \in Names, RequestAttach(n), NeedsAttach(n), n = desired', up',
           sock' \in {"open", "hung"},
           UNCHANGED <<at, msg, toBrowser, bridge, pty, attachedSession, paused>>
    PROVE  Asks
  <1>1. sent < MaxAttaches /\ sent' = sent + 1 /\ name' = n /\ phase' = "attaching"
    BY DEF RequestAttach
  <1>2. toRelay' = Append(toRelay, [type |-> "attach", name |-> n, id |-> sent + 1])
    BY DEF RequestAttach
  <1>3. [type |-> "attach", name |-> n, id |-> sent + 1] \in Requests BY <1>1, RequestIs
  <1> QED BY <1>1, <1>2, <1>3 DEF Asks

\* The effect without a session.
LEMMA DetachLeaves == ASSUME Detach, UNCHANGED <<at, msg>> PROVE Leaves
  BY DEF Detach, Leaves

\* Every step is one of these to the queue, and one that is not the browser's
\* leaves what it wants alone.
LEMMA QueueMoves ==
    ASSUME TypeOK, OnePty, Lifecycle, OfLast, Queued, Next
    PROVE  /\ Asks \/ Leaves \/ Takes \/ Handles \/ Cuts
           /\ Wanted' => \/ Asks
                         \/ /\ Wanted /\ UNCHANGED <<sent, name, desired>>
                            /\ Receive \/ UNCHANGED <<phase, painted, missed>>
           /\ desired' = None => phase' = "idle"
  <1>0. desired = None => phase = "idle" BY DEF OfLast
  <1>1. ASSUME NEW n \in Names \cup {None}, Choose(n)
        PROVE  /\ Asks \/ Leaves
               /\ Wanted' => Asks
               /\ desired' = None => phase' = "idle"
    <2>1. CASE n = None
      <3>1. Leaves BY <1>1, <2>1, DetachLeaves DEF Choose, connVars
      <3>2. phase' = "idle" BY <1>1, <2>1 DEF Choose, Detach
      <3> QED BY <3>1, <3>2 DEF Wanted
    <2>2. CASE n # None /\ up
      <3>1. NeedsAttach(n) /\ n \in Names BY <1>1, <2>2, AlwaysAsks
      <3>2. /\ RequestAttach(n) /\ n = desired' /\ up'
            /\ UNCHANGED <<sock, at, msg, toBrowser, bridge, pty, attachedSession, paused>>
        BY <1>1, <2>2 DEF Choose, connVars, tmuxVars
      <3>3. sock \in {"open", "hung"} BY <2>2 DEF Lifecycle
      <3>4. Asks BY <3>1, <3>2, <3>3, AskIs
      <3> QED BY <2>2, <3>2, <3>4
    <2>3. CASE n # None /\ ~up
      <3>1. desired' # None /\ ~up' /\ Leaves BY <1>1, <2>3 DEF Choose, ConnectionLost, Leaves, connVars
      <3> QED BY <3>1 DEF Wanted
    <2> QED BY <2>1, <2>2, <2>3
  <1>2. CASE Connect
    <2>1. CASE desired = None
      <3>1. phase' = "idle" /\ Leaves BY <1>0, <1>2, <2>1 DEF Connect, Leaves
      <3> QED BY <3>1 DEF Wanted
    <2>2. CASE desired # None
      <3>1. desired \in Names BY <2>2, TypeParts DEF BrowserOK
      <3>2. NeedsAttach(desired) BY <1>2, AlwaysAsks
      <3>3. /\ RequestAttach(desired) /\ desired' = desired /\ up' /\ sock' = "open"
            /\ UNCHANGED <<at, msg, toBrowser, bridge, pty, attachedSession, paused>>
        BY <1>2, <2>2 DEF Connect, tmuxVars
      <3>4. Asks BY <3>1, <3>2, <3>3, AskIs
      <3> QED BY <2>2, <3>3, <3>4
    <2> QED BY <2>1, <2>2
  <1>3. CASE LinkBreaks
    <2>1. ~up' /\ Leaves /\ (phase = "idle" => phase' = "idle") /\ desired' = desired
      BY <1>3 DEF LinkBreaks, ConnectionLost, Leaves, connVars
    <2> QED BY <1>0, <2>1 DEF Wanted
  <1>4. CASE Receive
    <2> DEFINE m == Head(toBrowser)
    <2>1. UNCHANGED <<up, at, msg>> /\ up BY <1>4 DEF Receive, connVars
    <2>2. CASE /\ UNCHANGED <<sent, toRelay, desired, name>>
               /\ phase' = phase \/ (phase = "attaching" /\ phase' = "attached")
      BY <1>0, <1>4, <2>1, <2>2 DEF Leaves, Wanted
    <2>3. CASE Detach
      <3>1. phase' = "idle" BY <2>3 DEF Detach
      <3> QED BY <2>1, <2>3, <3>1, DetachLeaves DEF Wanted
    <2>4. CASE m.type = "attached" BY <1>4, <2>2, <2>4, ReceiveCases DEF Acknowledges
    <2>5. CASE m.type \in {"output", "error"} BY <1>4, <2>2, <2>5, ReceiveCases DEF browserVars
    <2>6. CASE m.type = "exited"
      <3>1. Exited(m.name) BY <1>4, <2>6, ReceiveCases
      <3> QED BY <2>2, <2>3, <3>1 DEF Exited
    <2> QED BY <1>4, <2>4, <2>5, <2>6, ReceiveCases
  <1>5. ASSUME UNCHANGED browserVars, UNCHANGED up, UNCHANGED <<painted, missed>>
        PROVE  /\ Wanted' => Wanted /\ UNCHANGED <<sent, name, desired, phase, painted, missed>>
               /\ desired' = None => phase' = "idle"
    BY <1>0, <1>5 DEF browserVars, Wanted
  <1>6. CASE Take
    <2>1. toRelay \in Seq(Requests) /\ toRelay # <<>> BY <1>6, TypeParts DEF WireOK, Take
    <2>2. Head(toRelay).type \in {"attach", "detach"} BY <2>1, TailAt, RequestFields
    <2>3. Takes BY <1>6, <2>1, <2>2 DEF Take, Takes, IsAttach, browserVars
    <2>4. UNCHANGED browserVars /\ UNCHANGED up /\ UNCHANGED <<painted, missed>> BY <1>6 DEF Take
    <2> QED BY <1>5, <2>3, <2>4
  <1>7. CASE LetGo \/ DropClone \/ FindSession \/ MakeClone \/ LockFails \/ Spawn \/ SpawnFails
    <2>1. UNCHANGED browserVars /\ UNCHANGED up /\ UNCHANGED toRelay /\ at # "idle"
          /\ UNCHANGED <<painted, missed>>
      BY <1>7 DEF LetGo, DropClone, FindSession, MakeClone, LockFails, Spawn, SpawnFails, wireVars,
                  histVars, Attachable
    <2>2. \/ at' = "idle"
          \/ /\ at' # "idle" /\ msg' = msg
             /\ at' \in {"dropped", "found", "locking"} => IsAttach(msg)
      BY <1>7 DEF LetGo, DropClone, FindSession, MakeClone, LockFails, Spawn, SpawnFails, Refuse, Done,
                  Queued, IsAttach
    <2>3. Handles BY <2>1, <2>2 DEF Handles, browserVars
    <2> QED BY <1>5, <2>1, <2>3
  <1>8. CASE \/ \E b \in Slots : PtyStep(b) \/ Output(b)
             \/ DrainPoll \/ HangUp \/ RemovalSteps \/ Forgotten \/ Others
    <2>1. UNCHANGED browserVars /\ UNCHANGED up /\ UNCHANGED <<toRelay, at, msg, painted, missed>>
      BY <1>8 DEF PtyStep, Ready, PtyExit, Output, DrainPoll, HangUp, RemovalSteps, Remove, RemovalStep,
                  BeginRemoval, Forgotten, Others, connVars, wireVars, histVars
    <2>2. Leaves BY <2>1 DEF Leaves, browserVars
    <2> QED BY <1>5, <2>1, <2>2
  <1>9. CASE CloseEvent
    <2>1. Cuts BY <1>9 DEF CloseEvent, Cuts, browserVars
    <2>2. UNCHANGED browserVars /\ UNCHANGED up /\ UNCHANGED <<painted, missed>>
      BY <1>9 DEF CloseEvent, histVars
    <2> QED BY <1>5, <2>1, <2>2
  <1> QED BY <1>1, <1>2, <1>3, <1>4, <1>6, <1>7, <1>8, <1>9 DEF Next, RelayStep

-----------------------------------------------------------------------------
(***************************************************************************)
(* Attach ids.                                                             *)
(***************************************************************************)
\* Where a message of the relay's queue was before the step.
LEMMA QueueFrom ==
    ASSUME TypeOK, Leaves \/ Takes \/ Handles \/ Cuts
    PROVE  /\ sent' = sent /\ toRelay \in Seq(Requests)
           /\ \A k \in DOMAIN toRelay' : IsAttach(toRelay'[k]) =>
                 IF Takes THEN k + 1 \in DOMAIN toRelay /\ toRelay'[k] = toRelay[k + 1] /\ 1 \in DOMAIN toRelay /\ k \in Nat
                 ELSE k \in DOMAIN toRelay /\ toRelay'[k] = toRelay[k]
  <1>0. toRelay \in Seq(Requests) BY TypeParts DEF WireOK
  <1>1. sent' = sent BY DEF Leaves, Takes, Handles, Cuts
  <1> SUFFICES ASSUME NEW k \in DOMAIN toRelay', IsAttach(toRelay'[k])
               PROVE  IF Takes THEN k + 1 \in DOMAIN toRelay /\ toRelay'[k] = toRelay[k + 1] /\ 1 \in DOMAIN toRelay /\ k \in Nat
                      ELSE k \in DOMAIN toRelay /\ toRelay'[k] = toRelay[k]
    BY <1>0, <1>1
  <1>2. CASE Takes BY <1>0, <1>2, TailAt DEF Takes
  <1>3. CASE ~Takes /\ Leaves
    <2> DEFINE d == [type |-> "detach", name |-> None, id |-> 0]
    <2>1. CASE toRelay' = toRelay BY <1>3, <2>1
    <2>2. CASE toRelay' = Append(toRelay, d)
      <3>1. d \in Requests /\ d.type # "attach" BY DetachIs
      <3> HIDE DEF d
      <3> QED BY <1>0, <1>3, <2>2, <3>1, AppendAt DEF IsAttach
    <2> QED BY <1>3, <2>1, <2>2 DEF Leaves
  <1>4. CASE ~Takes /\ Handles BY <1>4 DEF Handles
  <1>5. CASE ~Takes /\ Cuts BY <1>0, <1>5, SubSeqAt DEF Cuts
  <1> QED BY <1>2, <1>3, <1>4, <1>5

\* What the handler has was its own or has just been taken.
LEMMA HandlingFrom ==
    ASSUME TypeOK, Leaves \/ Takes \/ Handles \/ Cuts, Handling'
    PROVE  \/ ~Takes /\ Handling /\ msg' = msg
           \/ Takes /\ toRelay # <<>> /\ msg' = toRelay[1] /\ 1 \in DOMAIN toRelay /\ IsAttach(toRelay[1])
  <1>0. toRelay \in Seq(Requests) BY TypeParts DEF WireOK
  <1>1. CASE Takes BY <1>0, <1>1, TailAt DEF Takes, Handling, IsAttach
  <1>2. CASE ~Takes BY <1>2 DEF Leaves, Handles, Cuts, Handling, IsAttach
  <1> QED BY <1>1, <1>2

\* What is older than all that waits stays so.
LEMMA OlderKept ==
    ASSUME TypeOK, Queued, NEW i, Older(i), Asks \/ Leaves \/ Takes \/ Handles \/ Cuts
    PROVE  Older(i)'
  <1>0. toRelay \in Seq(Requests) /\ sent \in Nat /\ i \in 1 .. sent
    BY TypeParts, AttachAssumption DEF WireOK, BrowserOK, Older
  <1>1. CASE Asks
    <2> DEFINE m == [type |-> "attach", name |-> name', id |-> sent + 1]
    <2>1. toRelay' = Append(toRelay, m) /\ m \in Requests /\ m.id = sent + 1 BY <1>1 DEF Asks
    <2>2. sent' = sent + 1 /\ at' = at /\ msg' = msg BY <1>1 DEF Asks
    <2> HIDE DEF m
    <2>3. \A k \in DOMAIN toRelay' : \/ k \in DOMAIN toRelay /\ toRelay'[k] = toRelay[k]
                                     \/ toRelay'[k] = m
      BY <1>0, <2>1, AppendAt
    <2>4. \A k \in DOMAIN toRelay' : IsAttach(toRelay'[k]) => i < toRelay'[k].id
      BY <1>0, <2>1, <2>3 DEF Older
    <2>5. (IsAttach(msg))' <=> IsAttach(msg) BY <2>2 DEF IsAttach
    <2> QED BY <1>0, <2>2, <2>4, <2>5 DEF Older, Handling
  <1>2. CASE ~Asks
    <2>1. sent' = sent BY <1>2, QueueFrom
    <2>2. Handling' => i < msg'.id BY <1>2, HandlingFrom DEF Older
    <2>3. \A k \in DOMAIN toRelay' : IsAttach(toRelay'[k]) => i < toRelay'[k].id
      BY <1>2, QueueFrom DEF Older
    <2> QED BY <1>0, <2>1, <2>2, <2>3 DEF Older
  <1> QED BY <1>1, <1>2

\* The numbers of what waits rise.
LEMMA QueuedStep ==
    ASSUME TypeOK, Queued, Asks \/ Leaves \/ Takes \/ Handles \/ Cuts
    PROVE  Queued'
  <1>0. toRelay \in Seq(Requests) /\ sent \in Nat
    BY TypeParts, AttachAssumption DEF WireOK, BrowserOK
  <1>1. CASE Asks
    <2> DEFINE m == [type |-> "attach", name |-> name', id |-> sent + 1]
    <2>1. toRelay' = Append(toRelay, m) /\ m \in Requests /\ m.id = sent + 1 /\ m.name # None
      BY <1>1, AttachAssumption DEF Asks
    <2>2. sent' = sent + 1 /\ at' = at /\ msg' = msg BY <1>1 DEF Asks
    <2> HIDE DEF m
    <2>3. \A k \in DOMAIN toRelay' :
             \/ k \in DOMAIN toRelay /\ toRelay'[k] = toRelay[k] /\ k < Len(toRelay) + 1
             \/ toRelay'[k] = m /\ k = Len(toRelay) + 1
      BY <1>0, <2>1, AppendAt
    <2>4. \A k \in DOMAIN toRelay : IsAttach(toRelay[k]) => toRelay[k].id \in 1 .. sent /\ toRelay[k].name # None
      BY DEF Queued
    <2>5. \A j, k \in DOMAIN toRelay :
            j < k /\ IsAttach(toRelay[j]) /\ IsAttach(toRelay[k]) => toRelay[j].id < toRelay[k].id
      BY DEF Queued
    <2>6. \A k \in DOMAIN toRelay' : IsAttach(toRelay'[k]) => toRelay'[k].id \in 1 .. sent' /\ toRelay'[k].name # None
      BY <1>0, <2>1, <2>2, <2>3, <2>4
    <2>7. \A j, k \in DOMAIN toRelay' :
            j < k /\ IsAttach(toRelay'[j]) /\ IsAttach(toRelay'[k]) => toRelay'[j].id < toRelay'[k].id
      <3> SUFFICES ASSUME NEW j \in DOMAIN toRelay', NEW k \in DOMAIN toRelay',
                          j < k, IsAttach(toRelay'[j]), IsAttach(toRelay'[k])
                   PROVE  toRelay'[j].id < toRelay'[k].id
        OBVIOUS
      <3>1. j \in DOMAIN toRelay /\ toRelay'[j] = toRelay[j] BY <1>0, <2>1, <2>3, AppendAt
      <3>2. toRelay[j].id \in 1 .. sent BY <2>4, <3>1
      <3> QED BY <1>0, <2>1, <2>3, <2>5, <3>1, <3>2
    <2>8. Handling => /\ msg.id \in 1 .. sent /\ msg.name # None
                      /\ \A k \in DOMAIN toRelay : IsAttach(toRelay[k]) => msg.id < toRelay[k].id
      BY DEF Queued
    <2>9. (Handling' <=> Handling) /\ ((IsAttach(msg))' <=> IsAttach(msg)) BY <2>2 DEF Handling, IsAttach
    <2>10. Handling' => /\ msg'.id \in 1 .. sent' /\ msg'.name # None
                        /\ \A k \in DOMAIN toRelay' : IsAttach(toRelay'[k]) => msg'.id < toRelay'[k].id
      BY <1>0, <2>1, <2>2, <2>3, <2>8, <2>9
    <2> QED BY <2>2, <2>6, <2>7, <2>9, <2>10 DEF Queued, IsAttach
  <1>2. CASE ~Asks
    <2>1. sent' = sent BY <1>2, QueueFrom
    <2>2. \A k \in DOMAIN toRelay' : IsAttach(toRelay'[k]) => toRelay'[k].id \in 1 .. sent' /\ toRelay'[k].name # None
      BY <1>2, <2>1, QueueFrom DEF Queued
    <2>3. \A j, k \in DOMAIN toRelay' :
            j < k /\ IsAttach(toRelay'[j]) /\ IsAttach(toRelay'[k]) => toRelay'[j].id < toRelay'[k].id
      <3>1. CASE Takes BY <1>2, <3>1, QueueFrom DEF Queued
      <3>2. CASE ~Takes BY <1>2, <3>2, QueueFrom DEF Queued
      <3> QED BY <3>1, <3>2
    <2>4. Handling' => /\ msg'.id \in 1 .. sent' /\ msg'.name # None
                       /\ \A k \in DOMAIN toRelay' : IsAttach(toRelay'[k]) => msg'.id < toRelay'[k].id
      <3>1. CASE Takes
        <4> SUFFICES ASSUME Handling'
                     PROVE  /\ msg'.id \in 1 .. sent' /\ msg'.name # None
                            /\ \A k \in DOMAIN toRelay' : IsAttach(toRelay'[k]) => msg'.id < toRelay'[k].id
          OBVIOUS
        <4>1. msg' = toRelay[1] /\ 1 \in DOMAIN toRelay /\ IsAttach(toRelay[1]) BY <3>1, HandlingFrom
        <4>2. ASSUME NEW k \in DOMAIN toRelay', IsAttach(toRelay'[k])
              PROVE  msg'.id < toRelay'[k].id
          <5>1. k + 1 \in DOMAIN toRelay /\ toRelay'[k] = toRelay[k + 1] /\ k \in Nat
            BY <1>2, <3>1, <4>2, QueueFrom
          <5>2. 1 < k + 1
            <6>1. k \in DOMAIN Tail(toRelay) /\ toRelay # <<>> BY <3>1, <4>2 DEF Takes
            <6> QED BY <1>0, <6>1, TailAt
          <5> QED BY <4>1, <4>2, <5>1, <5>2 DEF Queued
        <4> QED BY <2>1, <4>1, <4>2 DEF Queued
      <3>2. CASE ~Takes BY <1>2, <2>1, <3>2, QueueFrom, HandlingFrom DEF Queued
      <3> QED BY <3>1, <3>2
    <2>5. at' \in {"dropped", "found", "locking"} => (IsAttach(msg))'
      <3>1. CASE Takes BY <3>1 DEF Takes
      <3>2. CASE Leaves \/ Cuts BY <3>2 DEF Leaves, Cuts, Queued, IsAttach
      <3>3. CASE Handles BY <3>3 DEF Handles, Queued, IsAttach
      <3> QED BY <1>2, <3>1, <3>2, <3>3
    <2> QED BY <2>2, <2>3, <2>4, <2>5 DEF Queued, IsAttach
  <1> QED BY <1>1, <1>2

-----------------------------------------------------------------------------
(***************************************************************************)
(* What a step does to the ptys and to the replies.                        *)
(***************************************************************************)
\* Every step keeps the ptys, or is the step of one.
LEMMA BridgesMove ==
    ASSUME TypeOK, OnePty, Next
    PROVE  \/ \A b \in Slots : Kept(b)
           \/ Spawn \/ Forgotten
           \/ \E b \in Slots : Ready(b) \/ PtyExit(b)
  <1>1. ASSUME bridge' = bridge PROVE \A b \in Slots : Kept(b) BY <1>1 DEF Kept
  <1>2. ASSUME \A b \in Slots : Aged(b) PROVE \A b \in Slots : Kept(b) BY <1>2 DEF Aged, Kept
  <1>3. ASSUME \A b \in Slots : LetGoOf(b) PROVE \A b \in Slots : Kept(b) BY <1>3 DEF LetGoOf, Kept
  <1>4. CASE \/ \E n \in Names \cup {None} : Choose(n)
             \/ Connect \/ LinkBreaks \/ Receive \/ Take \/ FindSession \/ MakeClone
             \/ DrainPoll \/ CloseEvent \/ \E b \in Slots : Output(b)
    <2>1. bridge' = bridge
      BY <1>4 DEF Choose, Connect, LinkBreaks, Receive, Take, FindSession, MakeClone, DrainPoll,
                  CloseEvent, Output, tmuxVars
    <2> QED BY <1>1, <2>1
  <1>5. CASE LetGo \/ HangUp \/ Remove
    <2>1. \A b \in Slots : LetGoOf(b) BY <1>5, DropPtyIs DEF LetGo, HangUp, Remove, BeginRemoval
    <2> QED BY <1>3, <2>1
  <1>6. CASE DropClone \/ LockFails \/ SpawnFails \/ \E w \in Removers : RemovalStep(w)
    <2>1. \A b \in Slots : Aged(b)
      BY <1>6, CloneKilledIs DEF DropClone, LockFails, TornDown, SpawnFails, RemovalStep, Aged
    <2> QED BY <1>2, <2>1
  <1>7. CASE Others
    <2>1. \A b \in Slots : Aged(b) BY <1>7, OthersIs
    <2> QED BY <1>2, <2>1
  <1> QED BY <1>4, <1>5, <1>6, <1>7 DEF Next, RelayStep, PtyStep, RemovalSteps

\* A pty was there before, with the same number and name, or is the one that is
\* spawned.
LEMMA BridgesFrom ==
    ASSUME TypeOK, OnePty, Next, NEW b \in Slots, bridge'[b].st # "free"
    PROVE  \/ /\ bridge[b].st # "free"
              /\ bridge'[b].id = bridge[b].id /\ bridge'[b].name = bridge[b].name
           \/ Spawn /\ b = pty' /\ bridge'[b].id = msg.id /\ bridge'[b].name = msg.name
  <1>1. CASE \A c \in Slots : Kept(c) BY <1>1 DEF Kept
  <1>2. CASE Spawn BY <1>2, SpawnIs
  <1>3. ASSUME NEW c \in Slots, Ready(c)
        PROVE  /\ bridge[b].st # "free"
               /\ bridge'[b].id = bridge[b].id /\ bridge'[b].name = bridge[b].name
    BY <1>3, ReadyIs
  <1>4. ASSUME NEW c \in Slots, PtyExit(c)
        PROVE  /\ bridge[b].st # "free"
               /\ bridge'[b].id = bridge[b].id /\ bridge'[b].name = bridge[b].name
    <2>1. bridge'[c] = Free /\ Free.st = "free" BY <1>4, PtyExitIs DEF Free
    <2>2. c # b BY <2>1
    <2>3. bridge'[b] = bridge[b] BY <1>4, <2>2, PtyExitIs
    <2> QED BY <2>3
  <1>5. ~Forgotten BY DEF Forgotten, Free
  <1> QED BY <1>1, <1>2, <1>3, <1>4, <1>5, BridgesMove

\* A reply gets through, and why it is sent.
Speaks(r) == up /\ sock = "open" /\ up' = up /\ toBrowser' = Append(toBrowser, r)

TakeRefuses(r) ==
    /\ r.type = "error" /\ Takes /\ at' = "idle" /\ refused' = (refused \/ r.id = sent)
    /\ IsAttach(Head(toRelay)) /\ r.id = Head(toRelay).id /\ r.name = Head(toRelay).name

HandlerRefuses(r) ==
    /\ r.type = "error" /\ Handles /\ at' = "idle" /\ refused' = (refused \/ r.id = sent)
    /\ Handling /\ r.id = msg.id /\ r.name = msg.name

PtySpeaks(r, b) ==
    /\ bridge[b].st # "free" /\ r.id = bridge[b].id /\ r.name = bridge[b].name
    /\ \/ Ready(b) /\ r.type \in {"attached", "output"}
       \/ Output(b) /\ r.type = "output"
       \/ PtyExit(b) /\ ~bridge[b].detaching /\ r.type = IF bridge[b].ready THEN "exited" ELSE "error"

\* An acknowledgement and a replay get through together.
Replays(b) ==
    /\ Ready(b) /\ up /\ sock = "open" /\ up' = up
    /\ toBrowser' = Append(Append(toBrowser, Ack(b)), Replay(b))
    /\ pty # b => bridge[b].id \in overtaken'

\* A reply that is sent gets through on an open socket only.
LEMMA SpeaksOrNot ==
    ASSUME TypeOK, NEW t \in {"attached", "output", "exited", "error"},
           NEW n \in Names \cup {None}, NEW i \in 0 .. MaxAttaches, Send(Reply(t, n, i)), UNCHANGED up
    PROVE  toBrowser' = toBrowser \/ \E r \in Replies : Speaks(r) /\ r.type = t /\ r.name = n /\ r.id = i
  <1>1. Reply(t, n, i) \in Replies BY Sending
  <1>2. Reply(t, n, i).type = t /\ Reply(t, n, i).name = n /\ Reply(t, n, i).id = i BY DEF Reply
  <1> HIDE DEF Reply
  <1> QED BY <1>1, <1>2, Sending DEF Speaks

\* A handler that refuses does so at its end.
LEMMA RefusesOrNot ==
    ASSUME TypeOK, Queued, Refuse, at \in {"dropped", "found", "locking"}, UNCHANGED <<up, sent, toRelay>>
    PROVE  toBrowser' = toBrowser \/ \E r \in Replies : Speaks(r) /\ HandlerRefuses(r)
  <1>1. msg \in Requests /\ Handling BY Working DEF Queued, Handling
  <1>2. msg.name \in Names \cup {None} /\ msg.id \in 0 .. MaxAttaches BY <1>1, RequestFields
  <1>3. Send(Reply("error", msg.name, msg.id)) /\ refused' = (refused \/ msg.id = sent) /\ at' = "idle"
    BY DEF Refuse, Done
  <1>4. Handles BY <1>3 DEF Handles
  <1>5. toBrowser' = toBrowser \/ \E r \in Replies : Speaks(r) /\ r.type = "error" /\ r.name = msg.name /\ r.id = msg.id
    BY <1>2, <1>3, SpeaksOrNot
  <1> QED BY <1>1, <1>3, <1>4, <1>5 DEF HandlerRefuses

\* Every step leaves the replies alone, loses them, hands one to the browser, adds
\* one, or an acknowledgement and a replay.
LEMMA RepliesMove ==
    ASSUME TypeOK, OnePty, Queued, Next
    PROVE  \/ toBrowser' = toBrowser
           \/ LinkBreaks
           \/ Receive
           \/ \E r \in Replies : /\ Speaks(r)
                                 /\ TakeRefuses(r) \/ HandlerRefuses(r) \/ \E b \in Slots : PtySpeaks(r, b)
                                 /\ r.type = "output" => \E b \in Slots : Output(b) /\ r.id = bridge[b].id
           \/ \E b \in Slots : Replays(b)
  <1>1. CASE \/ \E n \in Names \cup {None} : Choose(n)
             \/ Connect \/ LetGo \/ DropClone \/ Spawn \/ DrainPoll \/ CloseEvent \/ HangUp
             \/ RemovalSteps \/ Forgotten \/ Others
    <2>1. toBrowser' = toBrowser
      BY <1>1 DEF Choose, Connect, LetGo, DropClone, Spawn, DrainPoll, CloseEvent, HangUp, RemovalSteps,
                  Remove, BeginRemoval, RemovalStep, Forgotten, Others, wireVars
    <2> QED BY <2>1
  <1>2. CASE Take
    <2> DEFINE m == Head(toRelay)
    <2>1. toRelay \in Seq(Requests) /\ toRelay # <<>> BY <1>2, TypeParts DEF WireOK, Take
    <2>2. m \in Requests BY <2>1, TailAt
    <2>3. m.type \in {"attach", "detach"} /\ m.name \in Names \cup {None} /\ m.id \in 0 .. MaxAttaches
      BY <2>2, RequestFields
    <2>4. CASE toBrowser' = toBrowser BY <2>4
    <2>5. CASE /\ m.type # "detach" /\ Send(Reply("error", m.name, m.id)) /\ UNCHANGED <<at, msg>>
               /\ refused' = (refused \/ m.id = sent)
      <3>1. UNCHANGED up /\ at = "idle" /\ toRelay' = Tail(toRelay) /\ UNCHANGED sent
        BY <1>2 DEF Take, browserVars
      <3>2. Takes /\ IsAttach(m) BY <2>1, <2>3, <2>5, <3>1 DEF Takes, IsAttach
      <3> HIDE DEF m
      <3>3. toBrowser' = toBrowser \/ \E r \in Replies : Speaks(r) /\ r.type = "error" /\ r.name = m.name /\ r.id = m.id
        <4>1. UNCHANGED up BY <3>1
        <4>2. Send(Reply("error", m.name, m.id)) BY <2>5
        <4> QED BY <2>3, <4>1, <4>2, SpeaksOrNot
      <3>4. ASSUME NEW r \in Replies, Speaks(r), r.type = "error", r.name = m.name, r.id = m.id
            PROVE  TakeRefuses(r)
        BY <2>5, <3>1, <3>2, <3>4 DEF TakeRefuses, m
      <3> QED BY <3>3, <3>4
    <2> QED BY <1>2, <2>4, <2>5 DEF Take
  <1>3. CASE FindSession \/ MakeClone \/ LockFails \/ SpawnFails
    <2>1. CASE toBrowser' = toBrowser BY <2>1
    <2>2. CASE Refuse
      <3>1. at \in {"dropped", "found", "locking"} /\ UNCHANGED <<up, sent, toRelay>>
        BY <1>3 DEF FindSession, MakeClone, LockFails, SpawnFails, Attachable, browserVars
      <3>2. \A x : HandlerRefuses(x) => x.type = "error" BY DEF HandlerRefuses
      <3>3. toBrowser' = toBrowser \/ \E x \in Replies : Speaks(x) /\ HandlerRefuses(x) BY <2>2, <3>1, RefusesOrNot
      <3> HIDE DEF HandlerRefuses, Speaks
      <3> QED BY <3>2, <3>3
    <2> QED BY <1>3, <2>1, <2>2 DEF FindSession, MakeClone, LockFails, SpawnFails
  <1>4. ASSUME NEW b \in Slots, Ready(b) \/ Output(b) \/ PtyExit(b)
        PROVE  \/ toBrowser' = toBrowser
               \/ \E r \in Replies : /\ Speaks(r) /\ PtySpeaks(r, b)
                                     /\ r.type = "output" => Output(b) /\ r.id = bridge[b].id
               \/ Replays(b)
    <2>0. bridge[b].name \in Names \cup {None} /\ bridge[b].id \in 0 .. MaxAttaches BY BridgeIs
    <2>1. UNCHANGED up /\ bridge[b].st # "free" BY <1>4 DEF Ready, Output, PtyExit
    <2>2. CASE Ready(b)
      <3>1. CASE toBrowser' = toBrowser BY <3>1
      <3>2. CASE up /\ sock = "open" /\ toBrowser' = Append(toBrowser, Ack(b))
        <4>1. Ack(b) \in Replies /\ Speaks(Ack(b)) BY <2>1, <2>2, <3>2, ReadySays DEF Speaks
        <4>2. PtySpeaks(Ack(b), b) /\ Ack(b).type # "output" BY <2>1, <2>2, ReadySays DEF PtySpeaks
        <4> QED BY <4>1, <4>2
      <3>3. CASE Replays(b) BY <3>3
      <3> QED BY <2>1, <2>2, <3>1, <3>2, <3>3, ReadySays DEF Replays
    <2>3. CASE Output(b)
      <3>1. Send(Reply("output", bridge[b].name, bridge[b].id)) BY <2>3 DEF Output
      <3>2. \/ toBrowser' = toBrowser
            \/ \E r \in Replies : Speaks(r) /\ r.type = "output" /\ r.name = bridge[b].name /\ r.id = bridge[b].id
        BY <2>0, <2>1, <3>1, SpeaksOrNot
      <3> HIDE DEF Speaks, Output
      <3> QED BY <2>1, <2>3, <3>2 DEF PtySpeaks
    <2>4. CASE PtyExit(b) /\ ~bridge[b].detaching
      <3> DEFINE t == IF bridge[b].ready THEN "exited" ELSE "error"
      <3>1. Send(Reply(t, bridge[b].name, bridge[b].id)) BY <2>4 DEF PtyExit, Silent
      <3>2. \/ toBrowser' = toBrowser
            \/ \E r \in Replies : Speaks(r) /\ r.type = t /\ r.name = bridge[b].name /\ r.id = bridge[b].id
        <4>1. t \in {"attached", "output", "exited", "error"} OBVIOUS
        <4> HIDE DEF t
        <4> QED BY <2>0, <2>1, <3>1, <4>1, SpeaksOrNot
      <3> QED BY <2>1, <2>4, <3>2 DEF PtySpeaks
    <2>5. CASE PtyExit(b) /\ bridge[b].detaching BY <2>5 DEF PtyExit, Silent
    <2> QED BY <1>4, <2>2, <2>3, <2>4, <2>5
  <1> QED BY <1>1, <1>2, <1>3, <1>4 DEF Next, RelayStep, PtyStep

\* The two messages, seen from an index.
LEMMA ReplaysAt ==
    ASSUME TypeOK, NEW b \in Slots, Replays(b)
    PROVE  /\ DOMAIN toBrowser = 1 .. Len(toBrowser) /\ Len(toBrowser) \in Nat
           /\ DOMAIN toBrowser' = 1 .. (Len(toBrowser) + 2)
           /\ \A k \in DOMAIN toBrowser : k \in DOMAIN toBrowser' /\ toBrowser'[k] = toBrowser[k]
           /\ toBrowser'[Len(toBrowser) + 1] = Ack(b) /\ toBrowser'[Len(toBrowser) + 2] = Replay(b)
           /\ \A k \in DOMAIN toBrowser' :
                 \/ k \in DOMAIN toBrowser /\ toBrowser'[k] = toBrowser[k]
                 \/ toBrowser'[k] \in {Ack(b), Replay(b)}
  <1> DEFINE q == toBrowser
             r == Append(q, Ack(b))
             s == Append(r, Replay(b))
  <1>1. q \in Seq(Replies) /\ toBrowser' = s BY TypeParts DEF WireOK, Replays
  <1>2. Ack(b) \in Replies /\ Replay(b) \in Replies BY ReadySays DEF Replays
  <1>3. /\ r \in Seq(Replies) /\ Len(q) \in Nat /\ Len(r) = Len(q) + 1
        /\ DOMAIN q = 1 .. Len(q) /\ DOMAIN r = 1 .. (Len(q) + 1)
        /\ \A k \in 1 .. Len(q) : r[k] = q[k]
        /\ r[Len(q) + 1] = Ack(b)
    <2> HIDE DEF Ack
    <2> QED BY <1>1, <1>2, AppendAt
  <1>4. /\ DOMAIN s = 1 .. (Len(r) + 1)
        /\ \A k \in 1 .. Len(r) : s[k] = r[k]
        /\ s[Len(r) + 1] = Replay(b)
    <2> HIDE DEF r, Replay
    <2> QED BY <1>2, <1>3, AppendAt
  <1> HIDE DEF q, r, s, Ack, Replay
  <1>5. /\ DOMAIN s = 1 .. (Len(q) + 2) /\ \A k \in 1 .. Len(q) : k \in DOMAIN s /\ s[k] = q[k]
        /\ s[Len(q) + 1] = Ack(b) /\ s[Len(q) + 2] = Replay(b)
    BY <1>3, <1>4
  <1>6. \A k \in DOMAIN s : k \in DOMAIN q \/ k = Len(q) + 1 \/ k = Len(q) + 2 BY <1>3, <1>5
  <1>7. /\ DOMAIN q = 1 .. Len(q) /\ Len(q) \in Nat /\ DOMAIN s = 1 .. (Len(q) + 2)
        /\ \A k \in DOMAIN q : k \in DOMAIN s /\ s[k] = q[k]
        /\ \A k \in DOMAIN s : (k \in DOMAIN q /\ s[k] = q[k]) \/ s[k] \in {Ack(b), Replay(b)}
    BY <1>3, <1>5, <1>6
  <1> QED BY <1>1, <1>5, <1>7 DEF q

\* A reply was there before, or has been sent for what the relay has in hand.
LEMMA RepliesFrom ==
    ASSUME TypeOK, OnePty, Queued, Next, NEW k \in DOMAIN toBrowser'
    PROVE  \/ \E j \in DOMAIN toBrowser : toBrowser'[k] = toBrowser[j]
           \/ TakeRefuses(toBrowser'[k]) \/ HandlerRefuses(toBrowser'[k])
           \/ \E b \in Slots : PtySpeaks(toBrowser'[k], b)
  <1>0. toBrowser \in Seq(Replies) BY TypeParts DEF WireOK
  <1>1. CASE toBrowser' = toBrowser BY <1>1
  <1>2. CASE LinkBreaks BY <1>2 DEF LinkBreaks
  <1>3. CASE Receive
    <2>1. toBrowser' = Tail(toBrowser) /\ toBrowser # <<>> BY <1>3 DEF Receive
    <2>2. k + 1 \in DOMAIN toBrowser /\ toBrowser'[k] = toBrowser[k + 1] BY <1>0, <2>1, TailAt
    <2> QED BY <2>2
  <1>4. ASSUME NEW r \in Replies, Speaks(r),
               TakeRefuses(r) \/ HandlerRefuses(r) \/ \E b \in Slots : PtySpeaks(r, b)
        PROVE  \/ \E j \in DOMAIN toBrowser : toBrowser'[k] = toBrowser[j]
               \/ TakeRefuses(toBrowser'[k]) \/ HandlerRefuses(toBrowser'[k])
               \/ \E b \in Slots : PtySpeaks(toBrowser'[k], b)
    <2>1. toBrowser' = Append(toBrowser, r) BY <1>4 DEF Speaks
    <2>2. \/ k \in DOMAIN toBrowser /\ toBrowser'[k] = toBrowser[k]
          \/ toBrowser'[k] = r
      BY <1>0, <2>1, AppendAt
    <2> QED BY <1>4, <2>2
  <1>5. ASSUME NEW b \in Slots, Replays(b)
        PROVE  \/ \E j \in DOMAIN toBrowser : toBrowser'[k] = toBrowser[j]
               \/ PtySpeaks(toBrowser'[k], b)
    <2>1. Ready(b) /\ bridge[b].st # "free" BY <1>5 DEF Replays, Ready
    <2>2. \/ k \in DOMAIN toBrowser /\ toBrowser'[k] = toBrowser[k]
          \/ toBrowser'[k] \in {Ack(b), Replay(b)}
      BY <1>0, <1>5, ReplaysAt
    <2>3. PtySpeaks(Ack(b), b) /\ PtySpeaks(Replay(b), b) BY <2>1, ReadySays DEF PtySpeaks
    <2> QED BY <2>2, <2>3
  <1> QED BY <1>1, <1>2, <1>3, <1>4, <1>5, RepliesMove

\* What has just been answered is older than what waits.
LEMMA OlderAnswered ==
    ASSUME TypeOK, Queued
    PROVE  \A i : /\ Handles /\ at' = "idle" /\ Handling /\ i = msg.id => Older(i)'
                  /\ Takes /\ at' = "idle" /\ IsAttach(Head(toRelay)) /\ i = Head(toRelay).id =>
                        Older(i)' /\ Head(toRelay).name # None
  <1>0. toRelay \in Seq(Requests) BY TypeParts DEF WireOK
  <1>1. ASSUME NEW i, Handles, at' = "idle", Handling, i = msg.id PROVE Older(i)'
    <2>1. ~Handling' BY <1>1 DEF Handling
    <2> QED BY <1>1, <2>1 DEF Older, Queued, Handles
  <1>2. ASSUME NEW i, Takes, at' = "idle", IsAttach(Head(toRelay)), i = Head(toRelay).id
        PROVE  Older(i)' /\ Head(toRelay).name # None
    <2>0. toRelay # <<>> /\ toRelay' = Tail(toRelay) /\ sent' = sent BY <1>2 DEF Takes
    <2>1. Head(toRelay) = toRelay[1] /\ 1 \in DOMAIN toRelay BY <1>0, <2>0, TailAt
    <2>2. \A k \in DOMAIN toRelay' : k + 1 \in DOMAIN toRelay /\ toRelay'[k] = toRelay[k + 1] /\ 1 < k + 1
      BY <1>0, <2>0, TailAt
    <2>3. \A k \in DOMAIN toRelay' : IsAttach(toRelay'[k]) => toRelay[1].id < toRelay'[k].id
      BY <1>2, <2>1, <2>2 DEF Queued
    <2>4. ~Handling' BY <1>2 DEF Handling
    <2>5. toRelay[1].id \in 1 .. sent' /\ toRelay[1].name # None BY <1>2, <2>0, <2>1 DEF Queued
    <2> QED BY <1>2, <2>1, <2>3, <2>4, <2>5 DEF Older
  <1> QED BY <1>1, <1>2

-----------------------------------------------------------------------------
\* The numbers of what has been answered.
LEMMA NumberedStep ==
    ASSUME TypeOK, OnePty, Lifecycle, OfLast, Queued, Numbered, Next PROVE Numbered'
  <1>0. Asks \/ Leaves \/ Takes \/ Handles \/ Cuts BY QueueMoves
  <1>1. ASSUME Spawn PROVE Handles /\ at' = "idle" /\ Handling /\ msg.name # None
    <2>1. at' = "idle" /\ at \in {"found", "locking"} BY <1>1, SpawnIs
    <2>2. IsAttach(msg) BY <2>1 DEF Queued
    <2>3. UNCHANGED <<sent, toRelay>> BY <1>1 DEF Spawn, browserVars, wireVars
    <2> QED BY <2>1, <2>2, <2>3 DEF Handles, Handling, Queued
  <1>2. ASSUME NEW b \in Slots, bridge'[b].st # "free"
        PROVE  Older(bridge[b].id)' /\ bridge'[b].name # None
    <2>1. CASE /\ bridge[b].st # "free"
               /\ bridge'[b].id = bridge[b].id /\ bridge'[b].name = bridge[b].name
      <3> DEFINE i == bridge[b].id
      <3>1. Older(i) /\ bridge[b].name # None BY <2>1 DEF Numbered
      <3>2. \A j : Older(j) => Older(j)' BY <1>0, OlderKept
      <3>3. \A j : j = i => Older(j)' BY <3>1, <3>2
      <3> QED BY <2>1, <3>1, <3>3
    <2>2. CASE Spawn /\ b = pty' /\ bridge'[b].id = msg.id /\ bridge'[b].name = msg.name
      <3>1. Handles /\ at' = "idle" /\ Handling /\ msg.name # None BY <1>1, <2>2
      <3>2. \A j : j = msg.id => Older(j)' BY <3>1, OlderAnswered
      <3> QED BY <2>2, <3>1, <3>2
    <2> QED BY <1>2, <2>1, <2>2, BridgesFrom
  <1>3. ASSUME NEW k \in DOMAIN toBrowser' PROVE Older(toBrowser[k].id)' /\ toBrowser'[k].name # None
    <2>0. \A j : Older(j) => Older(j)' BY <1>0, OlderKept
    <2>1. ASSUME NEW j \in DOMAIN toBrowser, toBrowser'[k] = toBrowser[j]
          PROVE  Older(toBrowser[k].id)' /\ toBrowser'[k].name # None
      <3>1. Older(toBrowser[j].id) /\ toBrowser[j].name # None BY DEF Numbered
      <3>2. \A i : i = toBrowser[j].id => Older(i)' BY <2>0, <3>1
      <3> QED BY <2>1, <3>1, <3>2
    <2>2. CASE TakeRefuses(toBrowser'[k])
      <3>1. Takes /\ at' = "idle" /\ IsAttach(Head(toRelay)) BY <2>2 DEF TakeRefuses
      <3>2. \A i : i = Head(toRelay).id => Older(i)' BY <3>1, OlderAnswered
      <3>3. Head(toRelay).name # None BY <3>1, OlderAnswered
      <3> QED BY <2>2, <3>2, <3>3 DEF TakeRefuses
    <2>3. CASE HandlerRefuses(toBrowser'[k])
      <3>1. Handles /\ at' = "idle" /\ Handling BY <2>3 DEF HandlerRefuses
      <3>2. \A i : i = msg.id => Older(i)' BY <3>1, OlderAnswered
      <3>3. msg.name # None BY <3>1 DEF Queued
      <3> QED BY <2>3, <3>2, <3>3 DEF HandlerRefuses
    <2>4. ASSUME NEW b \in Slots, PtySpeaks(toBrowser'[k], b)
          PROVE  Older(toBrowser[k].id)' /\ toBrowser'[k].name # None
      <3>1. Older(bridge[b].id) /\ bridge[b].name # None BY <2>4 DEF Numbered, PtySpeaks
      <3>2. \A i : i = bridge[b].id => Older(i)' BY <2>0, <3>1
      <3> QED BY <2>4, <3>1, <3>2 DEF PtySpeaks
    <2> QED BY <2>1, <2>2, <2>3, <2>4, RepliesFrom
  <1>4. ASSUME NEW b \in Slots, NEW c \in Slots, bridge'[b].st # "free", bridge'[b].id = bridge'[c].id
        PROVE  b = c
    <2>1. CASE bridge'[c].st = "free"
      <3>1. TypeOK' /\ OnePty' BY TypeStep, OnePtyStep
      <3>2. bridge'[c] = Free BY <2>1, <3>1 DEF OnePty
      <3>3. bridge'[c].id = 0 BY <3>2 DEF Free
      <3>4. bridge'[b].id \in 1 .. sent' BY <1>2, <1>4 DEF Older
      <3> QED BY <1>4, <3>3, <3>4
    <2>2. CASE bridge'[c].st # "free"
      <3>0. \A d \in Slots : bridge[d].id \in Nat BY BridgeIs, AttachAssumption
      <3>1. ASSUME NEW d \in Slots, Spawn, bridge[d].st # "free" PROVE bridge[d].id < msg.id
        BY <1>1, <3>1 DEF Numbered, Older
      <3>2. msg.id \in Nat \/ ~Spawn BY <1>1 DEF Queued
      <3> QED BY <1>4, <2>2, <3>0, <3>1, <3>2, BridgesFrom DEF Numbered
    <2> QED BY <2>1, <2>2
  <1> QED BY <1>2, <1>3, <1>4 DEF Numbered

\* What bears the number of the last attach bears the name that is wanted.
LEMMA OfLastStep ==
    ASSUME TypeOK, OnePty, Lifecycle, OfLast, Queued, Numbered, Next PROVE OfLast'
  <1>0. /\ Asks \/ Leaves \/ Takes \/ Handles \/ Cuts
        /\ Wanted' => Asks \/ (Wanted /\ UNCHANGED <<sent, name, desired>>)
        /\ desired' = None => phase' = "idle"
    BY QueueMoves
  <1>n. sent \in Nat /\ toRelay \in Seq(Requests)
    BY TypeParts, AttachAssumption DEF BrowserOK, WireOK
  <1>1. CASE Asks
    <2> DEFINE m == [type |-> "attach", name |-> name', id |-> sent + 1]
    <2>1. toRelay' = Append(toRelay, m) /\ m \in Requests /\ m.name = name' BY <1>1 DEF Asks
    <2>2. sent' = sent + 1 /\ UNCHANGED <<at, msg, toBrowser, bridge>> /\ name' = desired' BY <1>1 DEF Asks
    <2> HIDE DEF m
    <2>3. \A b \in Slots : bridge[b].id # sent + 1
      <3> SUFFICES ASSUME NEW b \in Slots PROVE bridge[b].id # sent + 1 OBVIOUS
      <3>1. CASE bridge[b].st = "free"
        <4>1. bridge[b].id = 0 BY <3>1 DEF OnePty, Free
        <4> QED BY <1>n, <4>1
      <3>2. CASE bridge[b].st # "free" BY <1>n, <3>2 DEF Numbered, Older
      <3> QED BY <3>1, <3>2
    <2>4. \A k \in DOMAIN toBrowser : toBrowser[k].id # sent + 1 BY <1>n DEF Numbered, Older
    <2>5. Handling => msg.id # sent + 1 BY <1>n DEF Queued
    <2>6. Handling' <=> Handling BY <2>2 DEF Handling, IsAttach
    <2>7. \A k \in DOMAIN toRelay' : \/ k \in DOMAIN toRelay /\ toRelay'[k] = toRelay[k]
                                     \/ toRelay'[k] = m
      BY <1>n, <2>1, AppendAt
    <2>8. \A k \in DOMAIN toRelay : IsAttach(toRelay[k]) => toRelay[k].id # sent + 1 BY <1>n DEF Queued
    <2>9. \A k \in DOMAIN toRelay' : IsAttach(toRelay'[k]) /\ toRelay'[k].id = sent' => toRelay'[k].name = name'
      BY <2>1, <2>2, <2>7, <2>8
    <2> QED BY <1>0, <2>2, <2>3, <2>4, <2>5, <2>6, <2>9 DEF OfLast
  <1>2. CASE ~Asks
    <2> SUFFICES ASSUME Wanted' PROVE
         /\ name' = desired'
         /\ \A b \in Slots : bridge'[b].id = sent' => bridge'[b].name = name'
         /\ Handling' /\ msg'.id = sent' => msg'.name = name'
         /\ \A k \in DOMAIN toRelay' :
               IsAttach(toRelay'[k]) /\ toRelay'[k].id = sent' => toRelay'[k].name = name'
         /\ \A k \in DOMAIN toBrowser' : toBrowser'[k].id = sent' => toBrowser'[k].name = name'
      BY <1>0 DEF OfLast
    <2>1. Wanted /\ UNCHANGED <<sent, name, desired>> BY <1>0, <1>2
    <2>2. /\ name = desired
          /\ \A b \in Slots : bridge[b].id = sent => bridge[b].name = name
          /\ Handling /\ msg.id = sent => msg.name = name
          /\ \A k \in DOMAIN toRelay :
                IsAttach(toRelay[k]) /\ toRelay[k].id = sent => toRelay[k].name = name
          /\ \A k \in DOMAIN toBrowser : toBrowser[k].id = sent => toBrowser[k].name = name
      BY <2>1 DEF OfLast
    <2>3. sent # 0
      <3>1. CASE sent = 0
        <4>1. \A b \in Slots : bridge[b].st = "free" BY <3>1 DEF Numbered, Older
        <4>2. \A b \in Slots : bridge[b].name = None /\ bridge[b].id = 0 BY <4>1 DEF OnePty, Free
        <4>3. 1 \in Slots BY DEF Slots
        <4>4. name = None BY <2>2, <3>1, <4>2, <4>3
        <4> QED BY <2>1, <2>2, <4>4 DEF OfLast, Wanted
      <3> QED BY <3>1
    <2>4. ASSUME NEW b \in Slots, bridge'[b].id = sent' PROVE bridge'[b].name = name'
      <3>1. CASE bridge'[b].st = "free"
        <4>1. TypeOK' /\ OnePty' BY TypeStep, OnePtyStep
        <4>2. bridge'[b] = Free BY <3>1, <4>1 DEF OnePty
        <4>3. bridge'[b].id = 0 BY <4>2 DEF Free
        <4> QED BY <2>1, <2>3, <2>4, <4>3
      <3>2. CASE bridge'[b].st # "free"
        <4>1. Spawn => Handling
          BY SpawnIs DEF Queued, Handling
        <4> QED BY <2>1, <2>2, <2>4, <3>2, <4>1, BridgesFrom
      <3> QED BY <3>1, <3>2
    <2>5. Handling' /\ msg'.id = sent' => msg'.name = name' BY <1>0, <1>2, <2>1, <2>2, HandlingFrom
    <2>6. \A k \in DOMAIN toRelay' :
             IsAttach(toRelay'[k]) /\ toRelay'[k].id = sent' => toRelay'[k].name = name'
      BY <1>0, <1>2, <2>1, <2>2, QueueFrom
    <2>7. ASSUME NEW k \in DOMAIN toBrowser', toBrowser'[k].id = sent' PROVE toBrowser'[k].name = name'
      <3>1. CASE TakeRefuses(toBrowser'[k])
        <4>1. toRelay # <<>> BY <3>1 DEF TakeRefuses, Takes
        <4>2. Head(toRelay) = toRelay[1] /\ 1 \in DOMAIN toRelay BY <1>n, <4>1, TailAt
        <4>3. IsAttach(toRelay[1]) /\ toRelay[1].id = toBrowser'[k].id /\ toBrowser'[k].name = toRelay[1].name
          BY <3>1, <4>2 DEF TakeRefuses
        <4> QED BY <2>1, <2>2, <2>7, <4>2, <4>3
      <3>2. CASE HandlerRefuses(toBrowser'[k]) BY <2>1, <2>2, <2>7, <3>2 DEF HandlerRefuses
      <3>3. CASE \E b \in Slots : PtySpeaks(toBrowser'[k], b) BY <2>1, <2>2, <2>7, <3>3 DEF PtySpeaks
      <3>4. CASE \E j \in DOMAIN toBrowser : toBrowser'[k] = toBrowser[j] BY <2>1, <2>2, <2>7, <3>4
      <3> QED BY <3>1, <3>2, <3>3, <3>4, RepliesFrom
    <2> QED BY <2>1, <2>2, <2>4, <2>5, <2>6, <2>7
  <1> QED BY <1>1, <1>2

-----------------------------------------------------------------------------
(***************************************************************************)
(* What is painted.                                                        *)
(***************************************************************************)
\* The acknowledgement that is waited for was on its way, or is just sent.
LEMMA AckFrom ==
    ASSUME TypeOK, OnePty, Queued, Next, sent' = sent, Acked'
    PROVE  Acked \/ \E b \in Slots : Ready(b) /\ bridge[b].id = sent
  <1>1. PICK k \in DOMAIN toBrowser' : toBrowser'[k].type = "attached" /\ toBrowser'[k].id = sent'
    BY DEF Acked, IsAck
  <1>2. CASE \E j \in DOMAIN toBrowser : toBrowser'[k] = toBrowser[j] BY <1>1, <1>2 DEF Acked, IsAck
  <1>3. CASE TakeRefuses(toBrowser'[k]) \/ HandlerRefuses(toBrowser'[k])
    BY <1>1, <1>3 DEF TakeRefuses, HandlerRefuses
  <1>4. CASE \E b \in Slots : PtySpeaks(toBrowser'[k], b) BY <1>1, <1>4 DEF PtySpeaks
  <1> QED BY <1>2, <1>3, <1>4, RepliesFrom

\* Output follows the acknowledgement that is waited for from its own pty only.
LEMMA OutputIsOfLast ==
    ASSUME TypeOK, Awaited, Wanted, sock = "open", phase = "attached" \/ Acked,
           NEW b \in Slots, Output(b)
    PROVE  bridge[b].id = sent
  <1>1. pty = b /\ b # None BY AttachAssumption DEF Output
  <1> QED BY <1>1 DEF Awaited, Awaiting, Answered

\* The replays that were overtaken are remembered as long as the browser is there.
LEMMA OvertakenStays == ASSUME TypeOK, Lifecycle, Wanted, Next PROVE overtaken \subseteq overtaken'
  <1>1. CASE \E b \in Slots : Ready(b) BY <1>1, ReadySays
  <1>2. CASE Forgotten BY <1>2 DEF Forgotten, Gone, Lifecycle, Wanted
  <1>3. CASE ~Forgotten /\ ~\E b \in Slots : Ready(b)
    <2>1. UNCHANGED overtaken
      BY <1>3 DEF Next, Choose, Connect, LinkBreaks, Receive, RelayStep, Take, LetGo, DropClone, FindSession,
                  MakeClone, LockFails, Spawn, SpawnFails, PtyStep, Output, PtyExit, DrainPoll, CloseEvent,
                  HangUp, RemovalSteps, Remove, BeginRemoval, RemovalStep, Others, histVars
    <2> QED BY <2>1
  <1> QED BY <1>1, <1>2, <1>3

\* An acknowledgement of the last attach has its own pty behind it.
LEMMA ReadyIsOfLast ==
    ASSUME TypeOK, OnePty, Numbered, Awaited, Wanted, sock = "open", NEW b \in Slots, Ready(b),
           phase = "attached" \/ Acked \/ bridge[b].id = sent
    PROVE  pty = b => bridge[b].id = sent
  <1>0. b # None /\ bridge[b].st # "free" BY AttachAssumption DEF Ready
  <1>1. CASE bridge[b].id = sent BY <1>1
  <1>2. CASE phase = "attached" \/ Acked BY <1>0, <1>2 DEF Awaited, Awaiting, Answered
  <1> QED BY <1>1, <1>2

\* No output of another attach is painted, but a replay that was overtaken.
LEMMA PaintsStep ==
    ASSUME TypeOK, OnePty, Lifecycle, OfLast, Queued, Numbered, Paints, Awaited, Next PROVE Paints'
  <1> DEFINE OkNow(m) == m.id \in {sent} \cup overtaken
             OkNext(m) == m.id \in {sent'} \cup overtaken'
  <1>0. toBrowser \in Seq(Replies) /\ sent \in Nat
    BY TypeParts, AttachAssumption DEF WireOK, BrowserOK
  <1> SUFFICES ASSUME Wanted' PROVE
      /\ phase' = "attached" => painted' \subseteq {sent'} \cup overtaken'
      /\ phase' = "attached" =>
            \A k \in DOMAIN toBrowser' : toBrowser'[k].type = "output" => OkNext(toBrowser'[k])
      /\ \A j, k \in DOMAIN toBrowser' :
            /\ j < k /\ toBrowser'[j].type = "attached" /\ toBrowser'[j].id = sent'
            /\ toBrowser'[k].type = "output"
            => OkNext(toBrowser'[k])
    BY DEF Paints, PaintsItsOwn, IsAck, OwnOrOvertaken
  <1>1. CASE Asks
    <2>1. phase' = "attaching" /\ toBrowser' = toBrowser /\ sent' = sent + 1 BY <1>1 DEF Asks
    <2>2. \A k \in DOMAIN toBrowser : toBrowser[k].id # sent + 1 BY <1>0 DEF Numbered, Older
    <2> QED BY <2>1, <2>2
  <1>2. CASE ~Asks
    <2>0. Wanted /\ UNCHANGED <<sent, name, desired>> /\ (Receive \/ UNCHANGED <<phase, painted, missed>>)
      BY <1>2, QueueMoves
    <2>i. overtaken \subseteq overtaken' BY <2>0, OvertakenStays
    <2>k. \A m : OkNow(m) => OkNext(m) BY <2>0, <2>i
    <2>1. /\ phase = "attached" => painted \subseteq {sent'} \cup overtaken'
          /\ phase = "attached" =>
                \A k \in DOMAIN toBrowser : toBrowser[k].type = "output" => OkNext(toBrowser[k])
          /\ \A j, k \in DOMAIN toBrowser :
                /\ j < k /\ toBrowser[j].type = "attached" /\ toBrowser[j].id = sent
                /\ toBrowser[k].type = "output"
                => OkNext(toBrowser[k])
      <3>1. /\ phase = "attached" => painted \subseteq {sent} \cup overtaken
            /\ phase = "attached" =>
                  \A k \in DOMAIN toBrowser : toBrowser[k].type = "output" => OkNow(toBrowser[k])
            /\ \A j, k \in DOMAIN toBrowser :
                  /\ j < k /\ toBrowser[j].type = "attached" /\ toBrowser[j].id = sent
                  /\ toBrowser[k].type = "output"
                  => OkNow(toBrowser[k])
        BY <2>0 DEF Paints, PaintsItsOwn, IsAck, OwnOrOvertaken
      <3>2. phase = "attached" => painted \subseteq {sent'} \cup overtaken' BY <2>0, <2>i, <3>1
      <3> HIDE DEF OkNow, OkNext
      <3> QED BY <2>k, <3>1, <3>2
    <2> HIDE DEF OkNow
    <2>3. CASE Receive
      <3> DEFINE m == Head(toBrowser)
      <3>1. toBrowser # <<>> /\ toBrowser' = Tail(toBrowser) BY <2>3 DEF Receive
      <3>2. m = toBrowser[1] /\ 1 \in DOMAIN toBrowser BY <1>0, <3>1, TailAt
      <3>3. \A k \in DOMAIN toBrowser' : k + 1 \in DOMAIN toBrowser /\ toBrowser'[k] = toBrowser[k + 1] /\ k \in Nat /\ 1 < k + 1
        BY <1>0, <3>1, TailAt
      <3>4. \A j, k \in DOMAIN toBrowser' :
              /\ j < k /\ toBrowser'[j].type = "attached" /\ toBrowser'[j].id = sent'
              /\ toBrowser'[k].type = "output"
              => OkNext(toBrowser'[k])
        <4> HIDE DEF OkNext
        <4> QED BY <2>0, <2>1, <3>3
      <3>5. CASE m.type = "attached" /\ Acknowledges(m)
        <4>1. painted' = {} BY <2>3, <3>5, ReceiveCases
        <4>2. m.id = sent BY <3>5 DEF Acknowledges
        <4> HIDE DEF OkNext
        <4>3. \A k \in DOMAIN toBrowser' : toBrowser'[k].type = "output" => OkNext(toBrowser'[k])
          BY <2>0, <2>1, <3>2, <3>3, <3>5, <4>2
        <4> QED BY <3>4, <4>1, <4>3
      <3>6. CASE m.type = "output" /\ phase = "attached"
        <4>1. painted' = painted \cup {m.id} /\ phase' = phase BY <2>3, <3>6, ReceiveCases DEF browserVars
        <4>2. OkNext(m) BY <2>1, <3>2, <3>6
        <4>3. painted' \subseteq {sent'} \cup overtaken' BY <2>1, <3>6, <4>1, <4>2
        <4> HIDE DEF OkNext
        <4> QED BY <2>0, <2>1, <3>3, <3>4, <3>6, <4>3
      <3>7. CASE ~(m.type = "attached" /\ Acknowledges(m)) /\ ~(m.type = "output" /\ phase = "attached")
        <4> HIDE DEF OkNext
        <4>1. CASE m.type # "exited"
          <5>1. UNCHANGED <<phase, painted>>
            BY <2>3, <3>7, <4>1, ReceiveCases DEF browserVars, histVars
          <5> QED BY <2>0, <2>1, <3>3, <3>4, <5>1
        <4>2. CASE m.type = "exited"
          <5>1. Exited(m.name) BY <2>3, <4>2, ReceiveCases
          <5>2. UNCHANGED <<phase, painted>> BY <5>1, Wanted' DEF Exited, Detach, Wanted
          <5> QED BY <2>0, <2>1, <3>3, <3>4, <5>2
        <4> QED BY <4>1, <4>2
      <3> QED BY <3>5, <3>6, <3>7
    <2>4. ASSUME ~Receive, NEW r \in Replies, Speaks(r),
                 r.type = "output" => \E b \in Slots : Output(b) /\ r.id = bridge[b].id
          PROVE  /\ phase' = "attached" => painted' \subseteq {sent'} \cup overtaken'
                 /\ phase' = "attached" =>
                       \A k \in DOMAIN toBrowser' : toBrowser'[k].type = "output" => OkNext(toBrowser'[k])
                 /\ \A j, k \in DOMAIN toBrowser' :
                       /\ j < k /\ toBrowser'[j].type = "attached" /\ toBrowser'[j].id = sent'
                       /\ toBrowser'[k].type = "output"
                       => OkNext(toBrowser'[k])
      <3>1. UNCHANGED <<phase, painted>> BY <2>0, <2>4
      <3>2. toBrowser' = Append(toBrowser, r) /\ sock = "open" BY <2>4 DEF Speaks
      <3>3. \A k \in DOMAIN toBrowser' :
               \/ k \in DOMAIN toBrowser /\ toBrowser'[k] = toBrowser[k] /\ k < Len(toBrowser) + 1
               \/ toBrowser'[k] = r /\ k = Len(toBrowser) + 1
        BY <1>0, <3>2, AppendAt
      <3>4. (phase = "attached" \/ Acked) /\ r.type = "output" => OkNext(r)
        <4> SUFFICES ASSUME phase = "attached" \/ Acked, r.type = "output" PROVE OkNext(r) OBVIOUS
        <4>1. PICK b \in Slots : Output(b) /\ r.id = bridge[b].id BY <2>4
        <4>2. r.id = sent BY <2>0, <3>2, <4>1, OutputIsOfLast
        <4> QED BY <2>0, <4>2
      <3> HIDE DEF OkNext
      <3>5. ASSUME NEW j \in DOMAIN toBrowser', NEW k \in DOMAIN toBrowser',
                   j < k, toBrowser'[j].type = "attached", toBrowser'[j].id = sent',
                   toBrowser'[k].type = "output"
            PROVE  OkNext(toBrowser'[k])
        <4>1. j \in DOMAIN toBrowser /\ toBrowser'[j] = toBrowser[j] BY <1>0, <3>2, <3>3, <3>5, AppendAt
        <4>2. Acked BY <2>0, <3>5, <4>1 DEF Acked, IsAck
        <4> QED BY <2>0, <2>1, <3>3, <3>4, <3>5, <4>1, <4>2
      <3> QED BY <2>0, <2>1, <3>1, <3>3, <3>4, <3>5
    <2>7. ASSUME ~Receive, NEW b \in Slots, Replays(b)
          PROVE  /\ phase' = "attached" => painted' \subseteq {sent'} \cup overtaken'
                 /\ phase' = "attached" =>
                       \A k \in DOMAIN toBrowser' : toBrowser'[k].type = "output" => OkNext(toBrowser'[k])
                 /\ \A j, k \in DOMAIN toBrowser' :
                       /\ j < k /\ toBrowser'[j].type = "attached" /\ toBrowser'[j].id = sent'
                       /\ toBrowser'[k].type = "output"
                       => OkNext(toBrowser'[k])
      <3>1. UNCHANGED <<phase, painted>> BY <2>0, <2>7
      <3>2. Ready(b) /\ sock = "open" /\ (pty # b => bridge[b].id \in overtaken') BY <2>7 DEF Replays
      <3>3. /\ Ack(b).type = "attached" /\ Ack(b).id = bridge[b].id
            /\ Replay(b).type = "output" /\ Replay(b).id = bridge[b].id
        BY <3>2, ReadySays
      <3>4. phase = "attached" \/ Acked \/ bridge[b].id = sent => OkNext(Replay(b))
        <4> SUFFICES ASSUME phase = "attached" \/ Acked \/ bridge[b].id = sent PROVE OkNext(Replay(b)) OBVIOUS
        <4>1. pty = b => bridge[b].id = sent BY <2>0, <3>2, ReadyIsOfLast
        <4> HIDE DEF Replay
        <4> QED BY <2>0, <3>2, <3>3, <4>1
      <3>5. /\ DOMAIN toBrowser = 1 .. Len(toBrowser) /\ Len(toBrowser) \in Nat
            /\ DOMAIN toBrowser' = 1 .. (Len(toBrowser) + 2)
            /\ \A k \in DOMAIN toBrowser : k \in DOMAIN toBrowser' /\ toBrowser'[k] = toBrowser[k]
            /\ toBrowser'[Len(toBrowser) + 1] = Ack(b) /\ toBrowser'[Len(toBrowser) + 2] = Replay(b)
        BY <2>7, ReplaysAt
      <3> HIDE DEF OkNext, Ack, Replay
      <3>6. \A k \in DOMAIN toBrowser' : \/ k \in DOMAIN toBrowser /\ toBrowser'[k] = toBrowser[k]
                                         \/ k = Len(toBrowser) + 1 /\ toBrowser'[k] = Ack(b)
                                         \/ k = Len(toBrowser) + 2 /\ toBrowser'[k] = Replay(b)
        BY <3>5
      <3>7. ASSUME NEW j \in DOMAIN toBrowser', NEW k \in DOMAIN toBrowser',
                   j < k, toBrowser'[j].type = "attached", toBrowser'[j].id = sent',
                   toBrowser'[k].type = "output"
            PROVE  OkNext(toBrowser'[k])
        <4>1. CASE k \in DOMAIN toBrowser
          <5>1. j \in DOMAIN toBrowser BY <3>5, <3>7, <4>1
          <5> QED BY <2>0, <2>1, <3>5, <3>7, <4>1, <5>1
        <4>2. CASE k = Len(toBrowser) + 1 BY <3>3, <3>5, <3>7, <4>2
        <4>3. CASE k = Len(toBrowser) + 2
          <5>1. toBrowser'[k] = Replay(b) /\ j # k BY <3>5, <3>7, <4>3
          <5>2. CASE j \in DOMAIN toBrowser
            <6>1. Acked BY <2>0, <3>5, <3>7, <5>2 DEF Acked, IsAck
            <6> QED BY <3>4, <5>1, <6>1
          <5>3. CASE j = Len(toBrowser) + 1
            <6>1. bridge[b].id = sent BY <2>0, <3>3, <3>5, <3>7, <5>3
            <6> QED BY <3>4, <5>1, <6>1
          <5> QED BY <3>5, <3>6, <3>7, <4>3, <5>2, <5>3
        <4> QED BY <3>6, <4>1, <4>2, <4>3
      <3>8. phase' = "attached" =>
              \A k \in DOMAIN toBrowser' : toBrowser'[k].type = "output" => OkNext(toBrowser'[k])
        BY <2>1, <3>1, <3>3, <3>4, <3>6
      <3> QED BY <2>1, <3>1, <3>7, <3>8
    <2>5. CASE ~Receive /\ toBrowser' = toBrowser
      <3> HIDE DEF OkNext
      <3> QED BY <2>0, <2>1, <2>5
    <2>6. CASE LinkBreaks BY <2>6, Wanted' DEF LinkBreaks, Wanted
    <2> HIDE DEF OkNext
    <2> QED BY <2>3, <2>4, <2>5, <2>6, <2>7, RepliesMove
  <1> QED BY <1>1, <1>2

-----------------------------------------------------------------------------
(***************************************************************************)
(* The attach that is waited for.                                          *)
(***************************************************************************)
\* Replies that are only added to keep what the browser will hear.
LEMMA RepliesStay ==
    ASSUME TypeOK, UNCHANGED <<sent, name>>,
           toBrowser' = toBrowser \/ (\E r \in Replies : Speaks(r)) \/ \E b \in Slots : Replays(b)
    PROVE  (Acked => Acked') /\ (ExitOnTheWay => ExitOnTheWay')
  <1>0. toBrowser \in Seq(Replies) BY TypeParts DEF WireOK
  <1>1. \A k \in DOMAIN toBrowser : k \in DOMAIN toBrowser' /\ toBrowser'[k] = toBrowser[k]
    <2>1. CASE toBrowser' = toBrowser BY <2>1
    <2>2. CASE \E r \in Replies : Speaks(r) BY <1>0, <2>2, AppendAt DEF Speaks
    <2>3. CASE \E b \in Slots : Replays(b) BY <2>3, ReplaysAt
    <2> QED BY <2>1, <2>2, <2>3
  <1>2. ASSUME Acked PROVE Acked'
    <2>1. PICK k \in DOMAIN toBrowser : IsAck(toBrowser[k]) BY <1>2 DEF Acked
    <2>2. toBrowser'[k].type = "attached" /\ toBrowser'[k].id = sent' /\ k \in DOMAIN toBrowser'
      BY <1>1, <2>1 DEF IsAck
    <2> QED BY <2>2 DEF Acked, IsAck
  <1>3. ASSUME ExitOnTheWay PROVE ExitOnTheWay'
    <2>1. PICK k \in DOMAIN toBrowser : toBrowser[k].type = "exited" /\ toBrowser[k].name = name
      BY <1>3 DEF ExitOnTheWay
    <2> QED BY <1>1, <2>1 DEF ExitOnTheWay
  <1> QED BY <1>2, <1>3

\* What waits for its answer is newer than every pty.
LEMMA NothingServesYet ==
    ASSUME TypeOK, Numbered, Asked \/ InHand
    PROVE  \A b \in Slots : bridge[b].st # "free" => bridge[b].id < sent
  <1>0. toRelay \in Seq(Requests) BY TypeParts DEF WireOK
  <1> SUFFICES ASSUME NEW b \in Slots, bridge[b].st # "free" PROVE bridge[b].id < sent OBVIOUS
  <1>1. Older(bridge[b].id) BY DEF Numbered
  <1>2. CASE Asked
    <2>1. Len(toRelay) \in DOMAIN toRelay BY <1>0, <1>2 DEF Asked
    <2> QED BY <1>1, <1>2, <2>1 DEF Asked, Older
  <1>3. CASE InHand BY <1>1, <1>3 DEF InHand, Older
  <1> QED BY <1>2, <1>3

\* While the attach waits, and no pty speaks for it, nothing acknowledges it.
LEMMA StillWaiting ==
    ASSUME TypeOK, OnePty, Queued, Numbered, Next, sent' = sent, phase' = phase,
           Awaiting
    PROVE  phase' = "attaching" /\ ~Acked'
  <1>1. ASSUME NEW b \in Slots, Ready(b), bridge[b].id = sent PROVE FALSE
    <2>1. bridge[b].st # "free" /\ sent \in Nat
      BY <1>1, TypeParts, AttachAssumption DEF Ready, BrowserOK
    <2>2. bridge[b].id < sent BY <2>1, NothingServesYet DEF Awaiting
    <2> QED BY <1>1, <2>1, <2>2
  <1> QED BY <1>1, AckFrom DEF Awaiting

\* An attach that is refused is answered.
LEMMA RefusedIsAnswered ==
    ASSUME TypeOK, OnePty, Numbered, Next, ~Spawn, sent' = sent, Asked \/ InHand,
           phase' = "attaching", ~Acked', toRelay' = <<>>, at' = "idle", refused'
    PROVE  Answered'
  <1>0. sent \in Nat BY TypeParts, AttachAssumption DEF BrowserOK
  <1>1. ASSUME NEW b \in Slots, bridge'[b].st # "free" PROVE bridge'[b].id # sent'
    <2>1. bridge[b].st # "free" /\ bridge'[b].id = bridge[b].id BY <1>1, BridgesFrom
    <2>2. bridge[b].id < sent BY <2>1, NothingServesYet
    <2> QED BY <1>0, <2>1, <2>2
  <1> QED BY <1>1 DEF Answered

\* Steps that touch nothing of an attach that has been answered.
LEMMA AnsweredKept ==
    ASSUME TypeOK, OnePty, Answered, UNCHANGED <<sent, name, phase, toRelay, at, refused, missed, pty, attachedSession>>,
           Acked' <=> Acked, ExitOnTheWay => ExitOnTheWay',
           \A b \in Slots : bridge'[b].st # "free" =>
               bridge[b].st # "free" /\ bridge'[b].id = bridge[b].id /\ bridge'[b].ready = bridge[b].ready,
           pty # None => bridge'[pty].id = bridge[pty].id /\ bridge'[pty].ready = bridge[pty].ready
    PROVE  Answered'
  <1>1. Served' <=> Served BY DEF Served
  <1>2. \A b \in Slots : bridge'[b].st # "free" /\ bridge'[b].id = sent' => pty' = b /\ attachedSession' = name'
    BY DEF Answered
  <1>3. phase' = "attaching" => refused' \/ Acked' \/ (Served' /\ ~bridge'[pty'].ready)
    BY <1>1 DEF Answered, Served
  <1>4. phase' = "attached" \/ Acked' => /\ Served' \/ missed' \/ ExitOnTheWay'
                                         /\ pty' # None => bridge'[pty'].id = sent' /\ bridge'[pty'].ready
    BY <1>1 DEF Answered
  <1> QED BY <1>2, <1>3, <1>4 DEF Answered

-----------------------------------------------------------------------------
\* The browser hears of it.
LEMMA AwaitedReceive ==
    ASSUME TypeOK, OnePty, Queued, OfLast, Next, Receive, Wanted, Wanted',
           UNCHANGED <<sent, name, desired>>, Awaiting \/ Answered
    PROVE  Awaiting' \/ Answered'
  <1> DEFINE m == Head(toBrowser)
  <1>0. toBrowser \in Seq(Replies) /\ toBrowser # <<>> /\ toBrowser' = Tail(toBrowser)
    BY TypeParts DEF WireOK, Receive
  <1>1. m = toBrowser[1] /\ 1 \in DOMAIN toBrowser BY <1>0, TailAt
  <1>2. \A k \in DOMAIN toBrowser : k # 1 => k - 1 \in DOMAIN toBrowser' /\ toBrowser'[k - 1] = toBrowser[k]
    BY <1>0, TailAt
  <1>3. UNCHANGED <<at, msg, pty, attachedSession, bridge>> BY DEF Receive, connVars, tmuxVars
  <1>4. Acked' => Acked
    BY AckFrom, <1>3, ReadyIs
  <1>5. ~(m.type = "attached" /\ m.id = sent) => (Acked => Acked')
    <2> SUFFICES ASSUME ~(m.type = "attached" /\ m.id = sent), Acked PROVE Acked' OBVIOUS
    <2>1. PICK k \in DOMAIN toBrowser : IsAck(toBrowser[k]) BY DEF Acked
    <2>2. k # 1 BY <1>1, <2>1 DEF IsAck
    <2>3. k - 1 \in DOMAIN toBrowser' /\ toBrowser'[k - 1].type = "attached" /\ toBrowser'[k - 1].id = sent'
      BY <1>2, <2>1, <2>2 DEF IsAck
    <2> QED BY <2>3 DEF Acked, IsAck
  <1>6. ~(m.type = "exited" /\ m.name = name) => (ExitOnTheWay => ExitOnTheWay')
    <2> SUFFICES ASSUME ~(m.type = "exited" /\ m.name = name), ExitOnTheWay PROVE ExitOnTheWay' OBVIOUS
    <2>1. PICK k \in DOMAIN toBrowser : toBrowser[k].type = "exited" /\ toBrowser[k].name = name
      BY DEF ExitOnTheWay
    <2>2. k # 1 BY <1>1, <2>1
    <2> QED BY <1>2, <2>1, <2>2 DEF ExitOnTheWay
  <1>7. /\ UNCHANGED <<toRelay, refused>>
        /\ missed => missed'
        /\ ~(m.type = "attached" /\ Acknowledges(m)) => phase' = phase
        /\ m.type = "attached" /\ Acknowledges(m) => phase' = "attached"
        /\ m.type = "exited" /\ m.name = name => missed'
    <2>1. CASE m.type = "attached" BY <2>1, ReceiveCases
    <2>2. CASE m.type \in {"output", "error"} BY <2>2, ReceiveCases DEF browserVars, histVars
    <2>3. CASE m.type = "exited"
      <3>1. Exited(m.name) BY <2>3, ReceiveCases
      <3>2. phase' # "idle" /\ name = desired BY DEF Wanted, OfLast
      <3>3. UNCHANGED <<toRelay, refused, phase>> BY <3>1, <3>2 DEF Exited, Detach
      <3>4. missed \in BOOLEAN BY TypeParts DEF HistOK
      <3>5. missed' = (missed \/ desired = m.name) \/ (missed' = missed /\ desired # m.name)
        BY <3>1, <3>2 DEF Exited, Detach
      <3>6. (missed => missed') /\ (m.name = name => missed') BY <3>2, <3>4, <3>5
      <3> QED BY <2>3, <3>3, <3>6
    <2> QED BY <2>1, <2>2, <2>3, ReceiveCases
  <1>8. m.type = "attached" /\ m.id = sent => Acked BY <1>1 DEF Acked, IsAck
  <1> HIDE DEF m
  <1>9. CASE Awaiting
    <2>1. phase' = phase /\ phase = "attaching" /\ ~Acked' BY <1>4, <1>7, <1>8, <1>9 DEF Awaiting, Acknowledges
    <2>2. Asked => Asked' BY <1>7 DEF Asked, IsAttach
    <2>3. InHand => InHand' BY <1>3, <1>7 DEF InHand, Handling, IsAttach
    <2> QED BY <1>9, <2>1, <2>2, <2>3 DEF Awaiting
  <1>10. CASE Answered
    <2>1. toRelay' = <<>> /\ at' = "idle" BY <1>3, <1>7, <1>10 DEF Answered
    <2>2. Served' <=> Served BY <1>3 DEF Served
    <2>3. \A b \in Slots : bridge'[b].st # "free" /\ bridge'[b].id = sent' => pty' = b /\ attachedSession' = name'
      BY <1>3, <1>10 DEF Answered
    <2>4. phase' = "attached" \/ Acked' => phase = "attached" \/ Acked
      BY <1>4, <1>7, <1>8 DEF Acknowledges
    <2>5. phase' = "attached" \/ Acked' => Served' \/ missed' \/ ExitOnTheWay'
      BY <1>6, <1>7, <1>10, <2>2, <2>4 DEF Answered
    <2>6. phase' = "attached" \/ Acked' => (pty' # None => bridge'[pty'].id = sent' /\ bridge'[pty'].ready)
      BY <1>3, <1>10, <2>4 DEF Answered
    <2>7. phase' = "attaching" => phase = "attaching" /\ (Acked => Acked')
      BY <1>5, <1>7 DEF Acknowledges
    <2>8. phase' = "attaching" => refused' \/ Acked' \/ (Served' /\ ~bridge'[pty'].ready)
      BY <1>3, <1>7, <1>10, <2>2, <2>7 DEF Answered
    <2> QED BY <2>1, <2>3, <2>5, <2>6, <2>8 DEF Answered
  <1> QED BY <1>9, <1>10

\* The relay takes it up, or refuses it at once.
LEMMA AwaitedTake ==
    ASSUME TypeOK, OnePty, Queued, Numbered, Next, Take, Awaiting \/ Answered
    PROVE  Awaiting' \/ Answered'
  <1> DEFINE m == Head(toRelay)
  <1>0. toRelay \in Seq(Requests) /\ toRelay # <<>> /\ at = "idle" /\ toRelay' = Tail(toRelay)
    BY TypeParts DEF WireOK, Take
  <1>1. Awaiting /\ Asked BY <1>0 DEF Awaiting, Answered, InHand, Handling
  <1>2. UNCHANGED <<sent, phase>> BY DEF Take, browserVars
  <1>3. phase' = "attaching" /\ ~Acked' BY <1>1, <1>2, StillWaiting
  <1>4. m = toRelay[1] BY <1>0, TailAt
  <1>5. Len(toRelay) \in Nat /\ Len(toRelay) >= 1 /\ Len(Tail(toRelay)) = Len(toRelay) - 1 BY <1>0, TailAt
  <1>6. CASE Len(toRelay) > 1
    <2>1. /\ toRelay' # <<>> /\ Len(toRelay') = Len(toRelay) - 1
          /\ toRelay'[Len(toRelay')] = toRelay[Len(toRelay)]
      <3> DEFINE n == Len(toRelay)
      <3>1. Len(toRelay') = n - 1 /\ n \in Nat /\ n > 1 BY <1>0, <1>5, <1>6
      <3>2. \A k \in 1 .. (n - 1) : Tail(toRelay)[k] = toRelay[k + 1] BY <1>0, TailAt
      <3> HIDE DEF n
      <3>3. n - 1 \in 1 .. (n - 1) /\ (n - 1) + 1 = n BY <3>1
      <3>4. Tail(toRelay)[n - 1] = toRelay[n] BY <3>2, <3>3
      <3>5. Len(toRelay') # 0 BY <3>1
      <3>6. Len(<<>>) = 0 OBVIOUS
      <3>7. toRelay' # <<>> BY <3>5, <3>6
      <3> QED BY <1>0, <3>1, <3>4, <3>7 DEF n
    <2>2. Asked' BY <1>1, <1>2, <2>1 DEF Asked, IsAttach
    <2> QED BY <1>3, <2>2 DEF Awaiting
  <1>7. CASE Len(toRelay) = 1
    <2>1. toRelay' = <<>> /\ IsAttach(m) /\ m.id = sent BY <1>0, <1>1, <1>4, <1>5, <1>7 DEF Asked
    <2> HIDE DEF m
    <2>2. CASE at' = "passed" /\ msg' = m
      <3>1. InHand' BY <1>2, <2>1, <2>2 DEF InHand, Handling, IsAttach
      <3> QED BY <1>3, <3>1 DEF Awaiting
    <2>3. CASE UNCHANGED <<at, msg>> /\ refused' = (refused \/ m.id = sent)
      <3>1. refused' /\ at' = "idle" BY <1>0, <2>1, <2>3
      <3>2. ~Spawn BY <1>0 DEF Spawn, Attachable
      <3> QED BY <1>1, <1>2, <1>3, <2>1, <3>1, <3>2, RefusedIsAnswered
    <2> QED BY <2>2, <2>3 DEF Take, m
  <1>8. Len(toRelay) > 1 \/ Len(toRelay) = 1
    <2>1. \A n \in Nat : n >= 1 => n > 1 \/ n = 1 OBVIOUS
    <2> QED BY <1>5, <2>1
  <1> QED BY <1>6, <1>7, <1>8

\* The handler goes on with it, refuses it or spawns its pty.
LEMMA AwaitedHandles ==
    ASSUME TypeOK, OnePty, Queued, OfLast, Numbered, Next, Wanted, UNCHANGED name,
           LetGo \/ DropClone \/ FindSession \/ MakeClone \/ LockFails \/ Spawn \/ SpawnFails,
           Awaiting \/ Answered
    PROVE  Awaiting' \/ Answered'
  <1>0. /\ UNCHANGED <<sent, phase, toRelay>> /\ at # "idle"
        /\ sent \in Nat
    BY TypeParts, AttachAssumption
    DEF LetGo, DropClone, FindSession, MakeClone, LockFails, Spawn, SpawnFails, browserVars, wireVars,
        Attachable, BrowserOK
  <1>1. Awaiting BY <1>0 DEF Answered
  <1>2. phase' = "attaching" /\ ~Acked' BY <1>0, <1>1, StillWaiting
  <1>3. CASE Asked
    <2>1. Asked' BY <1>0, <1>3 DEF Asked, IsAttach
    <2> QED BY <1>2, <2>1 DEF Awaiting
  <1>4. CASE InHand
    <2>0. toRelay' = <<>> /\ IsAttach(msg) /\ msg.id = sent BY <1>0, <1>4 DEF InHand, Handling
    <2>1. CASE at' # "idle" /\ msg' = msg
      <3>1. InHand' BY <1>0, <2>0, <2>1 DEF InHand, Handling, IsAttach
      <3> QED BY <1>2, <3>1 DEF Awaiting
    <2>2. CASE Refuse /\ ~Spawn
      <3>1. refused' /\ at' = "idle" BY <2>0, <2>2 DEF Refuse, Done
      <3> QED BY <1>0, <1>2, <1>4, <2>0, <2>2, <3>1, RefusedIsAnswered
    <2>3. CASE Spawn
      <3>1. /\ pty' \in Slots /\ bridge'[pty'].id = sent' /\ ~bridge'[pty'].ready /\ at' = "idle"
            /\ attachedSession' = msg.name /\ pty' # None
        BY <1>0, <2>0, <2>3, SpawnIs, AttachAssumption
      <3>2. msg.name = name BY <1>4, <2>0 DEF OfLast, InHand
      <3>3. Served' BY <3>1, <3>2 DEF Served
      <3>4. ASSUME NEW b \in Slots, bridge'[b].st # "free", bridge'[b].id = sent' PROVE pty' = b
        <4>1. CASE bridge[b].st # "free" /\ bridge'[b].id = bridge[b].id
          <5>1. bridge[b].id < sent BY <1>4, <4>1, NothingServesYet
          <5> QED BY <1>0, <3>4, <4>1, <5>1
        <4> QED BY <3>4, <4>1, BridgesFrom
      <3> QED BY <1>2, <2>0, <3>1, <3>2, <3>3, <3>4 DEF Answered
    <2>4. CASE LetGo
      <3>1. at' # "idle" /\ msg' = msg BY <2>0, <2>4 DEF LetGo, IsAttach
      <3> QED BY <2>1, <3>1
    <2>5. CASE DropClone
      <3>1. at' # "idle" /\ msg' = msg BY <2>0, <2>5 DEF DropClone, IsAttach
      <3> QED BY <2>1, <3>1
    <2>6. CASE (FindSession \/ MakeClone \/ LockFails \/ SpawnFails) /\ ~Spawn
      <3>1. Refuse \/ (at' # "idle" /\ msg' = msg)
        BY <2>6 DEF FindSession, MakeClone, LockFails, SpawnFails
      <3> QED BY <2>1, <2>2, <2>6, <3>1
    <2> QED BY <2>3, <2>4, <2>5, <2>6
  <1> QED BY <1>1, <1>3, <1>4 DEF Awaiting

-----------------------------------------------------------------------------
\* Its pty acknowledges it, writes or exits.
LEMMA AwaitedPty ==
    ASSUME TypeOK, OnePty, Queued, OfLast, Numbered, Next, Wanted, up, sock = "open", UNCHANGED name,
           NEW b \in Slots, Ready(b) \/ Output(b) \/ PtyExit(b), Awaiting \/ Answered
    PROVE  Awaiting' \/ Answered'
  <1>0. /\ UNCHANGED <<sent, phase, toRelay, at, msg, missed>> /\ sent \in Nat
        /\ b # None /\ pty \in Slots \cup {None}
    <2>1. UNCHANGED <<sent, phase, toRelay, at, msg, missed>>
      BY DEF Ready, Output, PtyExit, browserVars, connVars, histVars
    <2>2. sent \in Nat BY TypeParts, AttachAssumption DEF BrowserOK
    <2>3. b # None /\ pty \in Slots \cup {None} BY TypeParts, AttachAssumption DEF ConnOK
    <2> QED BY <2>1, <2>2, <2>3
  <1>1. toBrowser' = toBrowser \/ (\E r \in Replies : Speaks(r)) \/ \E c \in Slots : Replays(c)
    <2>1. ~Receive /\ ~LinkBreaks
      <3>1. CASE Ready(b)
        <4>1. bridge' # bridge BY <3>1, ReadyIs
        <4> QED BY <4>1 DEF Receive, LinkBreaks, tmuxVars
      <3>2. CASE PtyExit(b)
        <4>1. bridge'[b] = Free /\ Free.st = "free" BY <3>2, PtyExitIs DEF Free
        <4>2. bridge[b].st = "dead" BY <3>2 DEF PtyExit
        <4>3. bridge' # bridge BY <4>1, <4>2
        <4> QED BY <4>3 DEF Receive, LinkBreaks, tmuxVars
      <3>3. CASE Output(b)
        <4>1. toBrowser \in Seq(Replies) BY TypeParts DEF WireOK
        <4>2. toBrowser' = Append(toBrowser, Reply("output", bridge[b].name, bridge[b].id))
          BY <3>3 DEF Output, Send, Sent
        <4>3. Reply("output", bridge[b].name, bridge[b].id) \in Replies BY <3>3, BridgeIs, Sending DEF Output
        <4>4. Len(toBrowser') = Len(toBrowser) + 1 /\ Len(toBrowser) \in Nat /\ toBrowser' # <<>>
          BY <4>1, <4>2, <4>3, AppendAt
        <4>5. Receive => Len(toBrowser') = Len(toBrowser) - 1 BY <4>1, TailAt DEF Receive
        <4>6. LinkBreaks => toBrowser' = <<>> BY DEF LinkBreaks
        <4> QED BY <4>4, <4>5, <4>6
      <3> QED BY <3>1, <3>2, <3>3
    <2> QED BY <2>1, RepliesMove
  <1>2. (Acked => Acked') /\ (ExitOnTheWay => ExitOnTheWay') BY <1>0, <1>1, RepliesStay
  <1>3. CASE Awaiting
    <2>1. phase' = "attaching" /\ ~Acked' BY <1>0, <1>3, StillWaiting
    <2>2. Asked => Asked' BY <1>0 DEF Asked, IsAttach
    <2>3. InHand => InHand' BY <1>0 DEF InHand, Handling, IsAttach
    <2> QED BY <1>3, <2>1, <2>2, <2>3 DEF Awaiting
  <1>4. CASE Answered /\ Output(b)
    <2>1. UNCHANGED <<refused, pty, attachedSession, bridge>> BY <1>4 DEF Output, connVars, histVars
    <2>2. Acked' => Acked
      <3>1. ASSUME NEW c \in Slots, Ready(c) PROVE FALSE
        <4>1. ~bridge[c].ready /\ bridge'[c].ready BY <3>1, ReadyIs
        <4> QED BY <2>1, <4>1
      <3> QED BY <1>0, <3>1, AckFrom
    <2> QED BY <1>0, <1>2, <1>4, <2>1, <2>2, AnsweredKept
  <1>5. CASE Answered /\ Ready(b) /\ bridge[b].id # sent
    <2>1. UNCHANGED <<refused, pty, attachedSession>> BY <1>5 DEF Ready, connVars, histVars
    <2>2. Acked' => Acked
      <3>1. ASSUME NEW c \in Slots, Ready(c) PROVE c = b
        <4>1. ~bridge[c].ready /\ bridge'[c].ready BY <3>1, ReadyIs
        <4> QED BY <1>5, <4>1, ReadyIs
      <3> QED BY <1>0, <1>5, <3>1, AckFrom
    <2>3. \A c \in Slots : /\ bridge'[c].id = bridge[c].id
                           /\ bridge'[c].st = bridge[c].st
                           /\ bridge'[c].ready = bridge[c].ready \/ c = b
      BY <1>5, ReadyIs
    <2>4. \A c \in Slots : bridge'[c].st # "free" /\ bridge'[c].id = sent' => pty' = c /\ attachedSession' = name'
      BY <1>0, <1>5, <2>1, <2>3 DEF Answered
    <2>5. Served' <=> Served BY <1>0, <2>1, <2>3 DEF Served
    <2>6. Served => pty # b BY <1>5 DEF Served
    <2>7. phase' = "attaching" => refused' \/ Acked' \/ (Served' /\ ~bridge'[pty'].ready)
      BY <1>0, <1>2, <1>5, <2>1, <2>3, <2>5, <2>6 DEF Answered, Served
    <2>8. phase' = "attached" \/ Acked' => Served' \/ missed' \/ ExitOnTheWay'
      BY <1>0, <1>2, <1>5, <2>2, <2>5 DEF Answered
    <2>9. phase' = "attached" \/ Acked' => (pty' # None => bridge'[pty'].id = sent' /\ bridge'[pty'].ready)
      BY <1>0, <1>5, <2>1, <2>2, <2>3 DEF Answered
    <2> QED BY <1>0, <1>5, <2>4, <2>7, <2>8, <2>9 DEF Answered
  <1>6. CASE Answered /\ Ready(b) /\ bridge[b].id = sent
    <2>1. UNCHANGED <<refused, pty, attachedSession>> /\ bridge[b].st # "free"
      BY <1>6 DEF Ready, connVars, histVars
    <2>2. pty = b /\ attachedSession = name BY <1>6, <2>1 DEF Answered
    <2>3. bridge'[b].ready /\ bridge'[b].id = sent' BY <1>0, <1>6, ReadyIs
    <2>4. Served' BY <1>0, <2>1, <2>2, <2>3 DEF Served
    <2>5. Acked'
      <3>1. toBrowser \in Seq(Replies) BY TypeParts DEF WireOK
      <3>2. Ack(b) \in Replies /\ Ack(b).type = "attached" /\ Ack(b).id = sent BY <1>6, ReadySays
      <3>3. toBrowser' = Append(toBrowser, Ack(b)) \/ Replays(b)
        BY <1>6, ReadySays DEF Replays, Ready
      <3>4. /\ Len(toBrowser) + 1 \in DOMAIN toBrowser' /\ toBrowser'[Len(toBrowser) + 1] = Ack(b)
        <4> HIDE DEF Ack
        <4>1. CASE toBrowser' = Append(toBrowser, Ack(b)) BY <3>1, <3>2, <4>1, AppendAt
        <4>2. CASE Replays(b) BY <4>2, ReplaysAt
        <4> QED BY <3>3, <4>1, <4>2
      <3> QED BY <1>0, <3>2, <3>4 DEF Acked, IsAck
    <2>6. \A c \in Slots : bridge'[c].st # "free" /\ bridge'[c].id = sent' => pty' = c /\ attachedSession' = name'
      <3>1. \A c \in Slots : bridge'[c].id = bridge[c].id /\ bridge'[c].st = bridge[c].st
        BY <1>6, ReadyIs
      <3> QED BY <1>0, <1>6, <2>1, <3>1 DEF Answered
    <2> QED BY <1>0, <1>6, <2>1, <2>2, <2>3, <2>4, <2>5, <2>6 DEF Answered
  <1>7. CASE Answered /\ PtyExit(b)
    <2>0. bridge'[b].st = "free"
      <3>1. bridge'[b] = Free BY <1>7, PtyExitIs
      <3> QED BY <3>1 DEF Free
    <2>1. \A c \in Slots : bridge'[c].st # "free" => c # b /\ bridge'[c] = bridge[c]
      BY <1>7, <2>0, PtyExitIs
    <2>2. Acked' => Acked
      <3>1. ASSUME NEW c \in Slots, Ready(c) PROVE FALSE
        <4>1. ~bridge[c].ready /\ bridge'[c].ready /\ bridge'[c].st = bridge[c].st /\ bridge[c].st # "free"
          BY <3>1, ReadyIs
        <4> QED BY <2>1, <4>1
      <3> QED BY <1>0, <3>1, AckFrom
    <2>3. CASE b # pty
      <3>1. UNCHANGED <<refused, pty, attachedSession>> BY <1>7, <2>3, PtyExitIs
      <3>2. pty # None => bridge'[pty] = bridge[pty] BY <1>0, <1>7, <2>3, PtyExitIs
      <3> QED BY <1>0, <1>2, <1>7, <2>1, <2>2, <3>1, <3>2, AnsweredKept
    <2>4. CASE b = pty
      <3>1. /\ pty' = None /\ refused' = (refused \/ bridge[b].id = sent)
            /\ Send(Reply(IF bridge[b].ready THEN "exited" ELSE "error", bridge[b].name, bridge[b].id))
        BY <1>7, <2>4, PtyExitIs
      <3>2. ~Served' BY <3>1 DEF Served
      <3>3. phase' = "attaching" => refused' \/ Acked'
        BY <1>0, <1>2, <1>7, <2>4, <3>1 DEF Answered, Served
      <3>4. phase' = "attached" \/ Acked' => missed' \/ ExitOnTheWay'
        <4> SUFFICES ASSUME phase' = "attached" \/ Acked', ~missed, ~ExitOnTheWay PROVE ExitOnTheWay'
          BY <1>0, <1>2
        <4>1. phase = "attached" \/ Acked BY <1>0, <2>2
        <4>2. bridge[b].id = sent /\ bridge[b].ready BY <1>0, <1>7, <2>4, <4>1 DEF Answered
        <4>3. bridge[b].name = name BY <4>2 DEF OfLast
        <4> DEFINE r == Reply("exited", bridge[b].name, bridge[b].id)
        <4>4. Send(r) BY <3>1, <4>2
        <4>5. r \in Replies /\ r.type = "exited" /\ r.name = name BY <4>3, <4>4, BridgeIs, Sending DEF Reply
        <4> HIDE DEF r
        <4>6. toBrowser' = Append(toBrowser, r) BY <4>4 DEF Send, Sent
        <4>7. toBrowser \in Seq(Replies) BY TypeParts DEF WireOK
        <4>8. Len(toBrowser) + 1 \in DOMAIN toBrowser' /\ toBrowser'[Len(toBrowser) + 1] = r
          BY <4>5, <4>6, <4>7, AppendAt
        <4> QED BY <1>0, <4>5, <4>8 DEF ExitOnTheWay
      <3>5. \A c \in Slots : bridge'[c].st # "free" => bridge'[c].id # sent'
        BY <1>0, <1>7, <2>1, <2>4 DEF Answered
      <3> QED BY <1>0, <1>7, <3>1, <3>3, <3>4, <3>5 DEF Answered
    <2> QED BY <2>3, <2>4
  <1> QED BY <1>3, <1>4, <1>5, <1>6, <1>7

\* Every step keeps the attach that is waited for from being lost.
LEMMA AwaitedStep ==
    ASSUME TypeOK, OnePty, Lifecycle, OfLast, Queued, Numbered, Awaited, Next PROVE Awaited'
  <1> SUFFICES ASSUME Wanted', sock' = "open" PROVE Awaiting' \/ Answered' BY DEF Awaited
  <1>0. toRelay \in Seq(Requests) /\ sent \in Nat BY TypeParts, AttachAssumption DEF WireOK, BrowserOK
  <1>1. CASE Asks
    <2> DEFINE m == [type |-> "attach", name |-> name', id |-> sent + 1]
    <2>1. toRelay' = Append(toRelay, m) /\ m \in Requests /\ m.id = sent' /\ m.type = "attach" BY <1>1 DEF Asks
    <2>2. sent' = sent + 1 /\ toBrowser' = toBrowser /\ phase' = "attaching" BY <1>1 DEF Asks
    <2> HIDE DEF m
    <2>3. toRelay' # <<>> /\ toRelay'[Len(toRelay')] = m BY <1>0, <2>1, AppendAt
    <2>4. Asked' BY <2>1, <2>3 DEF Asked, IsAttach
    <2>5. \A k \in DOMAIN toBrowser : toBrowser[k].id # sent + 1 BY <1>0 DEF Numbered, Older
    <2>6. ~Acked' BY <2>2, <2>5 DEF Acked, IsAck
    <2> QED BY <2>2, <2>4, <2>6 DEF Awaiting
  <1>2. CASE ~Asks
    <2>0. Wanted /\ up /\ UNCHANGED <<sent, name, desired>> /\ (Receive \/ UNCHANGED <<phase, painted, missed>>)
      BY <1>2, QueueMoves DEF Wanted
    <2>1. sock = "open"
      BY <2>0, sock' = "open"
      DEF Next, RelayStep, PtyStep, RemovalSteps, Choose, Connect, LinkBreaks, Receive, Take, LetGo, DropClone,
          FindSession, MakeClone, LockFails, Spawn, SpawnFails, Ready, Output, PtyExit, DrainPoll,
          CloseEvent, HangUp, Remove, RemovalStep, Forgotten, Others, connVars
    <2>2. Awaiting \/ Answered BY <2>0, <2>1 DEF Awaited
    <2>3. CASE Receive BY <2>0, <2>2, <2>3, AwaitedReceive
    <2>4. CASE Take BY <2>2, <2>4, AwaitedTake
    <2>5. CASE LetGo \/ DropClone \/ FindSession \/ MakeClone \/ LockFails \/ Spawn \/ SpawnFails
      BY <2>0, <2>2, <2>5, AwaitedHandles
    <2>6. CASE \E b \in Slots : PtyStep(b) \/ Output(b)
      BY <2>0, <2>1, <2>2, <2>6, AwaitedPty DEF PtyStep
    <2>7. CASE ~Receive /\ (DrainPoll \/ Others)
      <3>1. UNCHANGED <<toRelay, toBrowser, at, msg, pty, attachedSession, refused, phase, missed>>
        BY <2>0, <2>7 DEF DrainPoll, Others, wireVars, connVars, histVars
      <3>2. \A b \in Slots : Kept(b)
        <4>1. CASE DrainPoll BY <4>1 DEF DrainPoll, Kept
        <4>2. CASE Others BY <4>2, OthersIs DEF Aged, Kept
        <4> QED BY <2>7, <4>1, <4>2
      <3>3. (Acked' <=> Acked) /\ (ExitOnTheWay' <=> ExitOnTheWay)
        BY <2>0, <3>1 DEF Acked, IsAck, ExitOnTheWay
      <3>4. (Asked' <=> Asked) /\ (InHand' <=> InHand)
        BY <2>0, <3>1 DEF Asked, InHand, Handling, IsAttach
      <3>5. CASE Awaiting BY <3>1, <3>3, <3>4, <3>5 DEF Awaiting
      <3>6. CASE Answered
        <4>1. pty \in Slots \cup {None} BY TypeParts DEF ConnOK
        <4>2. pty # None => bridge'[pty].id = bridge[pty].id /\ bridge'[pty].ready = bridge[pty].ready
          BY <3>2, <4>1 DEF Kept
        <4>3. \A b \in Slots : bridge'[b].st # "free" =>
               bridge[b].st # "free" /\ bridge'[b].id = bridge[b].id /\ bridge'[b].ready = bridge[b].ready
          BY <3>2 DEF Kept
        <4> QED BY <2>0, <3>1, <3>3, <3>6, <4>2, <4>3, AnsweredKept
      <3> QED BY <2>2, <3>5, <3>6
    <2>8. ASSUME NEW w \in Removers, RemovalStep(w) PROVE FALSE
      <3>1. removal = [v \in Removers |-> "no"] BY <2>1 DEF Lifecycle
      <3>2. removal[w] # "no" BY <2>8 DEF RemovalStep
      <3> QED BY <3>1, <3>2
    <2>9. ~CloseEvent /\ ~HangUp /\ ~Remove /\ ~Forgotten
      BY <2>1, sock' = "open" DEF CloseEvent, HangUp, Remove, Forgotten
    <2>10. ~Connect /\ ~LinkBreaks BY <2>0, Wanted' DEF Connect, LinkBreaks, Wanted
    <2>11. ASSUME NEW n \in Names \cup {None}, Choose(n) PROVE FALSE
      BY <2>0, <2>11 DEF Choose
    <2> QED BY <2>3, <2>4, <2>5, <2>6, <2>7, <2>8, <2>9, <2>10, <2>11 DEF Next, RelayStep, RemovalSteps
  <1> QED BY <1>1, <1>2

-----------------------------------------------------------------------------
(***************************************************************************)
(* The send buffer.                                                        *)
(***************************************************************************)
OutputsOf(q, i) == {k \in DOMAIN q : q[k].type = "output" /\ q[k].id = i}

\* The outputs of a pty are finitely many, at most as many as there are messages.
LEMMA OutputsFinite ==
    ASSUME NEW q \in Seq(Replies), NEW i
    PROVE  /\ IsFiniteSet(OutputsOf(q, i)) /\ Cardinality(OutputsOf(q, i)) \in Nat
           /\ Cardinality(OutputsOf(q, i)) <= Len(q)
  <1>1. DOMAIN q = 1 .. Len(q) /\ Len(q) \in Nat OBVIOUS
  <1>2. IsFiniteSet(1 .. Len(q)) /\ Cardinality(1 .. Len(q)) = Len(q) BY <1>1, FS_Interval
  <1>3. OutputsOf(q, i) \subseteq 1 .. Len(q) BY <1>1 DEF OutputsOf
  <1>4. IsFiniteSet(OutputsOf(q, i)) /\ Cardinality(OutputsOf(q, i)) <= Cardinality(1 .. Len(q))
    BY <1>2, <1>3, FS_Subset
  <1> QED BY <1>2, <1>4, FS_CardinalityType

\* One message more is at most one output more, and none of another pty.
LEMMA OutputsAppend ==
    ASSUME NEW q \in Seq(Replies), NEW i, NEW r \in Replies
    PROVE  /\ ~(r.type = "output" /\ r.id = i) => OutputsOf(Append(q, r), i) = OutputsOf(q, i)
           /\ Cardinality(OutputsOf(Append(q, r), i)) <= Cardinality(OutputsOf(q, i)) + 1
  <1>1. /\ DOMAIN q = 1 .. Len(q) /\ DOMAIN Append(q, r) = 1 .. (Len(q) + 1) /\ Len(q) \in Nat
        /\ \A k \in 1 .. Len(q) : Append(q, r)[k] = q[k]
        /\ Append(q, r)[Len(q) + 1] = r
    BY AppendAt
  <1>2. CASE ~(r.type = "output" /\ r.id = i)
    <2>1. OutputsOf(Append(q, r), i) = OutputsOf(q, i) BY <1>1, <1>2 DEF OutputsOf
    <2> QED BY <1>2, <2>1, OutputsFinite
  <1>3. CASE r.type = "output" /\ r.id = i
    <2>1. OutputsOf(Append(q, r), i) = OutputsOf(q, i) \cup {Len(q) + 1} BY <1>1, <1>3 DEF OutputsOf
    <2>2. Len(q) + 1 \notin OutputsOf(q, i) BY <1>1 DEF OutputsOf
    <2>3. IsFiniteSet(OutputsOf(q, i)) /\ Cardinality(OutputsOf(q, i)) \in Nat BY OutputsFinite
    <2>4. Cardinality(OutputsOf(Append(q, r), i)) = Cardinality(OutputsOf(q, i)) + 1
      BY <2>1, <2>2, <2>3, FS_AddElement
    <2> QED BY <1>3, <2>3, <2>4
  <1> QED BY <1>2, <1>3

\* One message less is no output more.
LEMMA OutputsTail ==
    ASSUME NEW q \in Seq(Replies), q # <<>>, NEW i
    PROVE  Cardinality(OutputsOf(Tail(q), i)) <= Cardinality(OutputsOf(q, i))
  <1> DEFINE S == OutputsOf(Tail(q), i)
             T == OutputsOf(q, i)
             f == [k \in S |-> k + 1]
  <1>1. /\ DOMAIN q = 1 .. Len(q) /\ DOMAIN Tail(q) = 1 .. (Len(q) - 1) /\ Len(q) \in Nat
        /\ \A k \in 1 .. (Len(q) - 1) : Tail(q)[k] = q[k + 1]
    BY TailAt
  <1>2. \A k \in S : k + 1 \in T /\ k \in Nat BY <1>1 DEF OutputsOf
  <1>3. IsFiniteSet(T) BY OutputsFinite
  <1> HIDE DEF S, T
  <1>4. f \in Injection(S, T) BY <1>2 DEF Injection, IsInjective
  <1>5. Cardinality(S) <= Cardinality(T) BY <1>3, <1>4, FS_Injection
  <1> QED BY <1>5 DEF S, T

\* What a replay adds.
LEMMA OutputsReplayed ==
    ASSUME TypeOK, NEW b \in Slots, Replays(b), NEW i
    PROVE  OutputsOf(toBrowser', i) =
             OutputsOf(toBrowser, i) \cup (IF bridge[b].id = i THEN {Len(toBrowser) + 2} ELSE {})
  <1>1. /\ DOMAIN toBrowser = 1 .. Len(toBrowser) /\ Len(toBrowser) \in Nat
        /\ DOMAIN toBrowser' = 1 .. (Len(toBrowser) + 2)
        /\ \A k \in DOMAIN toBrowser : k \in DOMAIN toBrowser' /\ toBrowser'[k] = toBrowser[k]
        /\ toBrowser'[Len(toBrowser) + 1] = Ack(b) /\ toBrowser'[Len(toBrowser) + 2] = Replay(b)
    BY ReplaysAt
  <1>2. Ack(b).type = "attached" /\ Replay(b).type = "output" /\ Replay(b).id = bridge[b].id
    BY ReadySays DEF Replays
  <1> HIDE DEF Ack, Replay
  <1>3. \A k \in DOMAIN toBrowser' : k \in DOMAIN toBrowser \/ k = Len(toBrowser) + 1 \/ k = Len(toBrowser) + 2
    BY <1>1
  <1>4. Len(toBrowser) + 2 \in DOMAIN toBrowser' BY <1>1
  <1> QED BY <1>1, <1>2, <1>3, <1>4 DEF OutputsOf

\* A pty stays ready.
LEMMA ReadyKept ==
    ASSUME TypeOK, OnePty, Next, NEW b \in Slots, bridge'[b].st # "free", ~bridge'[b].ready,
           ~(Spawn /\ b = pty')
    PROVE  ~bridge[b].ready /\ ~Ready(b)
  <1>1. ~Ready(b) BY ReadyIs
  <1>2. CASE \A c \in Slots : Kept(c) BY <1>1, <1>2 DEF Kept
  <1>3. CASE Spawn BY <1>1, <1>3, SpawnIs
  <1>4. ASSUME NEW c \in Slots, Ready(c) PROVE ~bridge[b].ready BY <1>1, <1>4, ReadyIs
  <1>5. ASSUME NEW c \in Slots, PtyExit(c) PROVE ~bridge[b].ready
    <2>1. bridge'[c] = Free /\ Free.st = "free" BY <1>5, PtyExitIs DEF Free
    <2>2. bridge'[b] = bridge[b] BY <1>5, <2>1, PtyExitIs
    <2> QED BY <2>2
  <1>6. ~Forgotten BY DEF Forgotten, Free
  <1> QED BY <1>1, <1>2, <1>3, <1>4, <1>5, <1>6, BridgesMove

\* The connection's pty is spawned, writes, resumes or is let go of; otherwise it
\* stays, and stays paused or not.
LEMMA PtyMoves ==
    ASSUME TypeOK, OnePty, Next
    PROVE  \/ Spawn \/ DrainPoll \/ \E b \in Slots : Output(b)
           \/ pty' = None \/ UNCHANGED <<pty, paused>>
  <1>1. CASE \/ \E n \in Names \cup {None} : Choose(n)
             \/ Connect \/ LinkBreaks \/ Receive \/ Take \/ DropClone \/ FindSession \/ MakeClone
             \/ LockFails \/ SpawnFails \/ CloseEvent \/ Forgotten \/ Others
             \/ (\E w \in Removers : RemovalStep(w)) \/ \E b \in Slots : Ready(b)
    BY <1>1 DEF Choose, Connect, LinkBreaks, Receive, Take, DropClone, FindSession, MakeClone, LockFails,
                SpawnFails, CloseEvent, Forgotten, Others, RemovalStep, Ready, connVars, tmuxVars
  <1>2. CASE LetGo \/ HangUp \/ Remove BY <1>2 DEF LetGo, HangUp, Remove, BeginRemoval, DropPty
  <1>3. ASSUME NEW b \in Slots, PtyExit(b) PROVE pty' = None \/ UNCHANGED <<pty, paused>>
    BY <1>3, PtyExitIs
  <1> QED BY <1>1, <1>2, <1>3 DEF Next, RelayStep, PtyStep, RemovalSteps

\* Every step keeps the buffer bounded.
LEMMA BufferedStep ==
    ASSUME TypeOK, OnePty, Lifecycle, OfLast, Queued, Numbered, Buffered, Next PROVE Buffered'
  <1>0. TypeOK' /\ OnePty' /\ Numbered' BY TypeStep, OnePtyStep, NumberedStep
  <1>1. toBrowser \in Seq(Replies) /\ toBrowser' \in Seq(Replies) /\ HighWater \in Nat
    BY <1>0, TypeParts, TypePartsNext, AttachAssumption DEF WireOK
  <1>2. \A i : Outputs(i) = OutputsOf(toBrowser, i) /\ Outputs(i)' = OutputsOf(toBrowser', i)
    BY DEF Outputs, OutputsOf
  <1>3. \A i : Cardinality(OutputsOf(toBrowser, i)) \in Nat /\ Cardinality(OutputsOf(toBrowser', i)) \in Nat
    BY <1>1, OutputsFinite
  <1>4. \A i : ~(\E k \in DOMAIN toBrowser' : toBrowser'[k].id = i) => Cardinality(OutputsOf(toBrowser', i)) = 0
    <2> SUFFICES ASSUME NEW i, \A k \in DOMAIN toBrowser' : toBrowser'[k].id # i
                 PROVE  Cardinality(OutputsOf(toBrowser', i)) = 0
      OBVIOUS
    <2>1. OutputsOf(toBrowser', i) = {} BY DEF OutputsOf
    <2> QED BY <2>1, FS_EmptySet
  <1>5. ASSUME NEW i, ~(\E b \in Slots : (Output(b) \/ Replays(b)) /\ bridge[b].id = i)
        PROVE  Cardinality(OutputsOf(toBrowser', i)) <= Cardinality(OutputsOf(toBrowser, i))
    <2>1. CASE toBrowser' = toBrowser BY <1>3, <2>1
    <2>2. CASE LinkBreaks
      <3>1. toBrowser' = <<>> BY <2>2 DEF LinkBreaks
      <3>2. Cardinality(OutputsOf(toBrowser', i)) = 0 BY <1>4, <3>1
      <3> QED BY <1>3, <3>2
    <2>3. CASE Receive BY <1>1, <2>3, OutputsTail DEF Receive
    <2>4. ASSUME NEW r \in Replies, Speaks(r),
                 r.type = "output" => \E b \in Slots : Output(b) /\ r.id = bridge[b].id
          PROVE  Cardinality(OutputsOf(toBrowser', i)) <= Cardinality(OutputsOf(toBrowser, i))
      <3>1. ~(r.type = "output" /\ r.id = i) BY <1>5, <2>4
      <3>2. OutputsOf(toBrowser', i) = OutputsOf(toBrowser, i) BY <1>1, <2>4, <3>1, OutputsAppend DEF Speaks
      <3> QED BY <1>3, <3>2
    <2>5. ASSUME NEW b \in Slots, Replays(b)
          PROVE  Cardinality(OutputsOf(toBrowser', i)) <= Cardinality(OutputsOf(toBrowser, i))
      <3>1. bridge[b].id # i BY <1>5, <2>5
      <3>2. OutputsOf(toBrowser', i) = OutputsOf(toBrowser, i) BY <2>5, <3>1, OutputsReplayed
      <3> QED BY <1>3, <3>2
    <2> QED BY <2>1, <2>2, <2>3, <2>4, <2>5, RepliesMove
  <1>6. ASSUME NEW b \in Slots, Output(b)
        PROVE  /\ Cardinality(OutputsOf(toBrowser', bridge[b].id)) <= HighWater + 2
               /\ ~paused' => Cardinality(OutputsOf(toBrowser', bridge[b].id)) <= HighWater + 1
    <2> DEFINE i == bridge[b].id
               r == Reply("output", bridge[b].name, bridge[b].id)
    <2>1. Cardinality(OutputsOf(toBrowser, i)) <= HighWater + 1
      BY <1>2, <1>6, AttachAssumption DEF Output, Buffered
    <2>2. r \in Replies /\ (toBrowser' = toBrowser \/ toBrowser' = Append(toBrowser, r))
      BY <1>6, BridgeIs, Sending DEF Output
    <2> HIDE DEF r
    <2>3. Cardinality(OutputsOf(toBrowser', i)) <= Cardinality(OutputsOf(toBrowser, i)) + 1
      <3>1. CASE toBrowser' = toBrowser BY <1>3, <3>1
      <3>2. CASE toBrowser' = Append(toBrowser, r) BY <1>1, <2>2, <3>2, OutputsAppend
      <3> QED BY <2>2, <3>1, <3>2
    <2>4. paused' = (Len(toBrowser') > HighWater) BY <1>6 DEF Output, Pauses
    <2>5. Cardinality(OutputsOf(toBrowser', i)) <= Len(toBrowser') /\ Len(toBrowser') \in Nat
      BY <1>1, OutputsFinite
    <2>6. ~paused' => Len(toBrowser') <= HighWater
      <3>1. ~paused' => ~(Len(toBrowser') > HighWater) BY <2>4
      <3> QED BY <1>1, <2>5, <3>1
    <2> HIDE DEF i
    <2>7. ~paused' => Cardinality(OutputsOf(toBrowser', i)) <= HighWater + 1 BY <1>1, <1>3, <2>5, <2>6
    <2>8. Cardinality(OutputsOf(toBrowser', i)) <= HighWater + 2 BY <1>1, <1>3, <2>1, <2>3
    <2> QED BY <2>7, <2>8 DEF i
  <1>r. ASSUME NEW b \in Slots, Replays(b) PROVE Cardinality(OutputsOf(toBrowser', bridge[b].id)) = 1
    <2>1. ~bridge[b].ready BY <1>r DEF Replays, Ready
    <2>2. OutputsOf(toBrowser, bridge[b].id) = {} BY <1>2, <2>1 DEF Buffered
    <2>3. OutputsOf(toBrowser', bridge[b].id) = {Len(toBrowser) + 2} BY <1>r, <2>2, OutputsReplayed
    <2> QED BY <2>3, FS_Singleton
  <1>n. ASSUME NEW b \in Slots, ~bridge'[b].ready PROVE OutputsOf(toBrowser', bridge'[b].id) = {}
    <2>1. CASE bridge'[b].st = "free"
      <3>1. bridge'[b] = Free BY <1>0, <2>1 DEF OnePty
      <3>2. bridge'[b].id = 0 BY <3>1 DEF Free
      <3>3. \A k \in DOMAIN toBrowser' : toBrowser'[k].id # 0 BY <1>0 DEF Numbered, Older
      <3> QED BY <3>2, <3>3 DEF OutputsOf
    <2>2. CASE Spawn /\ b = pty'
      <3>1. bridge'[pty'].id = msg.id /\ at \in {"found", "locking"} BY <2>2, SpawnIs
      <3>2. toBrowser' = toBrowser BY <2>2 DEF Spawn, wireVars
      <3>3. Handling BY <3>1 DEF Queued, Handling
      <3>4. \A k \in DOMAIN toBrowser : toBrowser[k].id \in Nat /\ toBrowser[k].id < msg.id
        BY <3>3 DEF Numbered, Older
      <3> QED BY <2>2, <3>1, <3>2, <3>4 DEF OutputsOf
    <2>3. CASE bridge'[b].st # "free" /\ bridge[b].st # "free" /\ bridge'[b].id = bridge[b].id /\ ~(Spawn /\ b = pty')
      <3>1. ~bridge[b].ready /\ ~Ready(b) BY <1>n, <2>3, ReadyKept
      <3>2. OutputsOf(toBrowser, bridge[b].id) = {} BY <1>2, <3>1 DEF Buffered
      <3>3. ASSUME NEW c \in Slots, (Output(c) \/ Replays(c)), bridge[c].id = bridge[b].id PROVE FALSE
        <4>1. c = b BY <2>3, <3>3 DEF Numbered
        <4> QED BY <3>1, <3>3, <4>1 DEF Output, Replays
      <3>4. Cardinality(OutputsOf(toBrowser', bridge[b].id)) <= Cardinality(OutputsOf(toBrowser, bridge[b].id))
        BY <1>5, <3>3
      <3>5. Cardinality(OutputsOf(toBrowser', bridge[b].id)) = 0 BY <1>3, <3>2, <3>4, FS_EmptySet
      <3>6. IsFiniteSet(OutputsOf(toBrowser', bridge[b].id)) BY <1>1, OutputsFinite
      <3>7. OutputsOf(toBrowser', bridge[b].id) = {} BY <3>5, <3>6, FS_EmptySet
      <3> QED BY <2>3, <3>7
    <2> QED BY <2>1, <2>2, <2>3, BridgesFrom
  <1>7. ASSUME Spawn PROVE Cardinality(OutputsOf(toBrowser', bridge'[pty'].id)) = 0
    <2>1. bridge'[pty'].id = msg.id /\ at \in {"found", "locking"} BY <1>7, SpawnIs
    <2>2. toBrowser' = toBrowser BY <1>7 DEF Spawn, wireVars
    <2>3. Handling BY <2>1 DEF Queued, Handling
    <2>4. \A k \in DOMAIN toBrowser : toBrowser[k].id \in Nat /\ toBrowser[k].id < msg.id
      BY <2>3 DEF Numbered, Older
    <2>5. \A k \in DOMAIN toBrowser' : toBrowser'[k].id # bridge'[pty'].id
      BY <2>1, <2>2, <2>4
    <2> QED BY <1>4, <2>5
  <1>8. ASSUME NEW b \in Slots PROVE Cardinality(OutputsOf(toBrowser', bridge'[b].id)) <= HighWater + 2
    <2>1. CASE bridge'[b].st = "free"
      <3>1. bridge'[b] = Free BY <1>0, <2>1 DEF OnePty
      <3>2. bridge'[b].id = 0 BY <3>1 DEF Free
      <3>3. \A k \in DOMAIN toBrowser' : toBrowser'[k].id # 0 BY <1>0 DEF Numbered, Older
      <3>4. Cardinality(OutputsOf(toBrowser', bridge'[b].id)) = 0 BY <1>4, <3>2, <3>3
      <3> QED BY <1>1, <3>4
    <2>2. CASE Spawn /\ b = pty' BY <1>1, <1>7, <2>2
    <2>3. CASE bridge'[b].id = bridge[b].id
      <3>1. CASE \E c \in Slots : Output(c) /\ bridge[c].id = bridge[b].id BY <1>6, <2>3, <3>1
      <3>3. CASE \E c \in Slots : Replays(c) /\ bridge[c].id = bridge[b].id
        <4>1. Cardinality(OutputsOf(toBrowser', bridge[b].id)) = 1 BY <1>r, <3>3
        <4> QED BY <1>1, <2>3, <4>1
      <3>2. CASE ~\E c \in Slots : (Output(c) \/ Replays(c)) /\ bridge[c].id = bridge[b].id
        <4>1. Cardinality(OutputsOf(toBrowser', bridge[b].id)) <= Cardinality(OutputsOf(toBrowser, bridge[b].id))
          BY <1>5, <3>2
        <4>2. Cardinality(OutputsOf(toBrowser, bridge[b].id)) <= HighWater + 2
          BY <1>2 DEF Buffered, BufferBounded
        <4> QED BY <1>1, <1>3, <2>3, <4>1, <4>2
      <3> QED BY <3>1, <3>2, <3>3
    <2> QED BY <2>1, <2>2, <2>3, BridgesFrom
  <1>9. ASSUME pty' # None, ~paused' PROVE Cardinality(OutputsOf(toBrowser', bridge'[pty'].id)) <= HighWater + 1
    <2>0. pty' \in Slots /\ bridge'[pty'].st # "free"
      BY <1>0, <1>9, TypePartsNext DEF OnePty, ConnOK
    <2>1. CASE Spawn BY <1>1, <1>7, <2>1
    <2>2. CASE DrainPoll
      <3>1. toBrowser' = <<>> BY <2>2 DEF DrainPoll, wireVars
      <3>2. Cardinality(OutputsOf(toBrowser', bridge'[pty'].id)) = 0 BY <1>4, <3>1
      <3> QED BY <1>1, <3>2
    <2>3. ASSUME NEW b \in Slots, Output(b)
          PROVE  Cardinality(OutputsOf(toBrowser', bridge'[pty'].id)) <= HighWater + 1
      <3>1. pty' = b /\ bridge' = bridge BY <2>3 DEF Output, connVars
      <3> QED BY <1>6, <1>9, <2>3, <3>1
    <2>4. CASE UNCHANGED <<pty, paused>> /\ ~Spawn /\ ~\E b \in Slots : Output(b)
      <3>1. bridge'[pty'].id = bridge[pty].id BY <2>0, <2>4, BridgesFrom
      <3>2. Cardinality(OutputsOf(toBrowser, bridge[pty].id)) <= HighWater + 1 BY <1>2, <1>9, <2>4 DEF Buffered
      <3>3. CASE \E b \in Slots : Replays(b) /\ bridge[b].id = bridge[pty].id
        <4>1. Cardinality(OutputsOf(toBrowser', bridge[pty].id)) = 1 BY <1>r, <3>3
        <4> QED BY <1>1, <3>1, <4>1
      <3>4. CASE ~\E b \in Slots : Replays(b) /\ bridge[b].id = bridge[pty].id
        <4>1. Cardinality(OutputsOf(toBrowser', bridge[pty].id)) <= Cardinality(OutputsOf(toBrowser, bridge[pty].id))
          BY <1>5, <2>4, <3>4
        <4> QED BY <1>1, <1>3, <3>1, <3>2, <4>1
      <3> QED BY <3>3, <3>4
    <2> QED BY <1>9, <2>1, <2>2, <2>3, <2>4, PtyMoves
  <1> QED BY <1>2, <1>8, <1>9, <1>n DEF Buffered, BufferBounded, Outputs, OutputsOf

-----------------------------------------------------------------------------
(***************************************************************************)
(* The theorems.                                                           *)
(***************************************************************************)
\* Before anybody has done anything.
LEMMA AttachInit == Init => AttachInv
  <1> SUFFICES ASSUME Init PROVE AttachInv OBVIOUS
  <1>0. Free \in Bridges /\ Free.st = "free" /\ Free.detaching = FALSE /\ Free.id = 0
    BY AttachAssumption DEF Free, Bridges
  <1>1. TypeOK
    <2>1. BrowserOK /\ HandlerOK BY AttachAssumption DEF Init, BrowserOK, HandlerOK
    <2>2. WireOK
      <3>1. toRelay \in Seq(Requests) /\ toBrowser \in Seq(Replies) BY DEF Init
      <3>2. up \in BOOLEAN BY DEF Init
      <3> QED BY <3>1, <3>2 DEF WireOK
    <2>3. ConnOK BY AttachAssumption DEF Init, ConnOK
    <2>4. TmuxOK BY <1>0 DEF Init, TmuxOK
    <2>5. HistOK BY DEF Init, HistOK
    <2> QED BY <2>1, <2>2, <2>3, <2>4, <2>5, TypeParts
  <1>2. OnePty BY <1>0 DEF Init, OnePty
  <1>3. Lifecycle BY DEF Init, Lifecycle, Removers
  <1>4. Clones BY DEF Init, Clones, Removers
  <1>5. Queued BY DEF Init, Queued, Handling
  <1>6. Numbered BY <1>0 DEF Init, Numbered
  <1>7. OfLast /\ Paints /\ Awaited BY DEF Init, OfLast, Paints, Awaited, Wanted
  <1>8. Buffered
    <2>1. pty = None /\ \A i : Outputs(i) = {} BY DEF Init, Outputs
    <2>2. \A i : Cardinality(Outputs(i)) = 0 BY <2>1, FS_EmptySet
    <2> QED BY <2>1, <2>2, AttachAssumption DEF Buffered, BufferBounded
  <1> QED BY <1>1, <1>2, <1>3, <1>4, <1>5, <1>6, <1>7, <1>8 DEF AttachInv

\* Doing nothing keeps it.
LEMMA AttachStutter == AttachInv /\ UNCHANGED vars => AttachInv'
  <1> SUFFICES ASSUME AttachInv, UNCHANGED vars PROVE AttachInv' OBVIOUS
  <1>0. /\ UNCHANGED <<desired, phase, name, handled, sent, up, toRelay, toBrowser>>
        /\ UNCHANGED <<sock, readOnly, at, msg, pty, attachedSession, cloneSession, removal>>
        /\ UNCHANGED <<sessions, clone, bridge, paused, refused, painted, overtaken, missed>>
    BY DEF vars, browserVars, wireVars, connVars, tmuxVars, histVars
  <1>1. TypeOK' BY <1>0 DEF AttachInv, TypeOK
  <1>2. OnePty' /\ Lifecycle' /\ Clones' BY <1>0 DEF AttachInv, OnePty, Lifecycle, Clones
  <1>3. Queued' BY <1>0 DEF AttachInv, Queued, Handling, IsAttach
  <1>4. Numbered' BY <1>0 DEF AttachInv, Numbered, Older, Handling, IsAttach
  <1>5. OfLast' BY <1>0 DEF AttachInv, OfLast, Wanted, Handling, IsAttach
  <1>6. Paints' BY <1>0 DEF AttachInv, Paints, Wanted, PaintsItsOwn, IsAck, OwnOrOvertaken
  <1>7. Awaited'
    BY <1>0 DEF AttachInv, Awaited, Wanted, Awaiting, Acked, IsAck, Asked, InHand, Answered, Served,
                ExitOnTheWay, Handling, IsAttach
  <1>8. Buffered' BY <1>0 DEF AttachInv, Buffered, BufferBounded, Outputs
  <1> QED BY <1>1, <1>2, <1>3, <1>4, <1>5, <1>6, <1>7, <1>8 DEF AttachInv

\* The inductive invariant of the attach: who owns the pty and the clone, how the
\* attach ids are ordered on the way out and back, and where the attach that is
\* waited for is.
THEOREM AttachInvariant == Spec => []AttachInv
  <1>1. Init => AttachInv BY AttachInit
  <1>2. AttachInv /\ [Next]_vars => AttachInv'
    <2>1. ASSUME AttachInv, Next PROVE AttachInv'
      <3>1. TypeOK' /\ OnePty' /\ Lifecycle' /\ Clones'
        BY <2>1, TypeStep, OnePtyStep, LifecycleStep, ClonesStep DEF AttachInv
      <3>2. Queued' BY <2>1, QueueMoves, QueuedStep DEF AttachInv
      <3>3. Numbered' /\ OfLast' BY <2>1, NumberedStep, OfLastStep DEF AttachInv
      <3>4. Paints' /\ Awaited' BY <2>1, PaintsStep, AwaitedStep DEF AttachInv
      <3>5. Buffered' BY <2>1, BufferedStep DEF AttachInv
      <3> QED BY <3>1, <3>2, <3>3, <3>4, <3>5 DEF AttachInv
    <2> QED BY <2>1, AttachStutter
  <1> QED BY <1>1, <1>2, PTL DEF Spec

\* What the relay keeps for a connection is the connection's and ends with it: a
\* pty that is not let go of is the one it knows, a clone is destroyed by it, and
\* its share of the send buffer is bounded (connection-manager.ts,
\* message-router.ts).
THEOREM AttachOwnership == Spec => []ConnectionOwnsAll
  <1>1. AttachInv => ConnectionOwnsAll
    <2> SUFFICES ASSUME AttachInv PROVE ConnectionOwnsAll OBVIOUS
    <2>1. TypeOK /\ BufferBounded BY DEF AttachInv, Buffered
    <2>2. NoStrayPty
      <3> SUFFICES ASSUME NEW b \in Slots, Live(b) PROVE pty = b /\ ~Gone /\ sock # "none"
        BY DEF NoStrayPty
      <3>1. pty = b /\ b # None BY AttachAssumption DEF AttachInv, OnePty, Live
      <3>2. removal["close"] = "no" /\ sock # "none" BY <3>1 DEF AttachInv, Lifecycle
      <3> QED BY <3>1, <3>2 DEF Gone
    <2>3. NoStrayClone BY DEF AttachInv, Clones, NoStrayClone, Gone
    <2> QED BY <2>1, <2>2, <2>3 DEF ConnectionOwnsAll
  <1> QED BY <1>1, AttachInvariant, PTL

\* No output of an attach that was left is painted over the one that is shown,
\* but the replay of a pty whose place was taken before it was ready
\* (attach-state.ts, message-router.ts).
THEOREM AttachPaintsItsOwn == Spec => []PaintsItsOwn
  <1>1. AttachInv => PaintsItsOwn
    BY DEF AttachInv, Paints, Wanted, Lifecycle, PaintsItsOwn, TypeOK
  <1> QED BY <1>1, AttachInvariant, PTL

\* An attach that is still waited for with nothing under way has been refused,
\* never lost (attach-state.ts).
THEOREM AttachNeverWedges == Spec => []NoWedge
  <1>1. AttachInv => NoWedge
    <2> SUFFICES ASSUME AttachInv, Quiet, phase = "attaching" PROVE refused BY DEF NoWedge
    <2>1. up /\ sock = "open" /\ toRelay = <<>> /\ toBrowser = <<>> /\ at = "idle" BY DEF Quiet
    <2>2. Wanted /\ ~Acked /\ ~Asked /\ ~InHand
      BY <2>1 DEF Wanted, Acked, Asked, InHand, Handling
    <2>3. Answered BY <2>1, <2>2 DEF AttachInv, Awaited, Awaiting
    <2>4. refused \/ (Served /\ ~bridge[pty].ready) BY <2>2, <2>3 DEF Answered
    <2>5. ~(Served /\ ~bridge[pty].ready)
      <3> SUFFICES ASSUME Served, ~bridge[pty].ready PROVE FALSE OBVIOUS
      <3>1. pty \in Slots /\ bridge[pty].st # "free"
        BY TypeParts DEF AttachInv, ConnOK, Served, OnePty
      <3>2. bridge[pty].st \in {"free", "live", "dead"} BY <3>1, BridgeIs DEF AttachInv
      <3> QED BY <3>1, <3>2 DEF Quiet
    <2> QED BY <2>4, <2>5
  <1> QED BY <1>1, AttachInvariant, PTL

\* A browser that believes itself attached, with nothing under way, has the pty
\* of that attach behind it (use-websocket.ts, message-router.ts).
THEOREM AttachedHasItsPty == Spec => []AttachedIsReal
  <1>1. AttachInv => AttachedIsReal
    <2> SUFFICES ASSUME AttachInv, Quiet, phase = "attached", ~missed
                 PROVE  pty # None /\ bridge[pty].id = sent /\ attachedSession = name
      BY DEF AttachedIsReal
    <2>1. up /\ sock = "open" /\ toBrowser = <<>> BY DEF Quiet
    <2>2. Wanted /\ ~ExitOnTheWay BY <2>1 DEF Wanted, ExitOnTheWay
    <2>3. Answered BY <2>1, <2>2 DEF AttachInv, Awaited, Awaiting
    <2> QED BY <2>2, <2>3 DEF Answered, Served
  <1> QED BY <1>1, AttachInvariant, PTL
=============================================================================

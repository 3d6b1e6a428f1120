----------------------------- MODULE RelayDoor ------------------------------
(***************************************************************************)
(* How a device gets into the relay, stays in and is put out: the sockets  *)
(* of apps/relay/src/wire-connections.ts and connection-manager.ts, the    *)
(* session tokens of pairing-local.ts, the HTTP requests of server.ts, and *)
(* the connection gate the CLI installs (makeConnectionGate of             *)
(* apps/cli/src/commands/start.ts), which asks a human about a device and  *)
(* remembers the answer for a while.                                       *)
(*                                                                         *)
(* An answer is a promise that several sockets wait on.  What happens in   *)
(* its callbacks runs before the process looks at anything else, so an     *)
(* answer and the admission of everyone who waits for it are one step.     *)
(* Everything with an await between two effects is two steps.  The ends of *)
(* covers are kept as the time that is left; one tick of the clock is      *)
(* PRESENCE_SAMPLE_MS.  A connection that is gone leaves its name to the   *)
(* next.  Which channel a question is answered on, and whether it is ever  *)
(* answered, is the business of the Approvals module: here an answer may   *)
(* come or never come.                                                     *)
(***************************************************************************)
EXTENDS Naturals, FiniteSets

CONSTANTS
    Devices,
    Machine,        \* the key of the machine's own token, which has no device
    Conns, Ips,
    None,
    MaxConns, MaxPerIp,
    MaxHangups,     \* bound: times the panel hangs up one connection
    Grace,          \* ADMIT_GRACE_MS in samples
    RefusalGrace    \* REFUSAL_GRACE_MS in samples

ASSUME DoorAssumption ==
    /\ Machine \notin Devices /\ None \notin Devices \cup Ips \cup {Machine}
    /\ MaxConns \in Nat /\ MaxPerIp \in Nat /\ MaxHangups \in Nat
    /\ Grace \in Nat \ {0} /\ RefusalGrace \in Nat \ {0}

\* A session token without a device has a key of its own, `token:<id>`.  No
\* record, recognition or waiver speaks for it, which is how Machine fares when it
\* is not near: Machine stands for both.
Keys == Devices \cup {Machine}

VARIABLES
    \* sockets and requests
    st,             \* "free", "open", "asking", "strayed", "in", "shut"
    key, ip,        \* who it authenticated as, where it came from
    listed,         \* in the connections map
    authed,         \* conn.authenticated
    hangup,         \* how many disconnectConnection() are tearing it down
    ipCounts,
    \* credentials
    token,          \* "new" before the pairing, "live", "lapsed", "revoked"
    joining,        \* devices whose token is registered and whose pairing goes on
    disk,           \* devices with a pairing record
    known,          \* peerRows: the records as they were last read
    ring,           \* devices whose keys the tunnel agent holds
    leaving,        \* devices the panel is halfway through revoking
    posting,        \* devices `mtmux devices revoke` is halfway through revoking
    \* the gate
    asks,           \* the reconnect policy: ask, or trust
    decided,        \* its record of a key: "none", "standing", "yes", "no"
    cover,          \* how long the record of a key still speaks
    stray,          \* devices whose record was dropped or replaced while their
                    \* question stood: it still stands
    admittedHere,
    \* history
    caught,         \* sockets a revocation could not see
    consent,        \* how much longer a human's yes covers a device
    late            \* those whose yes answered a question from before they were forgotten

sockVars == <<st, key, ip, listed, authed, hangup, ipCounts>>
credVars == <<token, joining, disk, known, ring, leaving, posting>>
gateVars == <<asks, decided, cover, stray, admittedHere>>
vars == <<sockVars, credVars, gateVars, caught, consent, late>>

TypeOK ==
    /\ st \in [Conns -> {"free", "open", "asking", "strayed", "in", "shut"}]
    /\ key \in [Conns -> Keys \cup {None}]
    /\ ip \in [Conns -> Ips \cup {None}]
    /\ listed \subseteq Conns /\ authed \subseteq Conns
    /\ hangup \in [Conns -> Nat]
    /\ ipCounts \in [Ips -> Nat]
    /\ token \in [Devices -> {"new", "live", "lapsed", "revoked"}]
    /\ joining \subseteq Devices /\ disk \subseteq Devices /\ known \subseteq Devices
    /\ ring \subseteq Devices /\ leaving \subseteq Devices /\ posting \subseteq Devices
    /\ asks \in BOOLEAN
    /\ decided \in [Keys -> {"none", "standing", "yes", "no"}]
    /\ cover \in [Keys -> Nat]
    /\ stray \subseteq Devices
    /\ admittedHere \subseteq Devices
    /\ caught \subseteq Conns
    /\ consent \in [Devices -> Nat] /\ late \subseteq Devices

\* A device restored from disk has a token, keys and a record; the others pair
\* later.
Init ==
    /\ st = [c \in Conns |-> "free"]
    /\ key = [c \in Conns |-> None] /\ ip = [c \in Conns |-> None]
    /\ listed = {} /\ authed = {} /\ hangup = [c \in Conns |-> 0]
    /\ ipCounts = [i \in Ips |-> 0]
    /\ disk \in SUBSET Devices /\ known = disk /\ ring = disk
    /\ token = [d \in Devices |-> IF d \in disk THEN "live" ELSE "new"]
    /\ joining = {} /\ leaving = {} /\ posting = {}
    /\ asks \in BOOLEAN
    /\ decided = [k \in Keys |-> "none"]
    /\ cover = [k \in Keys |-> 0]
    /\ stray = {} /\ admittedHere = {}
    /\ caught = {} /\ late = {}
    /\ consent = [d \in Devices |-> 0]

-----------------------------------------------------------------------------
(***************************************************************************)
(* The gate.                                                               *)
(***************************************************************************)

\* connected(): the devices of the authenticated sockets in the map.
Connected == {d \in Devices : token[d] = "live"
                 /\ \E c \in listed \cap authed : key[c] = d}

\* covered(): the record still speaks for this key.
CoversForever(k) == decided[k] # "none"                \* mutant of Covered
Covered(k) ==
    \/ decided[k] = "standing"
    \/ decided[k] = "yes" /\ k \in Connected
    \/ decided[k] # "none" /\ cover[k] > 0

\* The policy is a reconnect policy: it speaks for devices seen before.
AnyoneRecognised(k) == k # Machine                     \* mutant of Recognised
Recognised(k) == k \in known \cup admittedHere

\* What is let in without a question.
Waived(k, near) == (k = Machine /\ near) \/ (Recognised(k) /\ ~asks)

\* What admit() answers, and what becomes of the record: the cover of a device
\* that is here is renewed, and a record that has lapsed is dropped.
Verdict(k, near) ==
    IF Covered(k) THEN decided[k] ELSE IF Waived(k, near) THEN "yes" ELSE "standing"

Present(k) == decided[k] = "yes" /\ k \in Connected

Raises(k, near) == ~Covered(k) /\ ~Waived(k, near)

Admit(k, near) ==
    /\ decided' = [decided EXCEPT ![k] = IF Covered(k) THEN @
                                         ELSE IF Raises(k, near) THEN "standing" ELSE "none"]
    /\ cover' = [cover EXCEPT ![k] = IF Present(k) THEN Grace
                                     ELSE IF Covered(k) THEN @ ELSE 0]
    /\ consent' = [d \in Devices |-> IF d = k /\ d \in Connected /\ consent[d] > 0
                                     THEN Grace ELSE consent[d]]
    /\ UNCHANGED <<asks, stray, admittedHere, late>>

\* approve(): a human has just said yes while pairing.  The record replaces any
\* other; a question that stood goes on standing beside it.  Bound: one such
\* question per device.
Approve(d) ==
    LET standing == {e \in {d} : decided[e] = "standing"} IN
    /\ standing \cap stray = {}
    /\ decided' = [decided EXCEPT ![d] = "yes"]
    /\ cover' = [cover EXCEPT ![d] = Grace]
    /\ stray' = stray \cup standing
    /\ admittedHere' = admittedHere \cup {d}
    /\ consent' = [consent EXCEPT ![d] = Grace] /\ late' = late \ {d}
    /\ UNCHANGED asks

\* forget(): everything the gate decided about the devices in D.  A question
\* that stands goes on standing, and whoever waits for it goes on waiting (the
\* same bound).
ForgetsAdmission(D) ==                                 \* mutant of Forget
    /\ admittedHere' = admittedHere \ D
    /\ consent' = [d \in Devices |-> IF d \in D THEN 0 ELSE consent[d]]
    /\ late' = late \ D
    /\ UNCHANGED <<asks, decided, cover, stray>>
Forget(D) ==
    LET standing == {d \in D : decided[d] = "standing"} IN
    /\ standing \cap stray = {}
    /\ admittedHere' = admittedHere \ D
    /\ decided' = [k \in Keys |-> IF k \in D THEN "none" ELSE decided[k]]
    /\ cover' = [k \in Keys |-> IF k \in D THEN 0 ELSE cover[k]]
    /\ stray' = stray \cup standing
    /\ consent' = [d \in Devices |-> IF d \in D THEN 0 ELSE consent[d]]
    /\ late' = late \ D
    /\ UNCHANGED asks

\* Whoever waits for a question of D waits for a stray one from now on.
ToStray(D) ==
    st' = [c \in Conns |-> IF st[c] = "asking" /\ key[c] \in D THEN "strayed" ELSE st[c]]

-----------------------------------------------------------------------------
(***************************************************************************)
(* Sockets.                                                                *)
(***************************************************************************)
HasRoom(i) == Cardinality(listed) < MaxConns /\ ipCounts[i] < MaxPerIp

Connect(c, i) ==
    /\ st[c] = "free" /\ hangup[c] = 0
    /\ HasRoom(i)
    /\ st' = [st EXCEPT ![c] = "open"]
    /\ ip' = [ip EXCEPT ![c] = i]
    /\ listed' = listed \cup {c}
    /\ ipCounts' = [ipCounts EXCEPT ![i] = @ + 1]
    /\ UNCHANGED <<key, authed, hangup, credVars, gateVars, caught, consent, late>>

\* The state of a socket once admission has answered v.
After(v) == CASE v = "standing" -> "asking" [] v = "yes" -> "in" [] v = "no" -> "shut"

HasToken(k) == k \in {Machine} \cup {d \in Devices : token[d] = "live"}

\* The first message holds a good token: the gate is asked.  The tokenId is
\* written on the connection only once it is admitted.
Authenticate(c, k, near) ==
    LET v == Verdict(k, near) IN
    /\ st[c] = "open"
    /\ HasToken(k)
    /\ Admit(k, near)
    /\ st' = [st EXCEPT ![c] = After(v)]
    /\ key' = [key EXCEPT ![c] = k]
    /\ authed' = IF v = "yes" THEN authed \cup {c} ELSE authed
    /\ UNCHANGED <<ip, listed, hangup, ipCounts, credVars, caught>>

\* No auth message in time, something else first or a bad token; the idle
\* reaper, the heartbeat or the shutdown; or the other side goes away.  A
\* socket that closes while a human is being asked about it is not let in.
Shuts(c) ==
    /\ c \in listed /\ st[c] \in {"open", "asking", "strayed", "in"}
    /\ st' = [st EXCEPT ![c] = "shut"]
    /\ UNCHANGED <<key, ip, listed, authed, hangup, ipCounts,
                   credVars, gateVars, caught, consent, late>>

\* Something that is not a socket asks the same gate.  If it is not answered at
\* once it waits like a socket does.
Knock(c, k, near) ==
    /\ st[c] = "free" /\ hangup[c] = 0
    /\ Admit(k, near)
    /\ st' = [st EXCEPT ![c] = IF Verdict(k, near) = "standing" THEN "asking" ELSE "free"]
    /\ key' = [key EXCEPT ![c] = IF Verdict(k, near) = "standing" THEN k ELSE None]
    /\ UNCHANGED <<ip, listed, authed, hangup, ipCounts, credVars, caught>>

\* GET /file or /recording, with a token.
HttpRequest(c, k, near) == HasToken(k) /\ Knock(c, k, near)

\* admitStream(): a sealed stream has been bound to a device by its keys.  What it
\* carries comes to the relay as a connection of its own.
StreamRequest(c, d) == d \in ring /\ Knock(c, d, FALSE)

\* Everyone in W resumes with the answer v: a socket is let in or told no, a
\* request is served or refused and is over.
WakesOne(W, v) ==                                      \* mutant of Resume
    LET woken == {c \in W : \A b \in W \ listed : b = c} IN
    /\ st' = [c \in Conns |-> IF c \notin woken THEN st[c]
                              ELSE IF c \in listed THEN After(v) ELSE "free"]
    /\ key' = [c \in Conns |-> IF c \in woken \ listed THEN None ELSE key[c]]
    /\ authed' = IF v = "yes" THEN authed \cup (woken \cap listed) ELSE authed
Resume(W, v) ==
    /\ st' = [c \in Conns |-> IF c \notin W THEN st[c]
                              ELSE IF c \in listed THEN After(v) ELSE "free"]
    /\ key' = [c \in Conns |-> IF c \in W \ listed THEN None ELSE key[c]]
    /\ authed' = IF v = "yes" THEN authed \cup (W \cap listed) ELSE authed

Waiting(k) == {c \in Conns : st[c] = "asking" /\ key[c] = k}
WaitingStray(d) == {c \in Conns : st[c] = "strayed" /\ key[c] = d}

Lasts(v) == IF v = "yes" THEN Grace ELSE RefusalGrace

\* A human answers, or the question runs out of time and is refused.  It may also
\* be lost and stand for ever.
Answer(k, v) ==
    /\ decided[k] = "standing"
    /\ decided' = [decided EXCEPT ![k] = v]
    /\ cover' = [cover EXCEPT ![k] = Lasts(v)]
    /\ admittedHere' = IF v = "yes" THEN admittedHere \cup ({k} \cap Devices)
                                    ELSE admittedHere
    /\ Resume(Waiting(k), v)
    /\ consent' = [d \in Devices |-> IF d # k THEN consent[d]
                                     ELSE IF v = "yes" THEN Grace ELSE 0]
    /\ late' = late \ {k}
    /\ UNCHANGED <<ip, listed, hangup, ipCounts, credVars, asks, stray, caught>>

\* The same for a question about a device that has been forgotten or approved
\* meanwhile: its record is no longer in the map, but the device is admitted and
\* noted as such.
AnswerStray(d, v) ==
    /\ d \in stray
    /\ stray' = stray \ {d}
    /\ admittedHere' = IF v = "yes" THEN admittedHere \cup {d} ELSE admittedHere
    /\ Resume(WaitingStray(d), v)
    /\ consent' = [consent EXCEPT ![d] = IF v = "yes" THEN Grace ELSE @]
    /\ late' = IF v = "yes" THEN late \cup {d} ELSE late
    /\ UNCHANGED <<ip, listed, hangup, ipCounts, credVars, asks, decided, cover, caught>>

\* The end of removeConnection(): the address gets its place back.
KeepsPlace(c) == ipCounts                              \* mutant of PlaceBack
PlaceBack(c) == [ipCounts EXCEPT ![ip[c]] = IF @ <= 1 THEN 0 ELSE @ - 1]

\* After the close event the queue is drained and the connection removed.  A
\* name whose tear-down is over may be used again.
Removed(c) ==
    /\ st[c] = "shut"
    /\ st' = [st EXCEPT ![c] = "free"]
    /\ listed' = listed \ {c} /\ ipCounts' = PlaceBack(c)
    /\ key' = [key EXCEPT ![c] = None]
    /\ ip' = [ip EXCEPT ![c] = IF hangup[c] > 0 THEN @ ELSE None]
    /\ authed' = authed \ {c} /\ caught' = caught \ {c}
    /\ UNCHANGED <<hangup, credVars, gateVars, consent, late>>

\* disconnectConnection(): the panel hangs up, once or again, and removes the
\* connection itself; the close event of the socket removes it again.
StartHangup(c) ==
    /\ c \in listed \cap authed /\ hangup[c] < MaxHangups
    /\ hangup' = [hangup EXCEPT ![c] = @ + 1]

Disconnect(c) ==
    /\ StartHangup(c)
    /\ st' = [st EXCEPT ![c] = "shut"]
    /\ UNCHANGED <<key, ip, listed, authed, ipCounts, credVars, gateVars, caught, consent, late>>

HangupDone(c) ==
    /\ hangup[c] > 0
    /\ hangup' = [hangup EXCEPT ![c] = @ - 1]
    /\ listed' = listed \ {c} /\ ipCounts' = PlaceBack(c)
    /\ ip' = [ip EXCEPT ![c] = IF st[c] = "free" /\ hangup[c] = 1 THEN None ELSE @]
    /\ UNCHANGED <<st, key, authed, credVars, gateVars, caught, consent, late>>

-----------------------------------------------------------------------------
(***************************************************************************)
(* Devices come and go.                                                    *)
(***************************************************************************)

\* A device pairs on the local network: a human says yes, the gate is told and the
\* device gets a token, but no record.
PairLocally(d) ==
    /\ token[d] = "new"
    /\ token' = [token EXCEPT ![d] = "live"]
    /\ Approve(d)
    /\ ToStray({d})
    /\ UNCHANGED <<key, ip, listed, authed, hangup, ipCounts, joining, disk, known, ring,
                   leaving, posting, caught>>

\* A device pairs by code or by request: its token is registered with the relay.
\* The device may present it before the pairing goes on.
Register(d) ==
    /\ token[d] = "new"
    /\ token' = [token EXCEPT ![d] = "live"]
    /\ joining' = joining \cup {d}
    /\ UNCHANGED <<sockVars, disk, known, ring, leaving, posting, gateVars,
                   caught, consent, late>>

\* Then the agent gets its keys, the gate is told, and its record is written.
Paired(d) ==
    /\ d \in joining
    /\ joining' = joining \ {d}
    /\ ring' = ring \cup {d} /\ disk' = disk \cup {d}
    /\ Approve(d)
    /\ ToStray({d})
    /\ UNCHANGED <<key, ip, listed, authed, hangup, ipCounts, token, known, leaving,
                   posting, caught>>

\* refreshPeers(): the list the gate looks a device up in is read again.
RefreshPeers ==
    /\ known' = disk
    /\ UNCHANGED <<sockVars, token, joining, disk, ring, leaving, posting, gateVars,
                   caught, consent, late>>

\* A token nobody has presented for its whole window is dropped in silence.
Expire(d) ==
    /\ token[d] = "live"
    /\ token' = [token EXCEPT ![d] = "lapsed"]
    /\ UNCHANGED <<sockVars, joining, disk, known, ring, leaving, posting, gateVars,
                   caught, consent, late>>

\* revokeSessionToken() and closeRevokedConnections(): the sockets that carry
\* the token are closed.  A token that has lapsed is no longer held, and nothing
\* happens.
SweepNobody(d) == {}                                   \* mutant of Swept
Swept(d) == {c \in listed \cap authed : token[d] = "live" /\ key[c] = d}
RevokeToken(d) ==
    /\ token' = [token EXCEPT ![d] = IF @ = "live" THEN "revoked" ELSE @]
    /\ st' = [c \in Conns |-> IF c \in Swept(d) THEN "shut" ELSE st[c]]
    /\ caught' = caught \cup {c \in listed : key[c] = d
                      /\ token[d] = "live" /\ st[c] \in {"asking", "strayed"}}
    /\ UNCHANGED <<key, ip, listed, authed, hangup, ipCounts, joining, known, gateVars,
                   consent, late>>

\* `mtmux devices revoke`, in another process, removes the record first.
ShellRemoves(d) ==
    /\ d \in disk
    /\ disk' = disk \ {d} /\ posting' = posting \cup {d}
    /\ UNCHANGED <<sockVars, token, joining, known, ring, leaving, gateVars,
                   caught, consent, late>>

\* Then it tells the running server, which revokes the token; the agent keeps its
\* keys and the gate is not told.
ShellPosts(d) ==
    /\ d \in posting
    /\ posting' = posting \ {d}
    /\ RevokeToken(d)
    /\ UNCHANGED <<disk, ring, leaving>>

\* Or it does not: the server is not found or does not answer in time, or the
\* command is interrupted.  The token and the sockets stay as they are.
ShellGivesUp(d) ==
    /\ d \in posting
    /\ posting' = posting \ {d}
    /\ UNCHANGED <<sockVars, token, joining, disk, known, ring, leaving, gateVars,
                   caught, consent, late>>

\* The panel revokes the token and takes the keys, then waits for the record to be
\* removed, then tells the gate.
RevokeFromPanel(d) ==
    /\ d \in disk \ leaving
    /\ RevokeToken(d)
    /\ ring' = ring \ {d}
    /\ leaving' = leaving \cup {d}
    /\ UNCHANGED <<disk, posting>>

PanelForgets(d) ==
    /\ d \in leaving
    /\ leaving' = leaving \ {d}
    /\ disk' = disk \ {d}
    /\ Forget({d})
    /\ ToStray({d})
    /\ UNCHANGED <<key, ip, listed, authed, hangup, ipCounts, token, joining, known, ring,
                   posting, caught>>

\* removeAll() reaches a connected socket: its device is forgotten, then it is
\* hung up.
RemoveAllReaches(c) ==
    LET D == {key[c]} \cap Connected IN
    /\ StartHangup(c)
    /\ Forget(D)
    /\ st' = [b \in Conns |-> IF b = c THEN "shut"
                              ELSE IF st[b] = "asking" /\ key[b] \in D THEN "strayed"
                              ELSE st[b]]
    /\ UNCHANGED <<key, ip, listed, authed, ipCounts, credVars, caught>>

\* The panel's switch.
FlipPolicy ==
    /\ asks' = ~asks
    /\ UNCHANGED <<sockVars, credVars, decided, cover, stray, admittedHere,
                   caught, consent, late>>

\* Time passes and presence is sampled: the cover of a device that is here is
\* renewed.
Sampled(k) == Present(k)
Less(n) == IF n = 0 THEN 0 ELSE n - 1
Tick ==
    /\ cover' = [k \in Keys |-> IF Sampled(k) THEN Grace ELSE Less(cover[k])]
    /\ consent' = [d \in Devices |-> IF consent[d] > 0 /\ d \in Connected THEN Grace
                                     ELSE Less(consent[d])]
    /\ late' = {d \in late : consent'[d] > 0}
    /\ UNCHANGED <<sockVars, credVars, asks, decided, stray, admittedHere, caught>>

Arrives(c) ==
    \/ \E i \in Ips : Connect(c, i)
    \/ \E d \in Devices : \/ Authenticate(c, d, FALSE)
                          \/ HttpRequest(c, d, FALSE) \/ StreamRequest(c, d)
    \/ \E near \in BOOLEAN : Authenticate(c, Machine, near) \/ HttpRequest(c, Machine, near)

Leaves(c) ==
    \/ Shuts(c) \/ Removed(c)
    \/ Disconnect(c) \/ HangupDone(c) \/ RemoveAllReaches(c)

DeviceStep(d) ==
    \/ PairLocally(d) \/ Register(d) \/ Paired(d) \/ Expire(d)
    \/ ShellRemoves(d) \/ ShellPosts(d) \/ ShellGivesUp(d)
    \/ RevokeFromPanel(d) \/ PanelForgets(d)

Settles(k) == Answer(k, "yes") \/ Answer(k, "no")
SettlesStray(d) == AnswerStray(d, "yes") \/ AnswerStray(d, "no")

Next ==
    \/ \E c \in Conns : Arrives(c) \/ Leaves(c)
    \/ \E d \in Devices : DeviceStep(d) \/ SettlesStray(d)
    \/ \E k \in Keys : Settles(k)
    \/ RefreshPeers
    \/ FlipPolicy
    \/ Tick

Spec == Init /\ [][Next]_vars

-----------------------------------------------------------------------------
(***************************************************************************)
(* Properties.                                                             *)
(***************************************************************************)

\* "An approval covers a device for as long as it stays connected, and for two
\* minutes after the last of its sockets closes" (start.ts:1346-1351), and
\* `trust` is a statement about devices seen before (start.ts:1566-1586): a
\* device gets in only when a human says yes to a question it waits for, while
\* an earlier yes covers it, or when the policy trusts a device this machine
\* knows, by its list as it was last read.
GetsIn(c) == st[c] # "in" /\ st'[c] = "in"
EntryIsCovered ==
    [][\A c \in Conns : GetsIn(c) /\ key'[c] \in Devices =>
          LET d == key'[c] IN
          \/ st[c] = "asking" /\ decided[d] = "standing" /\ decided'[d] = "yes"
          \/ st[c] = "strayed" /\ d \in stray \ stray'
          \/ consent[d] > 0
          \/ ~asks /\ d \in known \cup admittedHere]_vars

\* The other half of the promise: while the cover of a device that was let in
\* lasts, nobody is asked about it again, whatever tabs, races and reconnects
\* it opens (start.ts:1339-1347, 1425-1427).  A yes to a question that was raised
\* before the device was forgotten covers nothing.
NotAskedAgain ==
    [][\A d \in Devices : decided[d] # "standing" /\ decided'[d] = "standing" =>
          consent[d] = 0 \/ d \in late]_vars

\* A human is asked exactly when the door needs it: no device gets in uncovered
\* and none that is covered is asked about again (start.ts:1339-1347, 1425-1427).
AsksWhenItMust == EntryIsCovered /\ NotAskedAgain

\* "Revocation that does not disconnect is not revocation" (pairing-local.ts:174):
\* a revoked device is in only through a socket the sweep could not see, one
\* a human was still being asked about.
RevokedHangsUp ==
    \A c \in Conns : st[c] = "in" /\ key[c] \in Devices /\ token[key[c]] = "revoked"
        => c \in caught

\* The same sentence taken at its word.  This does not hold.
RevokedIsOut ==
    \A c \in Conns : st[c] = "in" /\ key[c] \in Devices => token[key[c]] # "revoked"

\* Every way a connection ends gives its address the place back
\* (connection-manager.ts:214-219): a place that is held is held by a connection
\* that is still there, so nobody is locked out by connections that are gone.
PlacesReturn ==
    \A i \in Ips : ipCounts[i] <= Cardinality({c \in listed : ip[c] = i})

\* The counts the caps are tested against are well formed and never exceed the
\* connections that are there (connection-manager.ts:214-219).
SeatsAccounted == TypeOK /\ PlacesReturn

\* "Enforce global and per-IP concurrent-connection caps before doing any
\* per-connection setup" (wire-connections.ts:117-118).  This does not hold with
\* MaxPerIp = 1: a place may be given back twice.
PerIpCap ==
    \A i \in Ips : Cardinality({c \in listed : ip[c] = i}) <= MaxPerIp

\* "so every other socket that arrives meanwhile waits on this one answer"
\* (start.ts:1681-1683): whoever waits at the gate waits for a question that still
\* stands, so an answer, when one comes, wakes everyone it is for, whatever was
\* forgotten, approved or asked again meanwhile.
WaitersHear ==
    \A c \in Conns : /\ st[c] = "asking" => decided[key[c]] = "standing"
                     /\ st[c] = "strayed" => key[c] \in stray

\* "A browser with an already-open socket keeps it until the server restarts;
\* `mtmux devices revoke` says so" (docs/pairing.mdx:410-411): the command shuts no
\* socket.  This does not hold: the server it tells sweeps them.
RevokeSparesLive ==
    [][\A d \in posting \ posting', c \in Conns :
          st[c] = "in" /\ key[c] = d => st'[c] = "in"]_vars
=============================================================================

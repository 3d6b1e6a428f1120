---------------------------- MODULE SealedStream ----------------------------
(***************************************************************************)
(* One browser's stream through the sealed tunnel, end to end: the         *)
(* browser's SealedTransport (apps/web/src/lib/transport.ts), the broker   *)
(* in between, the stream half of the tunnel agent                         *)
(* (apps/cli/src/tunnel-agent.ts) with its keyring, and the loopback       *)
(* socket to the relay.  Both ends use packages/crypto/src/frames.ts.      *)
(*                                                                         *)
(* Lines are numbered in the order they were written.  A frame carries its *)
(* counter n and the line in it; whether it authenticates is decided by    *)
(* the key, by n and by what the opener has seen.  Every await is a step   *)
(* boundary: sealing in the browser, each trial decryption of the agent,   *)
(* the human's answer at the gate.  An await that nothing can observe      *)
(* (opening a frame on a bound stream, inside a promise chain) is not: the *)
(* frames the browser has read and not opened yet count as on their way.   *)
(***************************************************************************)
EXTENDS Naturals, Sequences, SequencesExt

CONSTANTS
    Keys,         \* pairings the agent may know
    Owner,        \* the device each pairing belongs to
    None,
    MaxKeyring,   \* MAX_KEYRING
    MaxLines,     \* bound: lines written at either end
    MaxFaults     \* bound: frames the broker loses, repeats or reorders

ASSUME SealedStreamAssumption ==
    /\ None \notin Keys
    /\ DOMAIN Owner = Keys
    /\ MaxKeyring \in Nat \ {0}
    /\ MaxLines \in Nat
    /\ MaxFaults \in Nat

VARIABLES
    \* the browser
    key,         \* the pairing it seals under; None for one the agent never knew
    streamId,    \* it knows its stream id
    detached,
    queued,      \* lines written before that
    outbound,    \* the chain of lines to seal
    sealing,     \* frames whose seal() has not resolved
    sealed,      \* its sealer's counter
    seen,        \* 1 + its opener's highest counter, 0 before it is bound
    wrote, got,  \* history: lines written, lines received
    \* the broker
    toAgent, toBrowser,   \* messages in flight
    faults,
    \* the agent
    keyring,
    stream,      \* "none", "open", "closed"
    bound,       \* the keyring entry the stream is bound to: opener, sealer, peer
    highest,     \* its opener's highest counter
    replied,     \* its sealer's counter
    chain,       \* stream.chain: the tasks not finished, first one running
    pc,          \* where the first task is: "idle", "trial", "admit", "flush"
    at, trying,  \* the keyring position and entry a trial awaits
    toLocal, toBroker, held,
    local,       \* the loopback socket is open
    why,         \* why the stream ended at the agent
    bwhy,        \* why it ended at the browser
    said, relay, \* history: lines the relay wrote, lines it received
    admitted,    \* history: the gate said yes
    forgotten,   \* history: pairings removed by removeSessionKeys
    racing       \* history: pairings whose trial was awaited when forgotten

browserVars == <<key, streamId, detached, queued, outbound, sealing, sealed,
                 seen, wrote, got, bwhy>>
wireVars  == <<toAgent, toBrowser, faults>>
keyVars   == <<keyring, forgotten, racing>>
pipeVars  == <<bound, highest, replied, chain, pc, at, trying,
               toLocal, toBroker, held, admitted, relay>>
localVars == <<local, said>>
vars == <<browserVars, wireVars, keyVars, pipeVars, localVars, stream, why>>

Open == [type |-> "open"]
Close == [type |-> "close"]
Frame(n, line) == [type |-> "frame", n |-> n, line |-> line]
Line(m) == [type |-> "line", line |-> m]
Frames == [type : {"frame"}, n : Nat, line : Nat]

TypeOK ==
    /\ key \in Keys \cup {None}
    /\ streamId \in BOOLEAN /\ detached \in BOOLEAN
    /\ queued \in Seq(Nat) /\ outbound \in Seq(Nat)
    /\ sealing \subseteq Frames
    /\ sealed \in Nat /\ seen \in Nat
    /\ wrote \in 0 .. MaxLines /\ got \in Seq(Nat)
    /\ toAgent \in Seq({Open, Close} \cup Frames)
    /\ toBrowser \in Seq({Open, Close} \cup Frames)
    /\ faults \in 0 .. MaxFaults
    /\ keyring \in Seq(Keys) /\ Len(keyring) <= MaxKeyring
    /\ stream \in {"none", "open", "closed"}
    /\ bound \in Keys \cup {None}
    /\ highest \in Nat /\ replied \in Nat
    /\ chain \in Seq(Frames \cup [type : {"line"}, line : Nat])
    /\ pc \in {"idle", "trial", "admit", "flush"}
    /\ at \in 0 .. MaxKeyring /\ trying \in Keys \cup {None}
    /\ toLocal \in Seq(Nat) /\ toBroker \in Seq(Nat) /\ held \in Seq(Nat)
    /\ local \in BOOLEAN
    /\ said \in 0 .. MaxLines /\ relay \in Seq(Nat)
    /\ admitted \in BOOLEAN
    /\ forgotten \subseteq Keys /\ racing \subseteq Keys
    /\ why \in {"none", "auth", "unmatched", "refused", "revoked", "local", "remote"}
    /\ bwhy \in {"none", "auth", "remote", "left"}

\* The browser has just asked the broker for a stream and the agent's keyring
\* holds what was restored from disk.
Init ==
    /\ key \in Keys \cup {None}
    /\ streamId = FALSE /\ detached = FALSE
    /\ queued = <<>> /\ outbound = <<>> /\ sealing = {} /\ sealed = 0 /\ seen = 0
    /\ wrote = 0 /\ got = <<>>
    /\ toAgent = <<Open>> /\ toBrowser = <<Open>> /\ faults = 0
    /\ \E n \in 0 .. MaxKeyring : keyring \in [1 .. n -> Keys]
    /\ IsInjective(keyring)
    /\ stream = "none" /\ bound = None /\ highest = 0 /\ replied = 0
    /\ chain = <<>> /\ pc = "idle" /\ at = 0 /\ trying = None
    /\ toLocal = <<>> /\ toBroker = <<>> /\ held = <<>> /\ local = FALSE
    /\ why = "none" /\ bwhy = "none"
    /\ said = 0 /\ relay = <<>> /\ admitted = FALSE
    /\ forgotten = {} /\ racing = {}

-----------------------------------------------------------------------------
(***************************************************************************)
(* The browser: SealedTransport.                                           *)
(***************************************************************************)
Send ==
    /\ wrote < MaxLines /\ ~detached
    /\ wrote' = wrote + 1
    /\ IF streamId THEN outbound' = Append(outbound, wrote + 1) /\ UNCHANGED queued
                   ELSE queued' = Append(queued, wrote + 1) /\ UNCHANGED outbound
    /\ UNCHANGED <<key, streamId, detached, sealing, sealed, seen, got, bwhy,
                   wireVars, keyVars, pipeVars, localVars, stream, why>>

\* The chain of promises: one seal() at a time.
MaySealAny == TRUE                                      \* mutant of MaySeal
MaySeal == sealing = {}

StartSeal ==
    /\ outbound # <<>> /\ MaySeal
    /\ sealing' = sealing \cup {Frame(sealed, Head(outbound))}
    /\ sealed' = sealed + 1
    /\ outbound' = Tail(outbound)
    /\ UNCHANGED <<key, streamId, detached, queued, seen, wrote, got, bwhy,
                   wireVars, keyVars, pipeVars, localVars, stream, why>>

FinishSeal(f) ==
    /\ f \in sealing
    /\ sealing' = sealing \ {f}
    /\ toAgent' = IF detached THEN toAgent ELSE Append(toAgent, f)
    /\ UNCHANGED <<key, streamId, detached, queued, outbound, sealed, seen, wrote,
                   got, bwhy, toBrowser, faults, keyVars, pipeVars, localVars, stream, why>>

\* stream:open: what was queued is sent now.
Flushed == outbound \o queued

BrowserStreamOpen ==
    /\ toBrowser # <<>> /\ Head(toBrowser) = Open /\ ~detached
    /\ streamId' = TRUE
    /\ outbound' = Flushed /\ queued' = <<>>
    /\ toBrowser' = Tail(toBrowser)
    /\ UNCHANGED <<key, detached, sealing, sealed, seen, wrote, got, bwhy,
                   toAgent, faults, keyVars, pipeVars, localVars, stream, why>>

\* The browser's end closes; the broker tells the agent.
Detach(cause) ==
    /\ detached' = TRUE /\ streamId' = FALSE
    /\ bwhy' = cause
    /\ toAgent' = Append(toAgent, Close)

\* stream:close is handled at once: it overtakes the frames that wait to be
\* opened, and they are never delivered.
BrowserStreamClose ==
    /\ ~detached
    /\ \E i \in DOMAIN toBrowser :
         /\ toBrowser[i] = Close
         /\ \A j \in 1 .. i - 1 : toBrowser[j].type = "frame"
    /\ Detach("remote")
    /\ UNCHANGED <<key, queued, outbound, sealing, sealed, seen, wrote, got,
                   toBrowser, faults, keyVars, pipeVars, localVars, stream, why>>

BrowserLeaves ==
    /\ ~detached
    /\ Detach("left")
    /\ UNCHANGED <<key, queued, outbound, sealing, sealed, seen, wrote, got,
                   toBrowser, faults, keyVars, pipeVars, localVars, stream, why>>

\* open() accepts a counter above every one it accepted before, bind() only 0.
\* `from` is 1 + the highest accepted, 0 for an unbound opener.
AcceptsRepeats(from, n) == IF from = 0 THEN n = 0 ELSE n + 1 >= from  \* mutant
Accepts(from, n) == IF from = 0 THEN n = 0 ELSE n >= from

\* handleFrame(): an agent's frame is sealed under the pairing it bound, so only
\* the counter can be wrong here.
BrowserFrame ==
    /\ toBrowser # <<>> /\ Head(toBrowser).type = "frame" /\ ~detached
    /\ LET f == Head(toBrowser) IN
       \/ /\ Accepts(seen, f.n)
          /\ seen' = f.n + 1
          /\ got' = Append(got, f.line)
          /\ UNCHANGED <<detached, streamId, bwhy, toAgent>>
       \/ /\ ~Accepts(seen, f.n)
          /\ Detach("auth")
          /\ UNCHANGED <<seen, got>>
    /\ toBrowser' = Tail(toBrowser)
    /\ UNCHANGED <<key, queued, outbound, sealing, sealed, wrote, faults,
                   keyVars, pipeVars, localVars, stream, why>>

-----------------------------------------------------------------------------
(***************************************************************************)
(* The broker forwards in order.  A faulty one loses a frame, or sends one *)
(* again or out of order.                                                  *)
(***************************************************************************)
SwapLast(q) == IF Len(q) < 2 THEN q
               ELSE [q EXCEPT ![Len(q)] = q[Len(q) - 1], ![Len(q) - 1] = q[Len(q)]]

Mishandled(q) ==
    LET f == Last(q) IN {Front(q), Append(q, f), SwapLast(q)} \ {q}

BrokerFault ==
    /\ faults < MaxFaults
    /\ faults' = faults + 1
    /\ \/ /\ toAgent # <<>> /\ \A i \in DOMAIN toAgent : toAgent[i].type = "frame"
          /\ toAgent' \in Mishandled(toAgent)
          /\ UNCHANGED toBrowser
       \/ /\ toBrowser # <<>> /\ \A i \in DOMAIN toBrowser : toBrowser[i].type = "frame"
          /\ toBrowser' \in Mishandled(toBrowser)
          /\ UNCHANGED toAgent
    /\ UNCHANGED <<browserVars, keyVars, pipeVars, localVars, stream, why>>

-----------------------------------------------------------------------------
(***************************************************************************)
(* The agent: messages from the broker and the loopback socket.            *)
(***************************************************************************)
\* dropStream(): the first reason stands; the broker tells the browser.
DropStream(cause, tell) ==
    /\ stream' = "closed"
    /\ why' = IF stream = "open" THEN cause ELSE why
    /\ toBrowser' = IF tell /\ stream = "open" THEN Append(toBrowser, Close)
                                               ELSE toBrowser

AgentStreamOpen ==
    /\ toAgent # <<>> /\ Head(toAgent) = Open
    /\ stream = "none"
    /\ stream' = "open"
    /\ toAgent' = Tail(toAgent)
    /\ UNCHANGED <<browserVars, toBrowser, faults, keyVars, pipeVars, localVars, why>>

AgentStreamFrame ==
    /\ toAgent # <<>> /\ Head(toAgent).type = "frame"
    /\ toAgent' = Tail(toAgent)
    /\ chain' = IF stream = "open" THEN Append(chain, Head(toAgent)) ELSE chain
    /\ UNCHANGED <<browserVars, toBrowser, faults, keyVars, bound, highest, replied,
                   pc, at, trying, toLocal, toBroker, held, admitted, relay,
                   localVars, stream, why>>

AgentStreamClose ==
    /\ toAgent # <<>> /\ Head(toAgent) = Close
    /\ toAgent' = Tail(toAgent)
    /\ DropStream("remote", FALSE)
    /\ UNCHANGED <<browserVars, faults, keyVars, pipeVars, localVars>>

\* teardownStreams(): the agent's own connection went, or it was stopped; the
\* broker tells the browser.
TeardownStreams ==
    /\ stream = "open"
    /\ DropStream("remote", TRUE)
    /\ UNCHANGED <<browserVars, toAgent, faults, keyVars, pipeVars, localVars>>

KeepsHeld == relay                                      \* mutant of LocalFlush
LocalFlush == relay \o toLocal

LocalOpens ==
    /\ stream = "open" /\ ~local
    /\ local' = TRUE
    /\ relay' = LocalFlush /\ toLocal' = <<>>
    /\ UNCHANGED <<browserVars, wireVars, keyVars, bound, highest, replied, chain,
                   pc, at, trying, toBroker, held, admitted, said, stream, why>>

RelaySpeaks ==
    /\ stream = "open" /\ local /\ said < MaxLines
    /\ said' = said + 1
    /\ chain' = Append(chain, Line(said + 1))
    /\ UNCHANGED <<browserVars, wireVars, keyVars, bound, highest, replied, pc, at,
                   trying, toLocal, toBroker, held, admitted, relay, local, stream, why>>

LocalCloses ==
    /\ stream = "open"
    /\ DropStream("local", TRUE)
    /\ UNCHANGED <<browserVars, toAgent, faults, keyVars, pipeVars, localVars>>

-----------------------------------------------------------------------------
(***************************************************************************)
(* The agent: the promise chain of the stream.                             *)
(***************************************************************************)
\* writeLocal()
WriteLocal(line) ==
    IF local THEN relay' = Append(relay, line) /\ UNCHANGED toLocal
             ELSE toLocal' = Append(toLocal, line) /\ UNCHANGED relay

\* A relay line: held while no key is known, else sealed and sent.
SealToBroker ==
    /\ pc = "idle" /\ chain # <<>> /\ Head(chain).type = "line"
    /\ chain' = Tail(chain)
    /\ IF bound = None
       THEN /\ toBroker' = Append(toBroker, Head(chain).line)
            /\ UNCHANGED <<replied, toBrowser>>
       ELSE /\ replied' = replied + 1
            /\ toBrowser' = IF stream = "closed" THEN toBrowser
                            ELSE Append(toBrowser, Frame(replied, Head(chain).line))
            /\ UNCHANGED toBroker
    /\ UNCHANGED <<browserVars, toAgent, faults, keyVars, bound, highest, pc, at,
                   trying, toLocal, held, admitted, relay, localVars, stream, why>>

\* A browser frame on a bound stream.
OpenFromBroker ==
    /\ pc = "idle" /\ chain # <<>> /\ Head(chain).type = "frame" /\ bound # None
    /\ chain' = Tail(chain)
    /\ LET f == Head(chain) IN
       \/ /\ Accepts(highest + 1, f.n)
          /\ highest' = f.n
          /\ IF stream = "closed" THEN UNCHANGED <<relay, toLocal>> ELSE WriteLocal(f.line)
          /\ UNCHANGED <<stream, why, toBrowser>>
       \/ /\ ~Accepts(highest + 1, f.n)
          /\ DropStream("auth", TRUE)
          /\ UNCHANGED <<highest, relay, toLocal>>
    /\ UNCHANGED <<browserVars, toAgent, faults, keyVars, bound, replied, pc, at,
                   trying, toBroker, held, admitted, localVars>>

\* The for loop over the live keyring array: entry i, or the end of it.
Try(i) ==
    IF i <= Len(keyring)
    THEN /\ pc' = "trial" /\ at' = i /\ trying' = keyring[i]
         /\ UNCHANGED <<chain, stream, why, toBrowser>>
    ELSE /\ pc' = "idle" /\ at' = 0 /\ trying' = None
         /\ chain' = Tail(chain)
         /\ DropStream("unmatched", TRUE)

StartTrial ==
    /\ pc = "idle" /\ chain # <<>> /\ Head(chain).type = "frame" /\ bound = None
    /\ Try(1)
    /\ UNCHANGED <<browserVars, toAgent, faults, keyVars, bound, highest, replied,
                   toLocal, toBroker, held, admitted, relay, localVars>>

\* StreamOpener.bind(), whose result an await delivers.
Binds == trying = key /\ Accepts(0, Head(chain).n)

TrialFails ==
    /\ pc = "trial" /\ ~Binds
    /\ Try(at + 1)
    /\ UNCHANGED <<browserVars, toAgent, faults, keyVars, bound, highest, replied,
                   toLocal, toBroker, held, admitted, relay, localVars>>

TrialSucceeds ==
    /\ pc = "trial" /\ Binds
    /\ at' = 0 /\ trying' = None
    /\ \/ /\ stream = "closed"
          /\ pc' = "idle" /\ chain' = Tail(chain)
          /\ UNCHANGED <<bound, highest>>
       \/ /\ stream # "closed"
          /\ bound' = trying /\ highest' = Head(chain).n
          /\ pc' = "admit"
          /\ UNCHANGED chain
    /\ UNCHANGED <<browserVars, wireVars, keyVars, replied, toLocal, toBroker, held,
                   admitted, relay, localVars, stream, why>>

\* The gate's answer.
PassesGateAnyway(ok) == TRUE                            \* mutant of PassesGate
PassesGate(ok) == ok

AdmitRefused(ok) ==
    /\ pc = "admit" /\ ~PassesGate(ok)
    /\ pc' = "idle" /\ chain' = Tail(chain)
    /\ DropStream("refused", TRUE)
    /\ UNCHANGED <<browserVars, toAgent, faults, keyVars, bound, highest, replied,
                   at, trying, toLocal, toBroker, held, admitted, relay, localVars>>

AdmitAllowed(ok) ==
    /\ pc = "admit" /\ PassesGate(ok)
    /\ \/ /\ stream = "closed"
          /\ pc' = "idle" /\ chain' = Tail(chain)
          /\ UNCHANGED <<admitted, toBroker, held, relay, toLocal>>
       \/ /\ stream # "closed"
          /\ admitted' = ok
          /\ WriteLocal(Head(chain).line)
          /\ held' = toBroker /\ toBroker' = <<>>
          /\ pc' = "flush"
          /\ UNCHANGED chain
    /\ UNCHANGED <<browserVars, wireVars, keyVars, bound, highest, replied,
                   at, trying, localVars, stream, why>>

FlushHeld ==
    /\ pc = "flush"
    /\ \/ /\ held = <<>>
          /\ pc' = "idle" /\ chain' = Tail(chain)
          /\ UNCHANGED <<held, replied, toBrowser>>
       \/ /\ held # <<>>
          /\ held' = Tail(held)
          /\ replied' = replied + 1
          /\ toBrowser' = IF stream = "closed" THEN toBrowser
                          ELSE Append(toBrowser, Frame(replied, Head(held)))
          /\ UNCHANGED <<pc, chain>>
    /\ UNCHANGED <<browserVars, toAgent, faults, keyVars, bound, highest, at,
                   trying, toLocal, toBroker, admitted, relay, localVars, stream, why>>

-----------------------------------------------------------------------------
(***************************************************************************)
(* The keyring.                                                            *)
(***************************************************************************)
Trimmed(s) == IF Len(s) > MaxKeyring THEN Tail(s) ELSE s

AddSessionKeys(k) ==
    /\ k \notin Range(keyring) \cup forgotten
    /\ keyring' = Trimmed(Append(keyring, k))
    /\ UNCHANGED <<browserVars, wireVars, forgotten, racing, pipeVars, localVars,
                   stream, why>>

LeavesKeys(d) == keyring                                \* mutant of Without
\* The entries that are not spliced out, in their order.
Without(d) ==
    LET stay == {i \in DOMAIN keyring : Owner[keyring[i]] # d}
        Nth(j) == CHOOSE i \in stay : Cardinality({h \in stay : h <= i}) = j
    IN  [j \in 1 .. Cardinality(stay) |-> keyring[Nth(j)]]

RemoveSessionKeys(d) ==
    LET gone == {k \in Range(keyring) : Owner[k] = d} IN
    /\ keyring' = Without(d)
    /\ forgotten' = forgotten \cup gone
    /\ racing' = racing \cup (gone \cap {trying})
    /\ \/ bound # None /\ Owner[bound] = d /\ DropStream("revoked", TRUE)
       \/ ~(bound # None /\ Owner[bound] = d) /\ UNCHANGED <<stream, why, toBrowser>>
    /\ UNCHANGED <<browserVars, toAgent, faults, pipeVars, localVars>>

-----------------------------------------------------------------------------
BrowserNext ==
    \/ Send
    \/ StartSeal
    \/ \E f \in sealing : FinishSeal(f)
    \/ BrowserStreamOpen
    \/ BrowserFrame
    \/ BrowserStreamClose

PipeNext ==
    \/ AgentStreamOpen \/ AgentStreamFrame \/ AgentStreamClose
    \/ LocalOpens
    \/ SealToBroker \/ OpenFromBroker
    \/ StartTrial \/ TrialFails \/ TrialSucceeds
    \/ FlushHeld

GateAnswers == \E ok \in BOOLEAN : AdmitRefused(ok) \/ AdmitAllowed(ok)

Next ==
    \/ BrowserNext
    \/ PipeNext \/ GateAnswers
    \/ RelaySpeaks
    \/ BrowserLeaves \/ BrokerFault \/ TeardownStreams \/ LocalCloses
    \/ \E k \in Keys : AddSessionKeys(k)
    \/ \E d \in Range(Owner) : RemoveSessionKeys(d)

Spec == Init /\ [][Next]_vars

\* Promises resolve, sockets deliver and the loopback connection opens.  Nobody
\* has to write, and the gate, which is awaited without a timeout, need not
\* answer.
FairSpec ==
    /\ Spec
    /\ WF_vars(StartSeal) /\ WF_vars(\E f \in sealing : FinishSeal(f))
    /\ WF_vars(BrowserStreamOpen \/ BrowserFrame \/ BrowserStreamClose)
    /\ WF_vars(PipeNext)

-----------------------------------------------------------------------------
(***************************************************************************)
(* Properties.                                                             *)
(***************************************************************************)
Rising(s) == \A i \in 1 .. Len(s) - 1 : s[i] < s[i + 1]
Exactly(s) == \A i \in DOMAIN s : s[i] = i

\* Each end receives the other's lines in order and none twice, whatever the
\* broker loses, repeats or reorders (frames.ts:242-277).
InOrder == Rising(relay) /\ Rising(got)

\* Through a broker that forwards faithfully nothing is skipped either, across
\* the four buffers a line may wait in (transport.ts:258-262, tunnel-agent.ts:
\* 419-431, 496-498, 531-534).
NothingSkipped == faults = 0 => Exactly(relay) /\ Exactly(got)

\* The lines form a stream at both ends: in order, none twice, and none skipped
\* unless the broker tampers (frames.ts:242-277, transport.ts:258-262).
InOrderNoGaps == TypeOK /\ InOrder /\ NothingSkipped

\* Two overlapping seals or two overlapping binds would trip the receiver's
\* replay window and "kill a healthy connection" (transport.ts:134-149): a
\* faithful broker never makes either end see a bad frame, and the first one
\* the agent tries its keyring on is frame 0.
HealthySurvives ==
    faults = 0 => /\ why # "auth" /\ bwhy # "auth"
                  /\ pc = "trial" /\ stream = "open" => Head(chain).n = 0

\* The gate sits "before a single byte reaches the relay" (tunnel-agent.ts:
\* 482-486): no line passes in either direction before a key has matched and
\* the gate has admitted its owner.
GatedByAdmission ==
    relay # <<>> \/ toLocal # <<>> \/ got # <<>> => admitted /\ bound = key

\* A forgotten pairing binds no stream, except one whose trial under that very
\* entry was in flight when it was forgotten (tunnel-agent.ts:461-480, 771-784).
ForgottenStaysOut ==
    bound \in forgotten /\ stream = "open" => bound \in racing

\* tunnel-agent.ts:250: "Forget a device's keys, and drop whatever it has open."
\* No stream a forgotten device opened stays open under its keys.  This
\* does not hold for a stream in racing: ForgottenStaysOut is what does.
RevokedIsGone == bound \in forgotten => stream # "open"

\* No line is forgotten in a buffer: what the browser writes reaches the relay
\* unless the stream ends at one of its ends, the broker tampers with it or the
\* gate never answers (tunnel-agent.ts:419-422, 487, 531-534).
LinesArrive ==
    \/ <>[](pc = "admit")
    \/ \A n \in 1 .. MaxLines :
          wrote = n ~> Len(relay) >= n \/ detached \/ stream = "closed" \/ faults > 0
=============================================================================

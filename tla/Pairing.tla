------------------------------ MODULE Pairing ------------------------------
(***************************************************************************)
(* The pairing half of the broker: apps/api/src/mailbox.ts (the store of   *)
(* mailboxes and claims), the pairing handlers of apps/api/src/broker.ts   *)
(* and the two guessing budgets of apps/api/src/rate-limit.ts.             *)
(*                                                                         *)
(* A holder parks a mailbox on a slot, a claimant quotes the slot, and the *)
(* broker fans the claim out to every live mailbox of the slot at the      *)
(* moment the claim's socket attaches.  Every JavaScript callback of the   *)
(* broker runs to completion, so each handler is one atomic action; what   *)
(* interleaves is the order in which requests, socket messages, socket     *)
(* closes and the sweeper run, and the clock.                              *)
(*                                                                         *)
(* Ids are random 128-bit strings, hence never reused: a member of         *)
(* Mailboxes or Claims stands for one object for its whole life, also      *)
(* after the store forgot it, because socket handlers keep a reference.    *)
(* A peer handle is fresh for each pair (claim, mailbox), so the pair      *)
(* stands for it and peers[c] is the range of the code's Map.              *)
(***************************************************************************)
EXTENDS Naturals, Sequences, FiniteSets

CONSTANTS
    Mailboxes, Claims, Slots,
    None,             \* JavaScript's null, in no other set
    MailboxTtl,       \* MAILBOX_TTL_MS
    ClaimAttachTtl,   \* CLAIM_ATTACH_TTL_MS
    MaxPerSlot,       \* MAX_MAILBOXES_PER_SLOT
    MaxLive,          \* MAX_LIVE_MAILBOXES
    MaxPending,       \* MAX_PENDING
    SlotLimit,        \* slotClaimLimiter's limit
    GlobalLimit,      \* globalClaimLimiter's limit
    Window,           \* windowMs of both limiters
    MaxTime           \* bound of the model's clock

ASSUME PairingAssumption ==
    /\ IsFiniteSet(Mailboxes)
    /\ IsFiniteSet(Claims)
    /\ None \notin Mailboxes \cup Claims \cup Slots
    /\ MailboxTtl \in Nat \ {0}
    /\ ClaimAttachTtl \in Nat \ {0}
    /\ MaxPerSlot \in Nat \ {0}
    /\ MaxLive \in Nat \ {0}
    /\ MaxPending \in Nat \ {0}
    /\ SlotLimit \in Nat
    /\ GlobalLimit \in Nat
    /\ Window \in Nat \ {0}
    /\ MaxTime \in Nat

VARIABLES
    now,          \* Date.now()
    store,        \* keys of the Map `mailboxes`
    slotOf,       \* mailbox.slot; None before the mailbox is created
    expiresAt,    \* mailbox.expiresAt
    claimedBy,    \* mailbox.claimedBy (and with it mailbox.peer)
    pending,      \* mailbox.pending
    holder,       \* the holder's socket, see SocketState
    established,  \* the flag of the holder's current socket handler
    claims,       \* keys of the Map `claims`
    claimSlot,    \* claim.slot; None before the claim is created
    claimExpires, \* claim.expiresAt
    peers,        \* range of claim.peers
    claimant,     \* the claimant's socket, see SocketState
    payloads,     \* keys of the Map `claimPayloads`
    slotHits,     \* hits of slotClaimLimiter, per slot
    globalHits,   \* hits of globalClaimLimiter
    toHolder,     \* history: what the holder's socket was really sent
    toClaimant,   \* history: the mailboxes whose peer handle the claimant's
                  \* socket was really sent, and those it was told are over
    paired,       \* history: mailboxes logged as "Pairing established"
    guesses       \* history: one record per claim that was fanned out

storeVars   == <<store, slotOf, expiresAt, claimedBy, pending>>
claimVars   == <<claims, claimSlot, claimExpires, peers, payloads>>
limitVars   == <<slotHits, globalHits, guesses>>
vars == <<now, storeVars, holder, established, claimVars, claimant,
          limitVars, toHolder, toClaimant, paired>>

(***************************************************************************)
(* "none": no handler attached.  "open": `ws` is OPEN.  "closing": the     *)
(* broker called close(); `ws` still hands over messages but what is sent  *)
(* is dropped.  "closed": the claim's close event has been handled, or its *)
(* socket was refused.                                                     *)
(***************************************************************************)
SocketState == {"none", "open", "closing", "closed"}

\* What the broker routes.  "over" is pair:established and every pair:failed:
\* the last word of the conversation for whoever receives it.  pair:ready, and
\* what a refused socket is told, concern nobody else and are left out.
Kinds == {"share", "confirm", "over"}

TypeOK ==
    /\ now \in 0 .. MaxTime
    /\ store \subseteq Mailboxes
    /\ slotOf \in [Mailboxes -> Slots \cup {None}]
    /\ expiresAt \in [Mailboxes -> Nat]
    /\ claimedBy \in [Mailboxes -> Claims \cup {None}]
    /\ pending \in [Mailboxes -> Seq(Kinds)]
    /\ holder \in [Mailboxes -> SocketState]
    /\ established \in [Mailboxes -> BOOLEAN]
    /\ claims \subseteq Claims
    /\ claimSlot \in [Claims -> Slots \cup {None}]
    /\ claimExpires \in [Claims -> Nat]
    /\ peers \in [Claims -> SUBSET Mailboxes]
    /\ claimant \in [Claims -> SocketState]
    /\ payloads \subseteq Claims
    /\ slotHits \in [Slots -> SUBSET (Claims \X (0 .. MaxTime))]
    /\ globalHits \subseteq Claims \X (0 .. MaxTime)
    /\ toHolder \in [Mailboxes -> SUBSET Kinds]
    /\ toClaimant \in [Claims -> SUBSET ({"peer", "over"} \X Mailboxes)]
    /\ paired \subseteq Mailboxes
    /\ guesses \subseteq
         [claim: Claims, slot: Slots, at: 0 .. MaxTime, burned: SUBSET Mailboxes]

Init ==
    /\ now = 0
    /\ store = {}
    /\ slotOf = [m \in Mailboxes |-> None]
    /\ expiresAt = [m \in Mailboxes |-> 0]
    /\ claimedBy = [m \in Mailboxes |-> None]
    /\ pending = [m \in Mailboxes |-> <<>>]
    /\ holder = [m \in Mailboxes |-> "none"]
    /\ established = [m \in Mailboxes |-> FALSE]
    /\ claims = {}
    /\ claimSlot = [c \in Claims |-> None]
    /\ claimExpires = [c \in Claims |-> 0]
    /\ peers = [c \in Claims |-> {}]
    /\ claimant = [c \in Claims |-> "none"]
    /\ payloads = {}
    /\ slotHits = [s \in Slots |-> {}]
    /\ globalHits = {}
    /\ toHolder = [m \in Mailboxes |-> {}]
    /\ toClaimant = [c \in Claims |-> {}]
    /\ paired = {}
    /\ guesses = {}

-----------------------------------------------------------------------------
(***************************************************************************)
(* The store.                                                              *)
(***************************************************************************)
ExpiredMailboxes == {m \in store : expiresAt[m] <= now}
ExpiredClaims    == {c \in claims : claimExpires[c] <= now}

\* What createMailbox and liveMailboxesForSlot forget when they look at slots.
PrunedIn(slots) == {m \in ExpiredMailboxes : slotOf[m] \in slots}

OnSlot(s) == {m \in store \ ExpiredMailboxes : slotOf[m] = s}

SlotFull(s) == Cardinality(OnSlot(s)) >= MaxPerSlot

\* getMailbox and getClaim: present and not past the deadline.
HasMailbox(m) == m \in store \ ExpiredMailboxes
HasClaim(c)   == c \in claims \ ExpiredClaims

LiveMailboxesForSlot(s) == {m \in OnSlot(s) : claimedBy[m] = None}

FanOutAgain(s) == OnSlot(s)                              \* mutant of FanOut
\* The mailboxes an attaching claim wins: the loop of attachClaimSocket, with
\* claimMailbox's compare-and-set on each.
FanOut(s) == {m \in LiveMailboxesForSlot(s) : claimedBy[m] = None}

\* The claim a mailbox was burned by, if the two still agree.
ClaimFor(m) == /\ claimedBy[m] # None
               /\ HasClaim(claimedBy[m])
               /\ m \in peers[claimedBy[m]]

\* The mailbox a claim owns under a peer handle.
OwnedMailbox(c, m) == /\ m \in peers[c]
                      /\ HasMailbox(m)
                      /\ claimedBy[m] = c

\* What the close event of a claim's socket finds it still owns.
OwnsNothing(c) == {}                                     \* mutant of StillOwned
StillOwned(c) == {m \in peers[c] : OwnedMailbox(c, m)}

\* deliver() to a set of mailboxes: through the sink if there is one, which
\* drops it when the socket is no longer open, else into the bounded buffer.
Deliver(M, kind) ==
    /\ toHolder' = [m \in Mailboxes |->
         IF m \in M /\ holder[m] = "open" THEN toHolder[m] \cup {kind}
                                          ELSE toHolder[m]]
    /\ pending' = [m \in Mailboxes |->
         IF m \in M /\ holder[m] = "none" /\ Len(pending[m]) < MaxPending
           THEN Append(pending[m], kind) ELSE pending[m]]

\* deliver() to a claim: its sink is set before any holder can route to it.
DeliverClaim(c, kind, m) ==
    LET heard == {<<"peer", m>>} \cup (IF kind = "over" THEN {<<"over", m>>} ELSE {})
    IN  toClaimant' = [toClaimant EXCEPT ![c] =
                         IF claimant[c] = "open" THEN @ \cup heard ELSE @]

\* extendClaim: an attached claim gets the full mailbox TTL.
ExtendClaim(c) == claimExpires' = [claimExpires EXCEPT ![c] = now + MailboxTtl]

\* socket.close(code, reason)
CloseSocket(state) == IF state = "open" THEN "closing" ELSE state

-----------------------------------------------------------------------------
(***************************************************************************)
(* The sliding-window limiter.  A claim is charged at most once, so a hit  *)
(* is the pair of the claim and the time.                                  *)
(***************************************************************************)
Prune(hits) == {h \in hits : h[2] + Window > now}

MayTakeOneMore(hits, limit) == Cardinality(Prune(hits)) <= limit  \* mutant of MayTake
MayTake(hits, limit) == Cardinality(Prune(hits)) < limit

TakeNothing(hits, c) == Prune(hits)                      \* mutant of Take
TakeUntil(hits, c) ==                                   \* mutant of Take
    Prune(hits) \cup {<<c, claimExpires[c] + MailboxTtl>>}
Take(hits, c) == Prune(hits) \cup {<<c, now>>}

-----------------------------------------------------------------------------
(***************************************************************************)
(* HTTP.  The per-address limiters and the version floor only refuse       *)
(* requests: a refused request is one that does not happen here.           *)
(***************************************************************************)

\* Drawing the slots D opened no mailbox: each was full, or the store was
\* even after it forgot what had expired on those that were not.
DrawnInVain(D) ==
    LET open == {s \in D : ~SlotFull(s)}
    IN  open # {} => Cardinality(store \ PrunedIn(open)) >= MaxLive

\* POST /v1/pair/new.  Draws slots until one, s, has room.  Each draw first
\* forgets the slot's expired mailboxes.
PairNew(m, s, vain) ==
    /\ slotOf[m] = None
    /\ now + MailboxTtl <= MaxTime
    /\ DrawnInVain(vain)
    /\ ~SlotFull(s)
    /\ LET kept == store \ PrunedIn(vain \cup {s})
       IN  /\ Cardinality(kept) < MaxLive
           /\ store' = kept \cup {m}
    /\ slotOf' = [slotOf EXCEPT ![m] = s]
    /\ expiresAt' = [expiresAt EXCEPT ![m] = now + MailboxTtl]
    /\ UNCHANGED <<now, claimedBy, pending, holder, established, claimVars,
                   claimant, limitVars, toHolder, toClaimant, paired>>

\* The same request answered 503.
PairNewBusy(vain) ==
    /\ vain # {}
    /\ DrawnInVain(vain)
    /\ store' = store \ PrunedIn(vain)
    /\ UNCHANGED <<now, slotOf, expiresAt, claimedBy, pending, holder,
                   established, claimVars, claimant, limitVars,
                   toHolder, toClaimant, paired>>

\* POST /v1/pair/claim.  Mints a claim and touches no mailbox.
PairClaim(c, s) ==
    /\ claimSlot[c] = None
    /\ now + ClaimAttachTtl <= MaxTime
    /\ claims' = claims \cup {c}
    /\ payloads' = payloads \cup {c}
    /\ claimSlot' = [claimSlot EXCEPT ![c] = s]
    /\ claimExpires' = [claimExpires EXCEPT ![c] = now + ClaimAttachTtl]
    /\ UNCHANGED <<now, storeVars, holder, established, peers, claimant,
                   limitVars, toHolder, toClaimant, paired>>

-----------------------------------------------------------------------------
(***************************************************************************)
(* WS /v1/pair/:mailboxId, the holder's socket.                            *)
(***************************************************************************)
AttachMailboxSocket(m) ==
    /\ HasMailbox(m)
    /\ holder[m] = "none"
    /\ holder' = [holder EXCEPT ![m] = "open"]
    /\ established' = [established EXCEPT ![m] = FALSE]
    /\ toHolder' = [toHolder EXCEPT ![m] =
         @ \cup {pending[m][i] : i \in DOMAIN pending[m]}]
    /\ pending' = [pending EXCEPT ![m] = <<>>]
    /\ UNCHANGED <<now, store, slotOf, expiresAt, claimedBy, claimVars,
                   claimant, limitVars, toClaimant, paired>>

\* An unknown or expired mailbox: told so and refused.
AttachMailboxRefused(m) ==
    /\ slotOf[m] # None
    /\ ~HasMailbox(m)
    /\ holder[m] = "none"
    /\ store' = store \ {m}
    /\ UNCHANGED <<now, slotOf, expiresAt, claimedBy, pending, holder,
                   established, claimVars, claimant, limitVars, toHolder,
                   toClaimant, paired>>

\* Messages are handed over until the close event.
HolderSpeaks(m) == holder[m] \in {"open", "closing"}

\* pair:close, reported as a failed confirmation if it names a peer and as
\* the holder walking away if not; the mailbox dies either way.
HolderPairClose(m) ==
    /\ HolderSpeaks(m)
    /\ IF ClaimFor(m)
         THEN DeliverClaim(claimedBy[m], "over", m)
         ELSE UNCHANGED toClaimant
    /\ store' = store \ {m}
    /\ claims' = claims \ (ExpiredClaims \cap {claimedBy[m]})
    /\ holder' = [holder EXCEPT ![m] = CloseSocket(@)]
    /\ UNCHANGED <<now, slotOf, expiresAt, claimedBy, pending, established,
                   claimSlot, claimExpires, peers, payloads, claimant,
                   limitVars, toHolder, paired>>

\* pair:share, pair:confirm and pair:establish ("over"), quoting the peer:
\* an unguessable handle, which the holder learns from the share it is sent.
HolderSends(m, kind) ==
    /\ HolderSpeaks(m)
    /\ "share" \in toHolder[m]
    /\ claims' = claims \ (ExpiredClaims \cap {claimedBy[m]})
    /\ \/ /\ ~ClaimFor(m)
          /\ Deliver({m}, "over")
          /\ UNCHANGED <<store, established, peers, toClaimant, paired>>
       \/ /\ ClaimFor(m)
          /\ DeliverClaim(claimedBy[m], kind, m)
          /\ established' = [established EXCEPT ![m] = @ \/ kind # "share"]
          /\ store' = IF kind = "over" THEN store \ {m} ELSE store
          /\ peers' = IF kind = "over"
                        THEN [peers EXCEPT ![claimedBy[m]] = @ \ {m}]
                        ELSE peers
          /\ paired' = IF kind = "over" THEN paired \cup {m} ELSE paired
          /\ UNCHANGED <<pending, toHolder>>
    /\ UNCHANGED <<now, slotOf, expiresAt, claimedBy, holder, claimSlot,
                   claimExpires, payloads, claimant, limitVars>>

\* A malformed message, or a peer handle the mailbox was never given: nothing
\* is routed and the socket starts to close.
HolderMisspeaks(m) ==
    /\ holder[m] = "open"
    /\ holder' = [holder EXCEPT ![m] = "closing"]
    /\ UNCHANGED <<now, storeVars, established, claimVars, claimant,
                   limitVars, toHolder, toClaimant, paired>>

\* The close event, whichever end caused it.
HolderSocketCloses(m) ==
    /\ HolderSpeaks(m)
    /\ store' = IF established[m] THEN store ELSE store \ {m}
    /\ holder' = [holder EXCEPT ![m] = "none"]
    /\ UNCHANGED <<now, slotOf, expiresAt, claimedBy, pending, established,
                   claimVars, claimant, limitVars, toHolder, toClaimant, paired>>

-----------------------------------------------------------------------------
(***************************************************************************)
(* WS /v1/claim/:claimId, the claimant's socket.                           *)
(***************************************************************************)

\* The claim and its payload are forgotten and its socket was told why.
RefuseClaim(c) ==
    /\ claims' = claims \ {c}
    /\ payloads' = payloads \ {c}
    /\ claimant' = [claimant EXCEPT ![c] = "closed"]

\* An unknown or expired claim.  The payload stays until the sweeper runs.
AttachClaimExpired(c) ==
    /\ claimSlot[c] # None
    /\ ~HasClaim(c)
    /\ claims' = claims \ {c}
    /\ UNCHANGED <<now, storeVars, holder, established, claimSlot,
                   claimExpires, peers, payloads, claimant, limitVars,
                   toHolder, toClaimant, paired>>

MayAttach(c) == HasClaim(c) /\ claimant[c] = "none"

\* Either budget is spent.  The slot is charged first, and keeps the charge
\* when it is the global budget that refuses.
AttachClaimLimited(c) ==
    LET s == claimSlot[c]
        slotOk == MayTake(slotHits[s], SlotLimit)
    IN
    /\ MayAttach(c)
    /\ ~(slotOk /\ MayTake(globalHits, GlobalLimit))
    /\ slotHits' = [slotHits EXCEPT ![s] = IF slotOk THEN Take(@, c) ELSE Prune(@)]
    /\ globalHits' = IF slotOk THEN Prune(globalHits) ELSE globalHits
    /\ RefuseClaim(c)
    /\ UNCHANGED <<now, storeVars, holder, established, claimSlot,
                   claimExpires, peers, guesses, toHolder, toClaimant,
                   paired>>

\* Both budgets are charged and the claim burns every live mailbox of its
\* slot in the same step.
AttachClaimSocket(c) ==
    LET s == claimSlot[c]
        won == IF c \in payloads THEN FanOut(s) ELSE {}
    IN
    /\ MayAttach(c)
    /\ now + MailboxTtl <= MaxTime
    /\ MayTake(slotHits[s], SlotLimit)
    /\ MayTake(globalHits, GlobalLimit)
    /\ slotHits' = [slotHits EXCEPT ![s] = Take(@, c)]
    /\ globalHits' = Take(globalHits, c)
    /\ guesses' = guesses \cup
         {[claim |-> c, slot |-> s, at |-> now, burned |-> won]}
    /\ ExtendClaim(c)
    /\ store' = store \ PrunedIn({s})
    /\ claimedBy' = [m \in Mailboxes |-> IF m \in won THEN c ELSE claimedBy[m]]
    /\ peers' = [peers EXCEPT ![c] = won]
    /\ Deliver(won, "share")
    /\ \/ /\ won # {}
          /\ claimant' = [claimant EXCEPT ![c] = "open"]
          /\ UNCHANGED <<claims, payloads>>
       \/ /\ won = {}      \* nothing was waiting on that slot
          /\ RefuseClaim(c)
    /\ UNCHANGED <<now, slotOf, expiresAt, holder, established, claimSlot,
                   toClaimant, paired>>

\* The claimant learns a mailbox's handle from what its holder sends.  Any
\* other handle is answered "peer-gone" and changes nothing.
ClaimSpeaks(c, m) ==
    /\ claimant[c] \in {"open", "closing"}
    /\ <<"peer", m>> \in toClaimant[c]

\* getMailbox, called by ownedMailbox, forgets an expired mailbox.
Forgotten(M) == M \cap ExpiredMailboxes

\* pair:close naming a peer: that key confirmation failed, the code is burned.
ClaimPairClosePeer(c, m) ==
    /\ ClaimSpeaks(c, m)
    /\ IF OwnedMailbox(c, m)
         THEN /\ Deliver({m}, "over")
              /\ store' = store \ {m}
         ELSE /\ store' = store \ Forgotten(peers[c] \cap {m})
              /\ UNCHANGED <<pending, toHolder>>
    /\ peers' = [peers EXCEPT ![c] = @ \ {m}]
    /\ UNCHANGED <<now, slotOf, expiresAt, claimedBy, holder, established,
                   claims, claimSlot, claimExpires, payloads, claimant,
                   limitVars, toClaimant, paired>>

\* A bare pair:close.  The mailboxes it burned are left to the close event.
ClaimPairClose(c) ==
    /\ claimant[c] \in {"open", "closing"}
    /\ claims' = claims \ {c}
    /\ payloads' = payloads \ {c}
    /\ claimant' = [claimant EXCEPT ![c] = CloseSocket(@)]
    /\ UNCHANGED <<now, storeVars, holder, established, claimSlot,
                   claimExpires, peers, limitVars, toHolder, toClaimant, paired>>

\* pair:confirm and pair:establish ("over").
ClaimSends(c, m, kind) ==
    /\ ClaimSpeaks(c, m)
    /\ \/ /\ ~OwnedMailbox(c, m)
          /\ DeliverClaim(c, "over", m)
          /\ store' = store \ Forgotten(peers[c] \cap {m})
          /\ UNCHANGED <<pending, toHolder, peers, paired>>
       \/ /\ OwnedMailbox(c, m)
          /\ Deliver({m}, kind)
          /\ store' = IF kind = "over" THEN store \ {m} ELSE store
          /\ peers' = IF kind = "over"
                        THEN [peers EXCEPT ![c] = @ \ {m}] ELSE peers
          /\ paired' = IF kind = "over" THEN paired \cup {m} ELSE paired
          /\ UNCHANGED toClaimant
    /\ UNCHANGED <<now, slotOf, expiresAt, claimedBy, holder, established,
                   claims, claimSlot, claimExpires, payloads, claimant,
                   limitVars>>

\* A malformed message, or a second share: refused, never forwarded.
ClaimMisspeaks(c) ==
    /\ claimant[c] = "open"
    /\ claimant' = [claimant EXCEPT ![c] = "closing"]
    /\ UNCHANGED <<now, storeVars, holder, established, claimVars,
                   limitVars, toHolder, toClaimant, paired>>

\* The close event: whatever the claim still owns dies, and its holder hears.
ClaimSocketCloses(c) ==
    LET owned == StillOwned(c) IN
    /\ claimant[c] \in {"open", "closing"}
    /\ Deliver(owned, "over")
    /\ store' = store \ (owned \cup Forgotten(peers[c]))
    /\ claims' = claims \ {c}
    /\ payloads' = payloads \ {c}
    /\ claimant' = [claimant EXCEPT ![c] = "closed"]
    /\ UNCHANGED <<now, slotOf, expiresAt, claimedBy, holder, established,
                   claimSlot, claimExpires, peers, limitVars, toClaimant, paired>>

-----------------------------------------------------------------------------
\* sweepClaimPayloads: the payloads whose claim the store still has.
PayloadsForever == payloads                              \* mutant of SweptPayloads
SweptPayloads == payloads \cap (claims \ ExpiredClaims)

\* sweepAll: the store first, then the payloads whose claim is gone.
Sweep ==
    /\ store' = store \ ExpiredMailboxes
    /\ claims' = claims \ ExpiredClaims
    /\ payloads' = SweptPayloads
    /\ UNCHANGED <<now, slotOf, expiresAt, claimedBy, pending, holder,
                   established, claimSlot, claimExpires, peers, claimant,
                   limitVars, toHolder, toClaimant, paired>>

Tick ==
    /\ now < MaxTime
    /\ now' = now + 1
    /\ UNCHANGED <<storeVars, holder, established, claimVars, claimant,
                   limitVars, toHolder, toClaimant, paired>>

HolderStep(m) ==
    \/ AttachMailboxSocket(m)
    \/ AttachMailboxRefused(m)
    \/ HolderPairClose(m)
    \/ \E kind \in {"share", "confirm", "over"} : HolderSends(m, kind)
    \/ HolderMisspeaks(m)
    \/ HolderSocketCloses(m)

ClaimStep(c) ==
    \/ AttachClaimExpired(c)
    \/ AttachClaimLimited(c)
    \/ AttachClaimSocket(c)
    \/ \E m \in Mailboxes : ClaimPairClosePeer(c, m)
    \/ ClaimPairClose(c)
    \/ \E m \in Mailboxes, kind \in {"confirm", "over"} :
          ClaimSends(c, m, kind)
    \/ ClaimMisspeaks(c)
    \/ ClaimSocketCloses(c)

Next ==
    \/ \E m \in Mailboxes, s \in Slots, vain \in SUBSET Slots : PairNew(m, s, vain)
    \/ \E vain \in SUBSET Slots : PairNewBusy(vain)
    \/ \E c \in Claims, s \in Slots : PairClaim(c, s)
    \/ \E m \in Mailboxes : HolderStep(m)
    \/ \E c \in Claims : ClaimStep(c)
    \/ Sweep
    \/ Tick

Spec == Init /\ [][Next]_vars

\* The interval timer fires for ever and time passes; nothing is assumed of
\* the clients.
FairSpec == Spec /\ WF_vars(Sweep) /\ WF_vars(Tick)

-----------------------------------------------------------------------------
(***************************************************************************)
(* Properties.                                                             *)
(***************************************************************************)

\* One guess per code (mailbox.ts:67-78): whatever the order of attaches,
\* closes, expiries and re-attaches, no mailbox is ever fanned out twice.
OneGuessPerCode ==
    \A g, h \in guesses : g # h => g.burned \cap h.burned = {}

\* The guessing budgets (broker.ts:211-231): in every window of the length the
\* limiters use, also one that starts between two hits, no slot sees more
\* guesses than SlotLimit and the service no more than GlobalLimit.
InWindow(g, t) == g.at <= t /\ t < g.at + Window
GuessesAt(G, t) == {<<g.claim, g.at>> : g \in {h \in G : InWindow(h, t)}}
GuessBudget ==
    \A t \in 0 .. MaxTime :
        /\ Cardinality(GuessesAt(guesses, t)) <= GlobalLimit
        /\ \A s \in Slots :
             Cardinality(GuessesAt({g \in guesses : g.slot = s}, t)) <= SlotLimit

\* claimFor and ownedMailbox agree (broker.ts:679-692, 876-890): while a burned
\* mailbox is unexpired and its claimant connected, each side reaches the other.
SymmetricRouting ==
    \A m \in Mailboxes :
        LET c == claimedBy[m] IN
        HasMailbox(m) /\ c # None /\ claimant[claimedBy[m]] = "open"
            => ClaimFor(m) /\ OwnedMailbox(c, m)

\* No silent burn (broker.ts:967-980): once the claimant's socket is gone the
\* mailbox it burned is gone too, and a holder still connected has been told,
\* had concluded the pairing, or let the code lapse.
NoSilentBurn ==
    \A m \in Mailboxes :
        claimedBy[m] # None /\ claimant[claimedBy[m]] = "closed"
            => /\ ~HasMailbox(m)
               /\ holder[m] = "open" =>
                    "over" \in toHolder[m] \/ m \in paired \/ expiresAt[m] <= now

\* The fan-out may beat the holder's connection (mailbox.ts:271-285): an
\* attached holder of a burned mailbox has the claimant's share, and never a
\* confirmation tag before it.
HolderHearsShare ==
    \A m \in Mailboxes :
        \/ claimedBy[m] # None /\ holder[m] = "open"
        \/ toHolder[m] # {}
        => "share" \in toHolder[m]

\* The holder of a code is never left in the dark: while both are connected the
\* sides agree on who reaches whom, the holder has the share before anything
\* else, and it hears when the claimant goes (broker.ts:679-692, 876-890,
\* 967-980).
HolderHears == SymmetricRouting /\ NoSilentBurn /\ HolderHearsShare

\* "Anything goes wrong: pair:failed - and the mailbox dies, broker -> either"
\* (apps/docs/content/docs/pairing.mdx:333): a claimant whose code's mailbox died
\* before its time was told so.  This does not hold: the close event of the
\* holder's socket destroys the mailbox and tells nobody (broker.ts:775-783).
ClaimantHears ==
    \A c \in Claims : \A m \in peers[c] :
        claimant[c] = "open" /\ m \notin store /\ expiresAt[m] > now
            => <<"over", m>> \in toClaimant[c]

\* Memory is given back (broker.ts:1293-1305): every payload and every mailbox
\* is forgotten in the end, whatever the clients do or fail to do.
Reclaimed ==
    /\ \A c \in Claims : c \in payloads ~> c \notin payloads
    /\ \A m \in Mailboxes : m \in store ~> m \notin store

\* The abstract view of the broker's state.
CodeStatus ==
    [m \in Mailboxes |->
        IF slotOf[m] = None THEN "unborn"
        ELSE IF m \notin store THEN "retired"
        ELSE IF claimedBy[m] = None THEN "live" ELSE "spent"]

Codes == INSTANCE OneShotCodes WITH
            Codes <- Mailboxes, Guessers <- Claims, clock <- now,
            status <- CodeStatus, slot <- slotOf, spentBy <- claimedBy,
            tries <- guesses

\* The broker implements one-shot codes under a budget (mailbox.ts:67-78,
\* broker.ts:211-231): every handler is one step of OneShotCodes or none.
ImplementsOneShotCodes == Codes!Spec
=============================================================================

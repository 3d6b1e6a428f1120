--------------------------- MODULE PairingProofs ---------------------------
(***************************************************************************)
(* Proofs about the two ways to pair: about Pairing, for any number of     *)
(* mailboxes, claims and slots and any deadlines and limits, and at the    *)
(* end about LocalPairing.                                                 *)
(***************************************************************************)
EXTENDS Pairing, TLAPS, FiniteSetTheorems

\* TypeOK is inductive once a claim the store knows has a slot.
TypeInv == TypeOK /\ \A c \in claims : claimSlot[c] \in Slots

\* Deliver keeps the types of what it writes.
LEMMA DeliverType ==
    ASSUME TypeOK, NEW M \in SUBSET Mailboxes, NEW kind \in Kinds,
           Deliver(M, kind)
    PROVE  /\ toHolder' \in [Mailboxes -> SUBSET Kinds]
           /\ pending' \in [Mailboxes -> Seq(Kinds)]
  <1>1. toHolder' \in [Mailboxes -> SUBSET Kinds]
    BY DEF TypeOK, Deliver
  <1>2. ASSUME NEW m \in Mailboxes
        PROVE  Append(pending[m], kind) \in Seq(Kinds) /\ pending[m] \in Seq(Kinds)
    BY DEF TypeOK
  <1>3. pending' \in [Mailboxes -> Seq(Kinds)]
    BY <1>2 DEF Deliver
  <1> QED BY <1>1, <1>3

\* DeliverClaim keeps the type of what it writes.
LEMMA DeliverClaimType ==
    ASSUME TypeOK, NEW c \in Claims, NEW m \in Mailboxes, NEW kind \in Kinds,
           DeliverClaim(c, kind, m)
    PROVE  toClaimant' \in [Claims -> SUBSET ({"peer", "over"} \X Mailboxes)]
  BY DEF TypeOK, DeliverClaim

\* The limiter's bookkeeping keeps its type.
LEMMA LimiterType ==
    ASSUME TypeOK, NEW hits \in SUBSET (Claims \X (0 .. MaxTime)), NEW c \in Claims
    PROVE  /\ Prune(hits) \in SUBSET (Claims \X (0 .. MaxTime))
           /\ Take(hits, c) \in SUBSET (Claims \X (0 .. MaxTime))
  BY DEF TypeOK, Prune, Take

\* Dropping a peer keeps the routing table's type.
LEMMA DropPeerType ==
    ASSUME TypeOK, NEW c \in Claims, NEW m \in Mailboxes
    PROVE  [peers EXCEPT ![c] = @ \ {m}] \in [Claims -> SUBSET Mailboxes]
  BY DEF TypeOK

\* The initial state has its types.
LEMMA TypeInit == Init => TypeInv
  BY PairingAssumption DEF Init, TypeInv, TypeOK, SocketState

\* The steps of a holder keep the types.
LEMMA HolderType ==
    ASSUME TypeInv, NEW m \in Mailboxes, HolderStep(m)
    PROVE  TypeInv'
  <1> USE DEF TypeInv, SocketState
  <1>1. CASE AttachMailboxSocket(m)
    <2>1. {pending[m][i] : i \in DOMAIN pending[m]} \subseteq Kinds
      BY DEF TypeOK
    <2>2. <<>> \in Seq(Kinds)
      OBVIOUS
    <2> QED BY <1>1, <2>1, <2>2 DEF AttachMailboxSocket, TypeOK, claimVars, limitVars
  <1>2. CASE AttachMailboxRefused(m)
    BY <1>2 DEF AttachMailboxRefused, TypeOK, claimVars, limitVars
  <1>3. CASE HolderPairClose(m)
    <2>1. toClaimant' \in [Claims -> SUBSET ({"peer", "over"} \X Mailboxes)]
      BY <1>3, DeliverClaimType DEF HolderPairClose, ClaimFor, TypeOK, Kinds
    <2> QED BY <1>3, <2>1 DEF HolderPairClose, TypeOK, limitVars, CloseSocket
  <1>4. ASSUME NEW kind \in Kinds, HolderSends(m, kind) PROVE TypeInv'
    <2>1. CASE ~ClaimFor(m)
      <3>1. Deliver({m}, "over") BY <1>4, <2>1 DEF HolderSends
      <3>2. /\ toHolder' \in [Mailboxes -> SUBSET Kinds]
            /\ pending' \in [Mailboxes -> Seq(Kinds)]
        BY <3>1, DeliverType DEF Kinds
      <3> QED BY <1>4, <2>1, <3>2 DEF HolderSends, TypeOK, limitVars
    <2>2. CASE ClaimFor(m)
      <3>1. claimedBy[m] \in Claims BY <2>2 DEF ClaimFor, TypeOK
      <3>2. DeliverClaim(claimedBy[m], kind, m) BY <1>4, <2>2 DEF HolderSends
      <3>3. toClaimant' \in [Claims -> SUBSET ({"peer", "over"} \X Mailboxes)]
        BY <3>1, <3>2, DeliverClaimType
      <3>4. established' \in [Mailboxes -> BOOLEAN]
        BY <1>4, <2>2, Zenon DEF HolderSends, TypeOK
      <3>5. /\ claims' \subseteq claims
            /\ store' \subseteq store
            /\ paired' \subseteq paired \cup {m}
            /\ UNCHANGED <<pending, toHolder, now, slotOf, expiresAt, claimedBy,
                           holder, claimSlot, claimExpires, payloads, claimant,
                           limitVars>>
        BY <1>4, <2>2, Zenon DEF HolderSends
      <3>6. \/ peers' = peers
            \/ peers' = [peers EXCEPT ![claimedBy[m]] = @ \ {m}]
        BY <1>4, <2>2, Zenon DEF HolderSends
      <3>7. peers' \in [Claims -> SUBSET Mailboxes]
        <4>1. peers \in [Claims -> SUBSET Mailboxes] BY DEF TypeOK
        <4>2. [peers EXCEPT ![claimedBy[m]] = @ \ {m}] \in [Claims -> SUBSET Mailboxes]
          BY <3>1, DropPeerType
        <4> QED BY <3>6, <4>1, <4>2, Zenon
      <3> QED BY <3>3, <3>4, <3>5, <3>7 DEF TypeOK, limitVars
    <2> QED BY <2>1, <2>2
  <1>5. CASE HolderMisspeaks(m)
    BY <1>5 DEF HolderMisspeaks, TypeOK, storeVars, claimVars, limitVars
  <1>6. CASE HolderSocketCloses(m)
    BY <1>6 DEF HolderSocketCloses, TypeOK, claimVars, limitVars
  <1> QED BY <1>1, <1>2, <1>3, <1>4, <1>5, <1>6 DEF HolderStep, Kinds

\* The steps of a claimant keep the types.
LEMMA ClaimType ==
    ASSUME TypeInv, NEW c \in Claims, ClaimStep(c)
    PROVE  TypeInv'
  <1> USE DEF TypeInv, SocketState
  <1>1. CASE AttachClaimExpired(c)
    BY <1>1 DEF AttachClaimExpired, TypeOK, storeVars, limitVars
  <1>2. CASE AttachClaimLimited(c)
    <2>1. claimSlot[c] \in Slots
      BY <1>2 DEF AttachClaimLimited, MayAttach, HasClaim
    <2>2. /\ slotHits' \in [Slots -> SUBSET (Claims \X (0 .. MaxTime))]
          /\ globalHits' \subseteq Claims \X (0 .. MaxTime)
      <3> DEFINE h == slotHits[claimSlot[c]]
      <3>1. h \in SUBSET (Claims \X (0 .. MaxTime))
        BY <2>1 DEF TypeOK
      <3>2. /\ Prune(h) \in SUBSET (Claims \X (0 .. MaxTime))
            /\ Take(h, c) \in SUBSET (Claims \X (0 .. MaxTime))
            /\ Prune(globalHits) \in SUBSET (Claims \X (0 .. MaxTime))
        BY <3>1, LimiterType DEF TypeOK
      <3>3. \/ slotHits' = [slotHits EXCEPT ![claimSlot[c]] = Take(h, c)]
            \/ slotHits' = [slotHits EXCEPT ![claimSlot[c]] = Prune(h)]
        BY <1>2 DEF AttachClaimLimited
      <3>4. globalHits' \in {globalHits, Prune(globalHits)}
        BY <1>2 DEF AttachClaimLimited
      <3> HIDE DEF h
      <3> QED BY <3>2, <3>3, <3>4 DEF TypeOK
    <2> QED BY <1>2, <2>2 DEF AttachClaimLimited, RefuseClaim, TypeOK, storeVars
  <1>3. CASE AttachClaimSocket(c)
    <2> DEFINE s == claimSlot[c]
               won == IF c \in payloads THEN FanOut(s) ELSE {}
    <2>1. s \in Slots /\ won \in SUBSET Mailboxes
      BY <1>3 DEF AttachClaimSocket, MayAttach, HasClaim, FanOut,
                  LiveMailboxesForSlot, OnSlot, TypeOK
    <2>2. /\ slotHits' \in [Slots -> SUBSET (Claims \X (0 .. MaxTime))]
          /\ globalHits' \subseteq Claims \X (0 .. MaxTime)
      BY <1>3, <2>1, LimiterType DEF AttachClaimSocket, TypeOK
    <2>3. Deliver(won, "share")
      BY <1>3 DEF AttachClaimSocket
    <2>4. /\ toHolder' \in [Mailboxes -> SUBSET Kinds]
          /\ pending' \in [Mailboxes -> Seq(Kinds)]
      BY <2>1, <2>3, DeliverType DEF Kinds
    <2>5. /\ claims' \subseteq claims
          /\ payloads' \subseteq payloads
          /\ claimant' \in [Claims -> SocketState]
      BY <1>3 DEF AttachClaimSocket, RefuseClaim, TypeOK
    <2>6. claimExpires' \in [Claims -> Nat]
      BY <1>3, PairingAssumption DEF AttachClaimSocket, ExtendClaim, TypeOK
    <2>7. /\ guesses' = guesses \cup
                {[claim |-> c, slot |-> s, at |-> now, burned |-> won]}
          /\ claimedBy' = [m \in Mailboxes |-> IF m \in won THEN c ELSE claimedBy[m]]
          /\ peers' = [peers EXCEPT ![c] = won]
          /\ store' \subseteq store
          /\ UNCHANGED <<now, slotOf, expiresAt, holder, established, claimSlot,
                         toClaimant, paired>>
      BY <1>3 DEF AttachClaimSocket
    <2> HIDE DEF s, won
    <2> QED BY <2>1, <2>2, <2>4, <2>5, <2>6, <2>7 DEF TypeOK
  <1>4. ASSUME NEW m \in Mailboxes, ClaimPairClosePeer(c, m) PROVE TypeInv'
    <2>1. /\ toHolder' \in [Mailboxes -> SUBSET Kinds]
          /\ pending' \in [Mailboxes -> Seq(Kinds)]
      BY <1>4, DeliverType DEF ClaimPairClosePeer, Kinds, TypeOK
    <2> QED BY <1>4, <2>1 DEF ClaimPairClosePeer, TypeOK, limitVars
  <1>5. CASE ClaimPairClose(c)
    BY <1>5 DEF ClaimPairClose, CloseSocket, TypeOK, storeVars, limitVars
  <1>6. ASSUME NEW m \in Mailboxes, NEW kind \in Kinds, ClaimSends(c, m, kind)
        PROVE  TypeInv'
    <2>1. /\ toHolder' \in [Mailboxes -> SUBSET Kinds]
          /\ pending' \in [Mailboxes -> Seq(Kinds)]
      BY <1>6, DeliverType DEF ClaimSends, TypeOK
    <2>2. toClaimant' \in [Claims -> SUBSET ({"peer", "over"} \X Mailboxes)]
      BY <1>6, DeliverClaimType DEF ClaimSends, TypeOK, Kinds
    <2>3. peers' \in [Claims -> SUBSET Mailboxes]
      <3>1. peers' = peers \/ peers' = [peers EXCEPT ![c] = @ \ {m}]
        BY <1>6, Zenon DEF ClaimSends
      <3>2. peers \in [Claims -> SUBSET Mailboxes] BY DEF TypeOK
      <3>3. [peers EXCEPT ![c] = @ \ {m}] \in [Claims -> SUBSET Mailboxes]
        BY DropPeerType
      <3> QED BY <3>1, <3>2, <3>3, Zenon
    <2>4. store' \subseteq store /\ paired' \subseteq paired \cup {m}
      BY <1>6 DEF ClaimSends
    <2> QED BY <1>6, <2>1, <2>2, <2>3, <2>4 DEF ClaimSends, TypeOK, limitVars
  <1>7. CASE ClaimMisspeaks(c)
    BY <1>7 DEF ClaimMisspeaks, TypeOK, storeVars, claimVars, limitVars
  <1>8. CASE ClaimSocketCloses(c)
    <2>1. StillOwned(c) \in SUBSET Mailboxes
      BY DEF StillOwned, TypeOK
    <2>2. /\ toHolder' \in [Mailboxes -> SUBSET Kinds]
          /\ pending' \in [Mailboxes -> Seq(Kinds)]
      BY <1>8, <2>1, DeliverType DEF ClaimSocketCloses, Kinds
    <2> QED BY <1>8, <2>2 DEF ClaimSocketCloses, TypeOK, limitVars
  <1> QED BY <1>1, <1>2, <1>3, <1>4, <1>5, <1>6, <1>7, <1>8 DEF ClaimStep, Kinds

\* Every step keeps the types.
LEMMA TypeStep == TypeInv /\ [Next]_vars => TypeInv'
  <1> SUFFICES ASSUME TypeInv, [Next]_vars PROVE TypeInv'
    OBVIOUS
  <1> USE DEF TypeInv
  <1>1. ASSUME NEW m \in Mailboxes, NEW s \in Slots, NEW vain \in SUBSET Slots,
               PairNew(m, s, vain)
        PROVE  TypeInv'
    <2>1. now + MailboxTtl \in Nat
      BY PairingAssumption DEF TypeOK
    <2> QED BY <1>1, <2>1 DEF PairNew, TypeOK, claimVars, limitVars
  <1>2. ASSUME NEW vain \in SUBSET Slots, PairNewBusy(vain) PROVE TypeInv'
    BY <1>2 DEF PairNewBusy, TypeOK, claimVars, limitVars
  <1>3. ASSUME NEW c \in Claims, NEW s \in Slots, PairClaim(c, s) PROVE TypeInv'
    <2>1. now + ClaimAttachTtl \in Nat
      BY PairingAssumption DEF TypeOK
    <2> QED BY <1>3, <2>1 DEF PairClaim, TypeOK, storeVars, limitVars
  <1>4. CASE Sweep
    BY <1>4 DEF Sweep, SweptPayloads, TypeOK, limitVars
  <1>5. CASE Tick
    BY <1>5, PairingAssumption DEF Tick, TypeOK, storeVars, claimVars, limitVars
  <1>6. CASE UNCHANGED vars
    BY <1>6 DEF vars, TypeOK, storeVars, claimVars, limitVars
  <1> QED BY <1>1, <1>2, <1>3, <1>4, <1>5, <1>6, HolderType, ClaimType DEF Next

\* Every variable of the broker keeps its type (mailbox.ts, broker.ts).
THEOREM TypeCorrect == Spec => []TypeOK
  <1>1. TypeInv => TypeOK BY DEF TypeInv
  <1> QED BY <1>1, TypeInit, TypeStep, PTL DEF Spec

-----------------------------------------------------------------------------
(***************************************************************************)
(* Only attachClaimSocket guesses.  Every other step keeps the guesses,    *)
(* what they burned, and the limiter hits that are still in the window.    *)
(***************************************************************************)
Quiet ==
    /\ UNCHANGED <<guesses, claimedBy>>
    /\ now' >= now
    /\ \A c \in Claims : claimant[c] # "none" => claimant'[c] # "none"
    /\ \A s \in Slots : Prune(slotHits[s]) \subseteq slotHits'[s]
    /\ Prune(globalHits) \subseteq globalHits'

\* Only a claimant's attaching offers a code or counts a guess.
LEMMA QuietStep ==
    ASSUME TypeInv, [Next]_vars, ~\E c \in Claims : AttachClaimSocket(c)
    PROVE  Quiet
  <1> USE DEF Quiet, TypeInv
  <1>a. now \in Nat BY PairingAssumption DEF TypeOK
  <1>b. \A h : Prune(h) \subseteq h BY DEF Prune
  <1>1. ASSUME NEW m \in Mailboxes, NEW s \in Slots, NEW vain \in SUBSET Slots,
               PairNew(m, s, vain)
        PROVE  Quiet
    BY <1>1, <1>a, <1>b DEF PairNew, claimVars, limitVars
  <1>2. ASSUME NEW vain \in SUBSET Slots, PairNewBusy(vain) PROVE Quiet
    BY <1>2, <1>a, <1>b DEF PairNewBusy, claimVars, limitVars
  <1>3. ASSUME NEW c \in Claims, NEW s \in Slots, PairClaim(c, s) PROVE Quiet
    BY <1>3, <1>a, <1>b DEF PairClaim, storeVars, limitVars
  <1>4. ASSUME NEW m \in Mailboxes, HolderStep(m) PROVE Quiet
    <2>1. UNCHANGED <<now, guesses, claimedBy, claimant, slotHits, globalHits>>
      BY <1>4, Zenon DEF HolderStep, AttachMailboxSocket, AttachMailboxRefused,
        HolderPairClose, HolderSends, HolderMisspeaks, HolderSocketCloses,
        storeVars, claimVars, limitVars
    <2> QED BY <2>1, <1>a, <1>b
  <1>5. ASSUME NEW c \in Claims, ClaimStep(c) PROVE Quiet
    <2>1. CASE AttachClaimLimited(c)
      <3>1. UNCHANGED <<now, guesses, claimedBy>> /\ claimant' = [claimant EXCEPT ![c] = "closed"]
        BY <2>1 DEF AttachClaimLimited, RefuseClaim, storeVars
      <3>2. \A h : Prune(h) \subseteq Prune(h) /\ Prune(h) \subseteq Take(h, c)
        BY DEF Take
      <3>3. Prune(globalHits) \subseteq globalHits'
        BY <2>1, <1>b DEF AttachClaimLimited
      <3>4. ASSUME NEW s \in Slots PROVE Prune(slotHits[s]) \subseteq slotHits'[s]
        <4>1. \/ slotHits'[s] = slotHits[s]
              \/ slotHits'[s] = Take(slotHits[s], c)
              \/ slotHits'[s] = Prune(slotHits[s])
          BY <2>1, Zenon DEF AttachClaimLimited, TypeOK
        <4> QED BY <4>1, <3>2, <1>b
      <3> QED BY <3>1, <3>3, <3>4, <1>a DEF TypeOK
    <2>2. CASE ~AttachClaimLimited(c)
      <3>1. UNCHANGED <<now, guesses, claimedBy, slotHits, globalHits>>
        BY <1>5, <2>2, Zenon DEF ClaimStep, AttachClaimExpired, ClaimPairClosePeer,
           ClaimPairClose, ClaimSends, ClaimMisspeaks, ClaimSocketCloses,
           storeVars, claimVars, limitVars
      <3>2. \/ claimant' = claimant
            \/ claimant' = [claimant EXCEPT ![c] = "closed"]
            \/ claimant' = [claimant EXCEPT ![c] = "closing"]
            \/ claimant' = [claimant EXCEPT ![c] = CloseSocket(@)]
        BY <1>5, <2>2, Zenon DEF ClaimStep, AttachClaimExpired, ClaimPairClosePeer,
           ClaimPairClose, ClaimSends, ClaimMisspeaks, ClaimSocketCloses,
           storeVars, claimVars, limitVars
      <3> QED BY <3>1, <3>2, <1>a, <1>b DEF CloseSocket, TypeOK
    <2> QED BY <2>1, <2>2
  <1>6. CASE Sweep
    BY <1>6, <1>a, <1>b DEF Sweep, limitVars
  <1>7. CASE Tick
    BY <1>7, <1>a, <1>b DEF Tick, storeVars, claimVars, limitVars
  <1>8. CASE UNCHANGED vars
    BY <1>8, <1>a, <1>b DEF vars, storeVars, claimVars, limitVars
  <1> QED BY <1>1, <1>2, <1>3, <1>4, <1>5, <1>6, <1>7, <1>8 DEF Next

\* What attachClaimSocket does to the state the guesses depend on.
LEMMA AttachStep ==
    ASSUME TypeInv, NEW c \in Claims, AttachClaimSocket(c)
    PROVE  \E won \in SUBSET Mailboxes :
             /\ claimSlot[c] \in Slots
             /\ claimant[c] = "none" /\ claimant'[c] # "none"
             /\ \A d \in Claims \ {c} : claimant'[d] = claimant[d]
             /\ \A m \in won : claimedBy[m] = None /\ claimedBy'[m] = c
             /\ \A m \in Mailboxes \ won : claimedBy'[m] = claimedBy[m]
             /\ guesses' = guesses \cup {[claim |-> c, slot |-> claimSlot[c],
                                          at |-> now, burned |-> won]}
  <1> DEFINE s == claimSlot[c]
             won == IF c \in payloads THEN FanOut(s) ELSE {}
  <1>1. won \in SUBSET Mailboxes /\ \A m \in won : claimedBy[m] = None
    BY DEF FanOut, LiveMailboxesForSlot, OnSlot, TypeInv, TypeOK
  <1>2. claimSlot[c] \in Slots /\ claimant[c] = "none"
    BY DEF AttachClaimSocket, MayAttach, HasClaim, TypeInv
  <1>3. \/ claimant' = [claimant EXCEPT ![c] = "open"]
        \/ claimant' = [claimant EXCEPT ![c] = "closed"]
    BY DEF AttachClaimSocket, RefuseClaim
  <1>4. claimant'[c] # "none" /\ \A d \in Claims \ {c} : claimant'[d] = claimant[d]
    BY <1>3 DEF TypeInv, TypeOK
  <1>5. /\ claimedBy' = [m \in Mailboxes |-> IF m \in won THEN c ELSE claimedBy[m]]
        /\ guesses' = guesses \cup {[claim |-> c, slot |-> s, at |-> now, burned |-> won]}
    BY DEF AttachClaimSocket
  <1> HIDE DEF won
  <1> QED BY <1>1, <1>2, <1>4, <1>5

-----------------------------------------------------------------------------
\* A claim guesses once, and what it burned names it for ever.
GuessInv ==
    /\ \A g \in guesses : claimant[g.claim] # "none"
    /\ \A g, h \in guesses : g.claim = h.claim => g = h
    /\ \A g \in guesses : \A m \in g.burned : claimedBy[m] = g.claim

\* No step offers a code to a second claim.
LEMMA GuessStep == TypeInv /\ GuessInv /\ [Next]_vars => GuessInv'
  <1> SUFFICES ASSUME TypeInv, GuessInv, [Next]_vars PROVE GuessInv'
    OBVIOUS
  <1>a. \A g \in guesses : g.claim \in Claims /\ g.burned \subseteq Mailboxes
    BY DEF TypeInv, TypeOK
  <1>1. ASSUME NEW c \in Claims, AttachClaimSocket(c) PROVE GuessInv'
    <2>1. PICK won \in SUBSET Mailboxes :
             /\ claimant[c] = "none" /\ claimant'[c] # "none"
             /\ \A d \in Claims \ {c} : claimant'[d] = claimant[d]
             /\ \A m \in won : claimedBy[m] = None /\ claimedBy'[m] = c
             /\ \A m \in Mailboxes \ won : claimedBy'[m] = claimedBy[m]
             /\ guesses' = guesses \cup {[claim |-> c, slot |-> claimSlot[c],
                                          at |-> now, burned |-> won]}
      BY <1>1, AttachStep
    <2>2. \A g \in guesses : g.claim # c
      BY <2>1 DEF GuessInv
    <2>3. \A g \in guesses : \A m \in g.burned : m \notin won
      BY <2>1, <1>a, PairingAssumption DEF GuessInv
    <2>4. \A g \in guesses' : claimant'[g.claim] # "none"
      BY <2>1, <2>2, <1>a DEF GuessInv
    <2>5. \A g, h \in guesses' : g.claim = h.claim => g = h
      BY <2>1, <2>2, <1>a DEF GuessInv
    <2>6. \A g \in guesses' : \A m \in g.burned : claimedBy'[m] = g.claim
      BY <2>1, <2>3, <1>a DEF GuessInv
    <2> QED BY <2>4, <2>5, <2>6 DEF GuessInv
  <1>2. CASE ~\E c \in Claims : AttachClaimSocket(c)
    BY <1>2, <1>a, QuietStep DEF GuessInv, Quiet
  <1> QED BY <1>1, <1>2

\* One guess per code, for any number of mailboxes, claims and slots
\* (mailbox.ts:67-78, claimMailbox's compare-and-set at 230-235).
THEOREM OneGuess == Spec => []OneGuessPerCode
  <1>1. Init => GuessInv BY DEF Init, GuessInv
  <1>2. GuessInv => OneGuessPerCode BY DEF GuessInv, OneGuessPerCode
  <1> QED BY <1>1, <1>2, TypeInit, TypeStep, GuessStep, PTL DEF Spec

-----------------------------------------------------------------------------
(***************************************************************************)
(* The budgets.  The limiters remember every guess that is still inside    *)
(* the window, so what they allow bounds the guesses in every window.      *)
(***************************************************************************)
Remembers(G, hits) ==
    \A g \in G : now < g.at + Window => <<g.claim, g.at>> \in hits

BudgetInv ==
    /\ \A g \in guesses : g.at <= now
    /\ Remembers(guesses, globalHits)
    /\ \A s \in Slots : Remembers({g \in guesses : g.slot = s}, slotHits[s])
    /\ GuessBudget

\* Hits are finitely many, and a limiter that says yes has room for one more.
LEMMA TakeBound ==
    ASSUME TypeOK, NEW hits \in SUBSET (Claims \X (0 .. MaxTime)),
           NEW limit \in Nat, MayTake(hits, limit), NEW c \in Claims,
           NEW T, T \subseteq Take(hits, c)
    PROVE  Cardinality(T) <= limit
  <1>1. IsFiniteSet(Claims \X (0 .. MaxTime))
    <2>1. IsFiniteSet(0 .. MaxTime) BY PairingAssumption, FS_Interval
    <2> QED BY <2>1, PairingAssumption, FS_Product, Zenon
  <1>2. IsFiniteSet(Prune(hits)) /\ Cardinality(Prune(hits)) \in Nat
    BY <1>1, FS_Subset, FS_CardinalityType, LimiterType
  <1>3. IsFiniteSet(Take(hits, c)) /\ Cardinality(Take(hits, c)) \in Nat
    BY <1>2, FS_AddElement, FS_CardinalityType DEF Take
  <1>4. Cardinality(Take(hits, c)) <= Cardinality(Prune(hits)) + 1
    <2>1. Cardinality(Prune(hits) \cup {<<c, now>>}) =
            IF <<c, now>> \in Prune(hits) THEN Cardinality(Prune(hits))
                                         ELSE Cardinality(Prune(hits)) + 1
      BY <1>2, FS_AddElement, Zenon
    <2> QED BY <1>2, <2>1 DEF Take
  <1>5. Cardinality(Prune(hits)) < limit
    BY DEF MayTake
  <1>6. Cardinality(T) <= Cardinality(Take(hits, c)) /\ Cardinality(T) \in Nat
    BY <1>3, FS_Subset, FS_CardinalityType
  <1> QED BY <1>2, <1>3, <1>4, <1>5, <1>6

\* One more guess keeps every window of a set of guesses within the limit.
LEMMA OneMoreGuess ==
    ASSUME TypeOK, NEW G \in SUBSET guesses, NEW g,
           g \in [claim: Claims, slot: Slots, at: 0 .. MaxTime, burned: SUBSET Mailboxes],
           g.at = now,
           NEW hits \in SUBSET (Claims \X (0 .. MaxTime)), NEW limit \in Nat,
           MayTake(hits, limit), Remembers(G, hits),
           \A h \in G : h.at <= now,
           NEW t \in 0 .. MaxTime, Cardinality(GuessesAt(G, t)) <= limit
    PROVE  Cardinality(GuessesAt(G \cup {g}, t)) <= limit
  <1>a. now \in Nat /\ Window \in Nat /\ MaxTime \in Nat
    BY PairingAssumption DEF TypeOK
  <1>b. \A h \in G : h.at \in Nat
    BY DEF TypeOK
  <1>1. CASE t < now
    <2>1. ~InWindow(g, t)
      BY <1>1, <1>a DEF InWindow
    <2>2. {h \in G \cup {g} : InWindow(h, t)} = {h \in G : InWindow(h, t)}
      BY <2>1
    <2>3. GuessesAt(G \cup {g}, t) = GuessesAt(G, t)
      BY <2>2 DEF GuessesAt
    <2> QED BY <2>3
  <1>2. CASE t >= now
    <2>1. \A h \in G : InWindow(h, t) => <<h.claim, h.at>> \in Prune(hits)
      BY <1>2, <1>a, <1>b DEF InWindow, Remembers, Prune
    <2>2. GuessesAt(G \cup {g}, t) \subseteq Take(hits, g.claim)
      BY <2>1 DEF GuessesAt, Take
    <2> QED BY <2>2, TakeBound
  <1> QED BY <1>1, <1>2, <1>a

\* No step lets more guesses through than a window allows.
LEMMA BudgetStep == TypeInv /\ BudgetInv /\ [Next]_vars => BudgetInv'
  <1> SUFFICES ASSUME TypeInv, BudgetInv, [Next]_vars PROVE BudgetInv'
    OBVIOUS
  <1>a. now \in Nat /\ Window \in Nat /\ MaxTime \in Nat /\ now' \in Nat
    BY TypeStep, PairingAssumption DEF TypeInv, TypeOK
  <1>b. \A g \in guesses : g.at \in Nat /\ g.claim \in Claims /\ g.slot \in Slots
    BY DEF TypeInv, TypeOK
  <1>c. /\ globalHits \in SUBSET (Claims \X (0 .. MaxTime))
        /\ \A s \in Slots : slotHits[s] \in SUBSET (Claims \X (0 .. MaxTime))
    BY DEF TypeInv, TypeOK
  <1>1. ASSUME NEW c \in Claims, AttachClaimSocket(c) PROVE BudgetInv'
    <2> DEFINE sl == claimSlot[c]
    <2>1. PICK won \in SUBSET Mailboxes :
             /\ sl \in Slots
             /\ guesses' = guesses \cup {[claim |-> c, slot |-> sl,
                                          at |-> now, burned |-> won]}
      BY <1>1, AttachStep
    <2> DEFINE g == [claim |-> c, slot |-> sl, at |-> now, burned |-> won]
    <2>2. /\ g \in [claim: Claims, slot: Slots, at: 0 .. MaxTime, burned: SUBSET Mailboxes]
          /\ g.at = now /\ g.claim = c /\ g.slot = sl
          /\ guesses' = guesses \cup {g}
      BY <2>1 DEF TypeInv, TypeOK
    <2>3. /\ now' = now
          /\ MayTake(slotHits[sl], SlotLimit)
          /\ MayTake(globalHits, GlobalLimit)
          /\ slotHits' = [slotHits EXCEPT ![sl] = Take(@, c)]
          /\ globalHits' = Take(globalHits, c)
      BY <1>1 DEF AttachClaimSocket
    <2>4. /\ slotHits'[sl] = Take(slotHits[sl], c)
          /\ \A s \in Slots \ {sl} : slotHits'[s] = slotHits[s]
      BY <2>1, <2>3 DEF TypeInv, TypeOK
    <2> HIDE DEF g, sl
    <2>5. \A h \in guesses' : h.at <= now'
      BY <2>2, <2>3, <1>a DEF BudgetInv
    <2>6. ASSUME NEW G, Remembers(G, globalHits), G \subseteq guesses
          PROVE  Remembers(G \cup {g}, Take(globalHits, c))
      BY <2>2, <2>6, <1>a, <1>b DEF Remembers, Take, Prune
    <2>7. Remembers(guesses, globalHits)' 
      BY <2>2, <2>3, <2>6 DEF BudgetInv, Remembers
    <2>8. ASSUME NEW s \in Slots
          PROVE  Remembers({h \in guesses : h.slot = s}, slotHits[s])'
      <3>1. CASE s = sl
        BY <3>1, <2>2, <2>3, <2>4, <1>a, <1>b DEF BudgetInv, Remembers, Take, Prune
      <3>2. CASE s # sl
        BY <3>2, <2>2, <2>3, <2>4 DEF BudgetInv, Remembers
      <3> QED BY <3>1, <3>2
    <2>9. ASSUME NEW t \in 0 .. MaxTime
          PROVE  Cardinality(GuessesAt(guesses', t)) <= GlobalLimit
      <3>1. /\ Cardinality(GuessesAt(guesses, t)) <= GlobalLimit
            /\ Remembers(guesses, globalHits) /\ \A h \in guesses : h.at <= now
            /\ TypeOK /\ GlobalLimit \in Nat
        BY PairingAssumption DEF BudgetInv, GuessBudget, TypeInv
      <3> QED BY <3>1, <2>2, <2>3, <1>c, OneMoreGuess
    <2>10. ASSUME NEW t \in 0 .. MaxTime, NEW s \in Slots
          PROVE  Cardinality(GuessesAt({h \in guesses' : h.slot = s}, t)) <= SlotLimit
      <3> DEFINE G == {h \in guesses : h.slot = s}
      <3>1. /\ Cardinality(GuessesAt(G, t)) <= SlotLimit
            /\ Remembers(G, slotHits[s]) /\ \A h \in G : h.at <= now
            /\ G \in SUBSET guesses
            /\ TypeOK /\ SlotLimit \in Nat
        BY PairingAssumption DEF BudgetInv, GuessBudget, TypeInv
      <3>2. CASE s = sl
        <4>1. {h \in guesses' : h.slot = s} = G \cup {g}
          BY <3>2, <2>2
        <4> HIDE DEF G
        <4> QED BY <3>1, <3>2, <4>1, <2>2, <2>3, <1>c, OneMoreGuess
      <3>3. CASE s # sl
        <4>1. {h \in guesses' : h.slot = s} = G
          BY <3>3, <2>2
        <4> QED BY <3>1, <4>1
      <3> QED BY <3>2, <3>3
    <2>11. GuessBudget'
      BY <2>9, <2>10 DEF GuessBudget, GuessesAt, InWindow
    <2> QED BY <2>5, <2>7, <2>8, <2>11 DEF BudgetInv
  <1>2. CASE ~\E c \in Claims : AttachClaimSocket(c)
    <2>1. Quiet BY <1>2, QuietStep
    <2>2. \A h \in guesses : now' < h.at + Window => now < h.at + Window
      BY <2>1, <1>a, <1>b DEF Quiet
    <2>3. Remembers(guesses, globalHits)'
      BY <2>1, <2>2, <1>a, <1>b DEF Quiet, BudgetInv, Remembers, Prune
    <2>4. ASSUME NEW s \in Slots
          PROVE  Remembers({h \in guesses : h.slot = s}, slotHits[s])'
      BY <2>1, <2>2, <1>a, <1>b DEF Quiet, BudgetInv, Remembers, Prune
    <2>5. \A h \in guesses' : h.at <= now'
      BY <2>1, <1>a, <1>b DEF Quiet, BudgetInv
    <2>6. GuessBudget'
      BY <2>1 DEF Quiet, BudgetInv, GuessBudget, GuessesAt, InWindow
    <2> QED BY <2>3, <2>4, <2>5, <2>6 DEF BudgetInv
  <1> QED BY <1>1, <1>2

\* Nothing was guessed yet.
LEMMA BudgetInit == Init => BudgetInv
  <1> SUFFICES ASSUME Init PROVE BudgetInv
    OBVIOUS
  <1>1. guesses = {} BY DEF Init
  <1>2. \A t : GuessesAt({}, t) = {}
    BY DEF GuessesAt
  <1>3. \A s \in Slots : {g \in guesses : g.slot = s} = {}
    BY <1>1
  <1>4. GuessBudget
    BY <1>1, <1>2, <1>3, FS_EmptySet, PairingAssumption DEF GuessBudget
  <1> QED BY <1>1, <1>4 DEF BudgetInv, Remembers

\* The guessing budgets hold in every window, for any limits and any number of
\* clients (rate-limit.ts:30-55 as charged in attachClaimSocket).
THEOREM Budget == Spec => []GuessBudget
  <1>1. BudgetInv => GuessBudget BY DEF BudgetInv
  <1> QED BY <1>1, TypeInit, TypeStep, BudgetInit, BudgetStep, PTL DEF Spec
-----------------------------------------------------------------------------
(***************************************************************************)
(* Pairing implements OneShotCodes.  Only POST /v1/pair/new adds to the    *)
(* store, only attachClaimSocket burns, and every other handler at most    *)
(* forgets mailboxes, which retires their codes.                           *)
(***************************************************************************)
Forgets ==
    /\ UNCHANGED <<now, slotOf, claimedBy, guesses>>
    /\ store' \subseteq store

\* Every step but minting, attaching and the clock can only forget codes.
LEMMA ForgetsStep ==
    ASSUME TypeInv, [Next]_vars, ~Tick,
           ~\E m \in Mailboxes, s \in Slots, vain \in SUBSET Slots : PairNew(m, s, vain),
           ~\E c \in Claims : AttachClaimSocket(c)
    PROVE  Forgets
  <1> USE DEF Forgets
  <1>1. ASSUME NEW vain \in SUBSET Slots, PairNewBusy(vain) PROVE Forgets
    BY <1>1 DEF PairNewBusy, limitVars
  <1>2. ASSUME NEW c \in Claims, NEW s \in Slots, PairClaim(c, s) PROVE Forgets
    BY <1>2 DEF PairClaim, storeVars, limitVars
  <1>3. ASSUME NEW m \in Mailboxes, HolderStep(m) PROVE Forgets
    <2>1. UNCHANGED <<now, slotOf, claimedBy, guesses>>
      BY <1>3, Zenon DEF HolderStep, AttachMailboxSocket, AttachMailboxRefused,
        HolderPairClose, HolderSends, HolderMisspeaks, HolderSocketCloses,
        storeVars, limitVars
    <2>2. store' \in {store, store \ {m}}
      BY <1>3, Zenon DEF HolderStep, AttachMailboxSocket, AttachMailboxRefused,
        HolderPairClose, HolderSends, HolderMisspeaks, HolderSocketCloses, storeVars
    <2> QED BY <2>1, <2>2
  <1>4. ASSUME NEW c \in Claims, ClaimStep(c) PROVE Forgets
    <2>1. UNCHANGED <<now, slotOf, claimedBy, guesses>>
      BY <1>4, Zenon DEF ClaimStep, AttachClaimExpired, AttachClaimLimited,
         ClaimPairClosePeer, ClaimPairClose, ClaimSends, ClaimMisspeaks,
         ClaimSocketCloses, storeVars, limitVars
    <2>2. ASSUME NEW m \in Mailboxes, ClaimPairClosePeer(c, m)
          PROVE  store' \subseteq store
      BY <2>2 DEF ClaimPairClosePeer
    <2>3. ASSUME NEW m \in Mailboxes, NEW kind \in {"confirm", "over"},
                 ClaimSends(c, m, kind)
          PROVE  store' \subseteq store
      BY <2>3 DEF ClaimSends
    <2>4. CASE ClaimSocketCloses(c)
      BY <2>1, <2>4 DEF ClaimSocketCloses
    <2>5. CASE AttachClaimExpired(c) \/ AttachClaimLimited(c) \/ ClaimPairClose(c)
                 \/ ClaimMisspeaks(c)
      <3>1. store' = store
        BY <2>5, Zenon DEF AttachClaimExpired, AttachClaimLimited, ClaimPairClose,
           ClaimMisspeaks, storeVars
      <3> QED BY <2>1, <3>1
    <2> QED BY <1>4, <2>1, <2>2, <2>3, <2>4, <2>5 DEF ClaimStep
  <1>5. CASE Sweep
    BY <1>5 DEF Sweep, limitVars
  <1>6. CASE UNCHANGED vars
    BY <1>6 DEF vars, storeVars, limitVars
  <1> QED BY <1>1, <1>2, <1>3, <1>4, <1>5, <1>6 DEF Next

\* The store holds created mailboxes only, and only those are burned.
CodesInv ==
    \A m \in Mailboxes :
        m \in store \/ claimedBy[m] # None => slotOf[m] \in Slots

\* What AttachClaimSocket burns: live codes of the claim's slot.
LEMMA BurnsLive ==
    ASSUME TypeInv, NEW s, NEW m \in FanOut(s)
    PROVE  m \in store /\ m \notin PrunedIn({s}) /\ claimedBy[m] = None /\ slotOf[m] = s
  BY DEF FanOut, LiveMailboxesForSlot, OnSlot, PrunedIn, TypeInv, TypeOK

\* No step breaks what ties the codes to the mailboxes.
LEMMA CodesStep == TypeInv /\ CodesInv /\ [Next]_vars => CodesInv'
  <1> SUFFICES ASSUME TypeInv, CodesInv, [Next]_vars PROVE CodesInv'
    OBVIOUS
  <1>1. ASSUME NEW m \in Mailboxes, NEW s \in Slots, NEW vain \in SUBSET Slots,
               PairNew(m, s, vain)
        PROVE  CodesInv'
    BY <1>1 DEF PairNew, CodesInv, TypeInv, TypeOK
  <1>2. ASSUME NEW c \in Claims, AttachClaimSocket(c) PROVE CodesInv'
    <2> DEFINE s == claimSlot[c]
               won == IF c \in payloads THEN FanOut(s) ELSE {}
    <2>1. \A m \in won : m \in store
      BY BurnsLive
    <2>2. /\ UNCHANGED slotOf /\ store' \subseteq store
          /\ claimedBy' = [m \in Mailboxes |-> IF m \in won THEN c ELSE claimedBy[m]]
      BY <1>2 DEF AttachClaimSocket
    <2> HIDE DEF won
    <2> QED BY <2>1, <2>2 DEF CodesInv
  <1>3. CASE Tick
    BY <1>3 DEF Tick, storeVars, CodesInv
  <1>4. CASE Forgets
    BY <1>4 DEF Forgets, CodesInv
  <1> QED BY <1>1, <1>2, <1>3, <1>4, ForgetsStep

\* The initial state maps to an initial state of OneShotCodes.
LEMMA CodesInit == Init => CodesInv /\ Codes!Init
  <1> SUFFICES ASSUME Init PROVE CodesInv /\ Codes!Init
    OBVIOUS
  <1>1. CodesInv BY DEF Init, CodesInv
  <1>2. CodeStatus = [m \in Mailboxes |-> "unborn"]
    BY DEF Init, CodeStatus
  <1> QED BY <1>1, <1>2 DEF Init, Codes!Init

\* OneShotCodes counts with the same Cardinality.
LEMMA SameCount == \A S : Codes!Cardinality(S) = Cardinality(S)
  BY DEF Cardinality, Codes!Cardinality

\* A limiter that remembers a set of guesses and has room for one more shows
\* that fewer than `limit` of them are recent.
LEMMA RoomForOne ==
    ASSUME TypeInv, NEW G \in SUBSET guesses,
           NEW hits \in SUBSET (Claims \X (0 .. MaxTime)), NEW limit \in Nat,
           Remembers(G, hits), MayTake(hits, limit)
    PROVE  Codes!Cardinality(Codes!Recent(G)) < limit
  <1>1. IsFiniteSet(Claims \X (0 .. MaxTime))
    <2>1. IsFiniteSet(0 .. MaxTime) BY PairingAssumption, FS_Interval
    <2> QED BY <2>1, PairingAssumption, FS_Product, Zenon
  <1>2. IsFiniteSet(Prune(hits)) /\ Cardinality(Prune(hits)) \in Nat
    <2>1. Prune(hits) \subseteq Claims \X (0 .. MaxTime) BY DEF Prune
    <2> QED BY <1>1, <2>1, FS_Subset, FS_CardinalityType
  <1>3. Codes!Recent(G) \subseteq Prune(hits)
    <2>1. now \in Nat /\ Window \in Nat /\ \A g \in G : g.at \in Nat
      BY PairingAssumption DEF TypeInv, TypeOK
    <2> QED BY <2>1 DEF Codes!Recent, Remembers, Prune
  <1>4. Cardinality(Codes!Recent(G)) <= Cardinality(Prune(hits))
        /\ Cardinality(Codes!Recent(G)) \in Nat
    BY <1>2, <1>3, FS_Subset, FS_CardinalityType
  <1>5. Cardinality(Codes!Recent(G)) < limit BY <1>2, <1>4 DEF MayTake
  <1> QED BY <1>5, SameCount

\* Every step maps to a step of OneShotCodes or to a stutter.
LEMMA CodesNext ==
    TypeInv /\ CodesInv /\ BudgetInv /\ [Next]_vars => [Codes!Next]_(Codes!vars)
  <1> SUFFICES ASSUME TypeInv, CodesInv, BudgetInv, [Next]_vars
               PROVE  [Codes!Next]_(Codes!vars)
    OBVIOUS
  <1>1. ASSUME NEW m \in Mailboxes, NEW s \in Slots, NEW vain \in SUBSET Slots,
               PairNew(m, s, vain)
        PROVE  Codes!Next
    <2> DEFINE gone == PrunedIn(vain \cup {s})
    <2>1. /\ slotOf[m] = None /\ m \notin store /\ claimedBy[m] = None
          /\ gone \subseteq store
      BY <1>1, PairingAssumption DEF PairNew, CodesInv, PrunedIn, ExpiredMailboxes
    <2>2. /\ store' = (store \ gone) \cup {m}
          /\ slotOf' = [slotOf EXCEPT ![m] = s]
          /\ UNCHANGED <<now, claimedBy, guesses>>
      BY <1>1 DEF PairNew, limitVars
    <2> HIDE DEF gone
    <2>3. CodeStatus[m] = "unborn" /\ gone \subseteq Codes!Out
      BY <2>1, PairingAssumption DEF CodeStatus, CodesInv, Codes!Out, TypeInv, TypeOK
    <2>4. CodeStatus' = Codes!Becoming({m}, "live", gone)
      BY <2>1, <2>2, PairingAssumption DEF CodeStatus, Codes!Becoming, CodesInv, TypeInv, TypeOK
    <2>5. Codes!Issue(m, s, gone)
      BY <2>2, <2>3, <2>4 DEF Codes!Issue
    <2> QED BY <2>1, <2>5 DEF Codes!Next, TypeInv, TypeOK
  <1>2. ASSUME NEW c \in Claims, AttachClaimSocket(c) PROVE Codes!Next
    <2> DEFINE s == claimSlot[c]
               won == IF c \in payloads THEN FanOut(s) ELSE {}
               gone == PrunedIn({s})
    <2>1. s \in Slots
      BY <1>2 DEF AttachClaimSocket, MayAttach, HasClaim, TypeInv
    <2>2. /\ gone \subseteq store
          /\ \A m \in won : m \in store /\ m \notin gone /\ claimedBy[m] = None /\ slotOf[m] = s
      BY BurnsLive DEF PrunedIn, ExpiredMailboxes
    <2>3. /\ store' = store \ gone
          /\ claimedBy' = [m \in Mailboxes |-> IF m \in won THEN c ELSE claimedBy[m]]
          /\ guesses' = guesses \cup {[claim |-> c, slot |-> s, at |-> now, burned |-> won]}
          /\ UNCHANGED <<now, slotOf>>
          /\ MayTake(slotHits[s], SlotLimit) /\ MayTake(globalHits, GlobalLimit)
      BY <1>2 DEF AttachClaimSocket
    <2> HIDE DEF s, won, gone
    <2>4. Codes!Cardinality(Codes!Recent(guesses)) < GlobalLimit
      <3>1. guesses \in SUBSET guesses /\ GlobalLimit \in Nat
            /\ globalHits \in SUBSET (Claims \X (0 .. MaxTime))
        BY PairingAssumption DEF TypeInv, TypeOK
      <3>2. Remembers(guesses, globalHits) BY DEF BudgetInv
      <3> QED BY <2>3, <3>1, <3>2, RoomForOne
    <2>5. Codes!Cardinality(Codes!Recent({t \in guesses : t.slot = s})) < SlotLimit
      <3>1. Remembers({t \in guesses : t.slot = s}, slotHits[s])
        BY <2>1 DEF BudgetInv
      <3>2. slotHits[s] \in SUBSET (Claims \X (0 .. MaxTime))
        BY <2>1 DEF TypeInv, TypeOK
      <3>3. {t \in guesses : t.slot = s} \in SUBSET guesses /\ SlotLimit \in Nat
        BY PairingAssumption
      <3> QED BY <2>3, <3>1, <3>2, <3>3, RoomForOne
    <2>6. gone \subseteq Codes!Out
      BY <2>2, PairingAssumption DEF Codes!Out, CodeStatus, CodesInv, TypeInv, TypeOK
    <2>7. \A k \in won : CodeStatus[k] = "live" /\ slotOf[k] = s /\ k \notin gone
      BY <2>1, <2>2, PairingAssumption DEF CodeStatus, TypeInv, TypeOK
    <2>8. CodeStatus' = Codes!Becoming(won, "spent", gone)
      <3>1. ASSUME NEW k \in Mailboxes
            PROVE  CodeStatus'[k] = IF k \in won THEN "spent"
                                    ELSE IF k \in gone THEN "retired" ELSE CodeStatus[k]
        BY <2>1, <2>2, <2>3, PairingAssumption DEF CodeStatus, CodesInv, TypeInv, TypeOK
      <3> QED BY <3>1 DEF Codes!Becoming, CodeStatus
    <2>9. Codes!Guess(c, s, won, gone)
      BY <2>3, <2>4, <2>5, <2>6, <2>7, <2>8, Zenon DEF Codes!Guess
    <2>10. won \in SUBSET Mailboxes /\ gone \in SUBSET Mailboxes
      BY <2>2 DEF TypeInv, TypeOK
    <2> QED BY <2>1, <2>9, <2>10 DEF Codes!Next
  <1>3. CASE Tick
    BY <1>3 DEF Tick, storeVars, limitVars, Codes!Next, Codes!Pass, CodeStatus
  <1>4. CASE Forgets
    <2> DEFINE gone == store \ store'
    <2>1. gone \subseteq Codes!Out
      BY PairingAssumption DEF Codes!Out, CodeStatus, CodesInv, TypeInv, TypeOK
    <2>2. CodeStatus' = Codes!Becoming({}, "retired", gone)
      BY <1>4, PairingAssumption DEF Forgets, CodeStatus, Codes!Becoming, CodesInv, TypeInv, TypeOK
    <2>3. Codes!Retire(gone)
      BY <1>4, <2>1, <2>2 DEF Forgets, Codes!Retire
    <2> QED BY <2>1, <2>3 DEF Codes!Next, TypeInv, TypeOK
  <1> QED BY <1>1, <1>2, <1>3, <1>4, ForgetsStep

\* The broker implements one-shot codes under a budget, for any constants:
\* every handler is one step of OneShotCodes or leaves it alone
\* (mailbox.ts:67-78, broker.ts:211-231).
THEOREM Implements == Spec => ImplementsOneShotCodes
  <1> QED BY TypeInit, TypeStep, BudgetInit, BudgetStep, CodesInit, CodesStep,
             CodesNext, PTL DEF Spec, ImplementsOneShotCodes, Codes!Spec
-----------------------------------------------------------------------------
(***************************************************************************)
(* Each side reaches the other or is told.  A mailbox that nobody claimed  *)
(* is untouched; one that was claimed is routed to its claim as long as    *)
(* the store has it, outlives neither its claim's deadline nor its claim's *)
(* socket, and its holder has the share, is about to find it in the        *)
(* buffer, or can never come back.                                         *)
(***************************************************************************)
Unborn(m) ==
    slotOf[m] = None => /\ m \notin store
                        /\ claimedBy[m] = None
                        /\ holder[m] = "none"

Untouched(m) ==
    claimedBy[m] = None => /\ toHolder[m] = {}
                           /\ pending[m] = <<>>
                           /\ ~established[m]

\* The claim's deadline, set when it burned the mailbox, is the later one.
Deadlines(m) ==
    /\ expiresAt[m] <= now + MailboxTtl
    /\ claimedBy[m] # None => expiresAt[m] <= claimExpires[claimedBy[m]]

Routed(m) ==
    claimedBy[m] # None =>
        /\ claimant[claimedBy[m]] # "none"
        /\ m \in store => /\ m \in peers[claimedBy[m]]
                          /\ claimant[claimedBy[m]] # "closed"

\* A connected holder whose mailbox is gone knows why.
Ended(m) ==
    holder[m] = "open" /\ m \notin store =>
        "over" \in toHolder[m] \/ m \in paired \/ expiresAt[m] <= now

Buffered(m) == {pending[m][i] : i \in DOMAIN pending[m]}

\* The share reached the holder, is buffered for it, or the holder is gone or
\* going with the mailbox.
ShareHeard(m) ==
    /\ toHolder[m] # {} => "share" \in toHolder[m]
    /\ claimedBy[m] # None =>
         \/ "share" \in toHolder[m]
         \/ holder[m] = "none" /\ ("share" \in Buffered(m) \/ m \notin store)
         \/ holder[m] = "closing" /\ ~established[m]

HearsMailbox(m) ==
    /\ holder[m] # "closed"
    /\ Unborn(m) /\ Untouched(m) /\ Deadlines(m)
    /\ Routed(m) /\ Ended(m) /\ ShareHeard(m)

\* An attached claim is known until its deadline.
HearsClaim(c) ==
    /\ claimSlot[c] = None => claimant[c] = "none"
    /\ claimant[c] = "open" => c \in claims \/ claimExpires[c] <= now

HearInv ==
    /\ \A m \in Mailboxes : HearsMailbox(m)
    /\ \A c \in Claims : HearsClaim(c)

\* deliver(), seen from one mailbox.
LEMMA DeliverEffect ==
    ASSUME TypeInv, NEW M, NEW kind \in Kinds, Deliver(M, kind), NEW x \in Mailboxes
    PROVE  /\ toHolder[x] \subseteq toHolder'[x]
           /\ x \in M /\ holder[x] = "open" => kind \in toHolder'[x]
           /\ x \notin M \/ holder[x] # "open" => toHolder'[x] = toHolder[x]
           /\ x \notin M => pending'[x] = pending[x]
           /\ Buffered(x) \subseteq Buffered(x)'
           /\ x \in M /\ holder[x] = "none" /\ pending[x] = <<>>
                => kind \in Buffered(x)'
  <1>1. /\ toHolder[x] \subseteq toHolder'[x]
        /\ x \in M /\ holder[x] = "open" => kind \in toHolder'[x]
        /\ x \notin M \/ holder[x] # "open" => toHolder'[x] = toHolder[x]
        /\ x \notin M => pending'[x] = pending[x]
    BY DEF Deliver, TypeInv, TypeOK
  <1>2. pending[x] \in Seq(Kinds) BY DEF TypeInv, TypeOK
  <1>3. CASE pending'[x] = pending[x] /\ ~(x \in M /\ holder[x] = "none" /\ pending[x] = <<>>)
    BY <1>1, <1>3 DEF Buffered
  <1>4. CASE pending'[x] = Append(pending[x], kind)
    <2>1. /\ DOMAIN pending[x] = 1 .. Len(pending[x])
          /\ DOMAIN pending'[x] = 1 .. (Len(pending[x]) + 1)
          /\ Len(pending[x]) \in Nat
          /\ \A i \in 1 .. Len(pending[x]) : pending'[x][i] = pending[x][i]
          /\ pending'[x][Len(pending[x]) + 1] = kind
      BY <1>2, <1>4
    <2>2. kind \in Buffered(x)'
      BY <2>1 DEF Buffered
    <2>3. Buffered(x) \subseteq Buffered(x)'
      BY <2>1 DEF Buffered
    <2> QED BY <1>1, <2>2, <2>3
  <1>5. x \in M /\ holder[x] = "none" /\ pending[x] = <<>>
          => pending'[x] = Append(pending[x], kind)
    <2>1. Len(<<>>) = 0 OBVIOUS
    <2>2. 0 < MaxPending BY PairingAssumption
    <2> QED BY <2>1, <2>2 DEF Deliver
  <1>6. pending'[x] = pending[x] \/ pending'[x] = Append(pending[x], kind)
    BY DEF Deliver
  <1> QED BY <1>3, <1>4, <1>5, <1>6

\* A step that neither creates, burns nor moves the holder's socket of a
\* mailbox keeps its part of the invariant if what it drops is accounted for.
LEMMA MailboxKept ==
    ASSUME NEW x \in Mailboxes, HearsMailbox(x),
           now \in Nat, now' \in Nat, now <= now', MailboxTtl \in Nat,
           expiresAt[x] \in Nat,
           slotOf'[x] = slotOf[x], expiresAt'[x] = expiresAt[x],
           claimedBy'[x] = claimedBy[x], holder'[x] = holder[x],
           paired \subseteq paired',
           toHolder[x] \subseteq toHolder'[x],
           toHolder'[x] # toHolder[x] => "share" \in toHolder'[x],
           Buffered(x) \subseteq Buffered(x)',
           claimedBy[x] = None => /\ toHolder'[x] = toHolder[x]
                                  /\ pending'[x] = pending[x],
           established'[x] = established[x] \/
               ("share" \in toHolder[x] /\ claimedBy[x] # None),
           x \in store' => x \in store,
           x \in store /\ x \notin store' =>
               \/ holder[x] # "open"
               \/ expiresAt[x] <= now
               \/ "over" \in toHolder'[x]
               \/ x \in paired',
           claimedBy[x] # None =>
               /\ claimExpires'[claimedBy[x]] = claimExpires[claimedBy[x]]
               /\ claimant'[claimedBy[x]] # "none"
               /\ x \in store' => /\ x \in peers'[claimedBy[x]]
                                  /\ claimant'[claimedBy[x]] # "closed"
    PROVE  HearsMailbox(x)'
  <1> USE DEF HearsMailbox
  <1>1. Unborn(x)' BY DEF Unborn
  <1>2. Untouched(x)' BY DEF Untouched
  <1>3. Deadlines(x)' BY DEF Deadlines
  <1>4. Routed(x)' BY DEF Routed
  <1>5. Ended(x)' BY DEF Ended
  <1>6. ShareHeard(x)' BY DEF ShareHeard
  <1> QED BY <1>1, <1>2, <1>3, <1>4, <1>5, <1>6

\* A claimant's way to its holders survives every step.
LEMMA HearsClaimStep ==
    ASSUME TypeInv, HearInv, [Next]_vars, NEW d \in Claims
    PROVE  HearsClaim(d)'
  <1> USE DEF HearsClaim
  <1>a. now \in Nat /\ HearsClaim(d) /\ claimExpires \in [Claims -> Nat]
    BY PairingAssumption DEF TypeInv, TypeOK, HearInv
  <1>b. /\ claimSlot \in [Claims -> Slots \cup {None}]
        /\ claimant \in [Claims -> SocketState]
    BY DEF TypeInv, TypeOK
  <1>1. ASSUME NEW m \in Mailboxes, NEW s \in Slots, NEW vain \in SUBSET Slots,
               PairNew(m, s, vain)
        PROVE  HearsClaim(d)'
    BY <1>1, <1>a DEF PairNew, claimVars
  <1>2. ASSUME NEW vain \in SUBSET Slots, PairNewBusy(vain) PROVE HearsClaim(d)'
    BY <1>2, <1>a DEF PairNewBusy, claimVars
  <1>3. ASSUME NEW c \in Claims, NEW s \in Slots, PairClaim(c, s) PROVE HearsClaim(d)'
    BY <1>3, <1>a, <1>b, PairingAssumption DEF PairClaim
  <1>4. ASSUME NEW m \in Mailboxes, HolderStep(m) PROVE HearsClaim(d)'
    <2>1. UNCHANGED <<now, claimSlot, claimant, claimExpires>>
      BY <1>4, Zenon DEF HolderStep, AttachMailboxSocket, AttachMailboxRefused,
        HolderPairClose, HolderSends, HolderMisspeaks, HolderSocketCloses, claimVars
    <2>2. claims' = claims \/ claims' = claims \ (ExpiredClaims \cap {claimedBy[m]})
      BY <1>4, Zenon DEF HolderStep, AttachMailboxSocket, AttachMailboxRefused,
        HolderPairClose, HolderSends, HolderMisspeaks, HolderSocketCloses, claimVars
    <2> QED BY <2>1, <2>2, <1>a DEF ExpiredClaims
  <1>5. ASSUME NEW c \in Claims, ClaimStep(c) PROVE HearsClaim(d)'
    <2>1. CASE AttachClaimExpired(c)
      BY <2>1, <1>a DEF AttachClaimExpired, HasClaim, ExpiredClaims
    <2>2. CASE AttachClaimLimited(c)
      <3>1. claimSlot[c] \in Slots
        BY <2>2 DEF AttachClaimLimited, MayAttach, HasClaim, TypeInv
      <3> QED BY <2>2, <3>1, <1>a, <1>b, PairingAssumption
            DEF AttachClaimLimited, RefuseClaim
    <2>3. CASE AttachClaimSocket(c)
      <3>1. /\ claimSlot[c] \in Slots /\ c \in claims
            /\ UNCHANGED <<now, claimSlot>>
            /\ claimExpires' = [claimExpires EXCEPT ![c] = now + MailboxTtl]
        BY <2>3 DEF AttachClaimSocket, MayAttach, HasClaim, TypeInv, ExtendClaim
      <3>2. \/ claims' = claims /\ claimant' = [claimant EXCEPT ![c] = "open"]
            \/ claims' = claims \ {c} /\ claimant' = [claimant EXCEPT ![c] = "closed"]
        BY <2>3 DEF AttachClaimSocket, RefuseClaim
      <3> QED BY <3>1, <3>2, <1>a, <1>b, PairingAssumption
    <2>4. ASSUME NEW m \in Mailboxes, ClaimPairClosePeer(c, m) PROVE HearsClaim(d)'
      BY <2>4, <1>a DEF ClaimPairClosePeer
    <2>5. CASE ClaimPairClose(c)
      BY <2>5, <1>a, <1>b DEF ClaimPairClose, CloseSocket
    <2>6. ASSUME NEW m \in Mailboxes, NEW kind \in {"confirm", "over"},
                 ClaimSends(c, m, kind)
          PROVE  HearsClaim(d)'
      BY <2>6, <1>a DEF ClaimSends
    <2>7. CASE ClaimMisspeaks(c)
      BY <2>7, <1>a, <1>b DEF ClaimMisspeaks, claimVars
    <2>8. CASE ClaimSocketCloses(c)
      BY <2>8, <1>a, <1>b DEF ClaimSocketCloses
    <2> QED BY <1>5, <2>1, <2>2, <2>3, <2>4, <2>5, <2>6, <2>7, <2>8 DEF ClaimStep
  <1>6. CASE Sweep
    BY <1>6, <1>a DEF Sweep, ExpiredClaims
  <1>7. CASE Tick
    BY <1>7, <1>a DEF Tick, claimVars
  <1>8. CASE UNCHANGED vars
    BY <1>8, <1>a DEF vars, claimVars
  <1> QED BY <1>1, <1>2, <1>3, <1>4, <1>5, <1>6, <1>7, <1>8 DEF Next

\* What the invariant says of one mailbox is typed.
LEMMA HearsTypes ==
    ASSUME TypeInv, [Next]_vars, NEW x \in Mailboxes
    PROVE  /\ now \in Nat /\ now' \in Nat /\ now <= now'
           /\ MailboxTtl \in Nat /\ expiresAt[x] \in Nat
           /\ None \notin Claims /\ None \notin Slots
           /\ claimedBy[x] # None => claimedBy[x] \in Claims
  <1>1. now \in Nat /\ now' \in Nat
    BY TypeStep, PairingAssumption DEF TypeInv, TypeOK
  <1>2. now <= now'
    <2>1. CASE \E c \in Claims : AttachClaimSocket(c)
      <3>1. now' = now BY <2>1 DEF AttachClaimSocket
      <3> QED BY <1>1, <3>1
    <2>2. CASE ~\E c \in Claims : AttachClaimSocket(c)
      BY <1>1, <2>2, QuietStep DEF Quiet
    <2> QED BY <2>1, <2>2
  <1> QED BY <1>1, <1>2, PairingAssumption DEF TypeInv, TypeOK

\* The holder's handlers.
LEMMA HearsHolder ==
    ASSUME TypeInv, HearInv, [Next]_vars, NEW m \in Mailboxes, HolderStep(m),
           NEW x \in Mailboxes
    PROVE  HearsMailbox(x)'
  <1>a. HearsMailbox(x) BY DEF HearInv
  <1>t. /\ now \in Nat /\ now' \in Nat /\ now <= now'
        /\ MailboxTtl \in Nat /\ expiresAt[x] \in Nat
        /\ None \notin Claims /\ None \notin Slots
        /\ claimedBy[x] # None => claimedBy[x] \in Claims
    BY HearsTypes
  <1>1. UNCHANGED <<now, slotOf, expiresAt, claimedBy, claimSlot, claimExpires, claimant>>
    BY Zenon DEF HolderStep, AttachMailboxSocket, AttachMailboxRefused,
        HolderPairClose, HolderSends, HolderMisspeaks, HolderSocketCloses,
        storeVars, claimVars
  <1>r. claimedBy[x] # None => /\ claimant[claimedBy[x]] # "none"
                               /\ x \in store => /\ x \in peers[claimedBy[x]]
                                                 /\ claimant[claimedBy[x]] # "closed"
    BY <1>a DEF HearsMailbox, Routed
  <1>s. claimedBy[x] = None => "share" \notin toHolder[x]
    BY <1>a DEF HearsMailbox, Untouched
  <1>2. CASE AttachMailboxSocket(m)
    <2>1. CASE x # m
      <3>1. /\ holder'[x] = holder[x] /\ established'[x] = established[x]
            /\ toHolder'[x] = toHolder[x] /\ pending'[x] = pending[x]
            /\ UNCHANGED <<store, peers, paired>>
        BY <1>2, <2>1 DEF AttachMailboxSocket, claimVars, TypeInv, TypeOK
      <3> QED BY <3>1, <1>1, <1>a, <1>t, <1>r, MailboxKept DEF Buffered
    <2>2. CASE x = m
      <3>1. /\ holder'[x] = "open" /\ established'[x] = FALSE /\ x \in store
            /\ toHolder'[x] = toHolder[x] \cup Buffered(x) /\ pending'[x] = <<>>
            /\ UNCHANGED <<store, peers, paired>> /\ holder[x] = "none"
        BY <1>2, <2>2 DEF AttachMailboxSocket, HasMailbox, Buffered, claimVars, TypeInv, TypeOK
      <3>2. pending[x] = <<>> => Buffered(x) = {}
        BY DEF Buffered
      <3>3. Unborn(x)' /\ Deadlines(x)' /\ Routed(x)' /\ Ended(x)'
        BY <3>1, <1>1, <1>a DEF HearsMailbox, Unborn, Deadlines, Routed, Ended
      <3>4. Untouched(x)'
        BY <3>1, <3>2, <1>1, <1>a DEF HearsMailbox, Untouched
      <3>5. ShareHeard(x)'
        BY <3>1, <3>2, <1>1, <1>a DEF HearsMailbox, Untouched, ShareHeard
      <3> QED BY <3>1, <3>3, <3>4, <3>5 DEF HearsMailbox
    <2> QED BY <2>1, <2>2
  <1>3. CASE AttachMailboxRefused(m)
    <2>1. /\ UNCHANGED <<holder, established, toHolder, pending, peers, paired>>
          /\ x \in store' => x \in store
          /\ x \in store /\ x \notin store' => holder[x] # "open"
      BY <1>3 DEF AttachMailboxRefused, claimVars
    <2> QED BY <2>1, <1>1, <1>a, <1>t, <1>r, MailboxKept DEF Buffered
  <1>4. CASE HolderPairClose(m)
    <2>0. UNCHANGED <<established, toHolder, pending, peers, paired>>
      BY <1>4 DEF HolderPairClose
    <2>1. CASE x # m
      <3>1. holder'[x] = holder[x] /\ (x \in store' <=> x \in store)
        BY <1>4, <2>1 DEF HolderPairClose, TypeInv, TypeOK
      <3> QED BY <2>0, <3>1, <1>1, <1>a, <1>t, <1>r, MailboxKept DEF Buffered
    <2>2. CASE x = m
      <3>1. holder'[x] = "closing" /\ x \notin store' /\ holder[x] \in {"open", "closing"}
        BY <1>4, <2>2 DEF HolderPairClose, HolderSpeaks, CloseSocket, TypeInv, TypeOK
      <3>2. /\ Unborn(x)' /\ Untouched(x)' /\ Deadlines(x)' /\ Routed(x)' /\ Ended(x)'
        BY <2>0, <3>1, <1>1, <1>a DEF HearsMailbox, Unborn, Untouched, Deadlines, Routed, Ended
      <3>3. ShareHeard(x)'
        BY <2>0, <3>1, <1>1, <1>a DEF HearsMailbox, ShareHeard
      <3> QED BY <3>1, <3>2, <3>3 DEF HearsMailbox
    <2> QED BY <2>1, <2>2
  <1>5. ASSUME NEW kind \in Kinds, HolderSends(m, kind) PROVE HearsMailbox(x)'
    <2>1. "share" \in toHolder[m] /\ UNCHANGED holder
      BY <1>5 DEF HolderSends
    <2>2. CASE ~ClaimFor(m)
      <3>1. Deliver({m}, "over") /\ UNCHANGED <<store, established, peers, paired>>
        BY <1>5, <2>2 DEF HolderSends
      <3>2. /\ toHolder[x] \subseteq toHolder'[x]
            /\ x # m => toHolder'[x] = toHolder[x] /\ pending'[x] = pending[x]
            /\ Buffered(x) \subseteq Buffered(x)'
        BY <3>1, DeliverEffect DEF Kinds
      <3>3. /\ toHolder'[x] # toHolder[x] => "share" \in toHolder'[x]
            /\ claimedBy[x] = None => toHolder'[x] = toHolder[x] /\ pending'[x] = pending[x]
        BY <2>1, <3>2, <1>s
      <3> QED BY <2>1, <3>1, <3>2, <3>3, <1>1, <1>a, <1>t, <1>r, MailboxKept
    <2>3. CASE ClaimFor(m)
      <3>1. /\ established' = [established EXCEPT ![m] = @ \/ kind # "share"]
            /\ store' = IF kind = "over" THEN store \ {m} ELSE store
            /\ peers' = IF kind = "over"
                          THEN [peers EXCEPT ![claimedBy[m]] = @ \ {m}] ELSE peers
            /\ paired' = IF kind = "over" THEN paired \cup {m} ELSE paired
            /\ UNCHANGED <<pending, toHolder>>
        BY <1>5, <2>3, Zenon DEF HolderSends
      <3>2. /\ paired \subseteq paired' /\ (x \in store' => x \in store)
            /\ x \in store /\ x \notin store' => x \in paired'
        BY <3>1
      <3>3. claimedBy[x] # None /\ x \in store' => x \in peers'[claimedBy[x]]
        <4>1. CASE kind = "over"
          BY <4>1, <3>1, <1>r, <1>t DEF TypeInv, TypeOK
        <4>2. CASE kind # "over"
          BY <4>2, <3>1, <1>r
        <4> QED BY <4>1, <4>2
      <3>4. established'[x] = established[x] \/ x = m
        BY <3>1, Zenon DEF TypeInv, TypeOK
      <3>5. established'[x] = established[x] \/ ("share" \in toHolder[x] /\ claimedBy[x] # None)
        BY <3>4, <2>1, <1>s
      <3> QED BY <2>1, <3>1, <3>2, <3>3, <3>5, <1>1, <1>a, <1>t, <1>r, MailboxKept DEF Buffered
    <2> QED BY <2>2, <2>3
  <1>6. CASE HolderMisspeaks(m)
    <2>0. /\ UNCHANGED <<established, toHolder, pending, peers, paired, store>>
          /\ holder' = [holder EXCEPT ![m] = "closing"] /\ holder[m] = "open"
      BY <1>6 DEF HolderMisspeaks, storeVars, claimVars
    <2>1. CASE x # m
      <3>1. holder'[x] = holder[x]
        BY <2>0, <2>1 DEF TypeInv, TypeOK
      <3> QED BY <2>0, <3>1, <1>1, <1>a, <1>t, <1>r, MailboxKept DEF Buffered
    <2>2. CASE x = m
      <3>1. holder'[x] = "closing" /\ holder[x] = "open"
        BY <2>0, <2>2 DEF TypeInv, TypeOK
      <3>2. /\ Unborn(x)' /\ Untouched(x)' /\ Deadlines(x)' /\ Routed(x)' /\ Ended(x)'
        BY <2>0, <3>1, <1>1, <1>a DEF HearsMailbox, Unborn, Untouched, Deadlines, Routed, Ended
      <3>3. ShareHeard(x)'
        BY <2>0, <3>1, <1>1, <1>a DEF HearsMailbox, ShareHeard
      <3> QED BY <3>1, <3>2, <3>3 DEF HearsMailbox
    <2> QED BY <2>1, <2>2
  <1>7. CASE HolderSocketCloses(m)
    <2>0. /\ UNCHANGED <<established, toHolder, pending, peers, paired>>
          /\ holder' = [holder EXCEPT ![m] = "none"]
          /\ store' = IF established[m] THEN store ELSE store \ {m}
          /\ holder[m] \in {"open", "closing"}
      BY <1>7 DEF HolderSocketCloses, HolderSpeaks, claimVars
    <2>1. CASE x # m
      <3>1. holder'[x] = holder[x] /\ (x \in store' <=> x \in store)
        BY <2>0, <2>1 DEF TypeInv, TypeOK
      <3> QED BY <2>0, <3>1, <1>1, <1>a, <1>t, <1>r, MailboxKept DEF Buffered
    <2>2. CASE x = m
      <3>1. /\ holder'[x] = "none" /\ holder[x] \in {"open", "closing"}
            /\ x \in store' => x \in store
            /\ ~established[x] => x \notin store'
        BY <2>0, <2>2 DEF TypeInv, TypeOK
      <3>2. /\ Unborn(x)' /\ Untouched(x)' /\ Deadlines(x)' /\ Routed(x)' /\ Ended(x)'
        BY <2>0, <3>1, <1>1, <1>a DEF HearsMailbox, Unborn, Untouched, Deadlines, Routed, Ended
      <3>3. ShareHeard(x)'
        BY <2>0, <3>1, <1>1, <1>a DEF HearsMailbox, ShareHeard
      <3> QED BY <3>1, <3>2, <3>3 DEF HearsMailbox
    <2> QED BY <2>1, <2>2
  <1> QED BY <1>2, <1>3, <1>4, <1>5, <1>6, <1>7 DEF HolderStep, Kinds

\* The claimant's handlers.
LEMMA HearsClaimant ==
    ASSUME TypeInv, HearInv, [Next]_vars, NEW c \in Claims, ClaimStep(c),
           NEW x \in Mailboxes
    PROVE  HearsMailbox(x)'
  <1>a. HearsMailbox(x) BY DEF HearInv
  <1>t. /\ now \in Nat /\ now' \in Nat /\ now <= now'
        /\ MailboxTtl \in Nat /\ expiresAt[x] \in Nat
        /\ None \notin Claims /\ None \notin Slots
        /\ claimedBy[x] # None => claimedBy[x] \in Claims
    BY HearsTypes
  <1>r. claimedBy[x] # None => /\ claimant[claimedBy[x]] # "none"
                               /\ x \in store => /\ x \in peers[claimedBy[x]]
                                                 /\ claimant[claimedBy[x]] # "closed"
    BY <1>a DEF HearsMailbox, Routed
  <1>s. claimedBy[x] # None /\ holder[x] = "open" => "share" \in toHolder[x]
    BY <1>a DEF HearsMailbox, ShareHeard
  <1>1. CASE AttachClaimExpired(c)
    BY <1>1, <1>a, <1>t, <1>r, MailboxKept DEF AttachClaimExpired, storeVars, Buffered
  <1>2. CASE AttachClaimLimited(c)
    <2>1. /\ UNCHANGED <<now, slotOf, expiresAt, claimedBy, claimExpires, holder, established,
                         toHolder, pending, peers, paired, store>>
          /\ claimant[c] = "none" /\ claimant' = [claimant EXCEPT ![c] = "closed"]
      BY <1>2 DEF AttachClaimLimited, MayAttach, RefuseClaim, storeVars
    <2>2. claimedBy[x] # None => claimant'[claimedBy[x]] = claimant[claimedBy[x]]
      BY <2>1, <1>r, <1>t DEF TypeInv, TypeOK
    <2> QED BY <2>1, <2>2, <1>a, <1>t, <1>r, MailboxKept DEF Buffered
  <1>3. CASE AttachClaimSocket(c)
    <2> DEFINE s == claimSlot[c]
               won == IF c \in payloads THEN FanOut(s) ELSE {}
    <2>1. /\ UNCHANGED <<now, slotOf, expiresAt, holder, established, paired>>
          /\ claimExpires' = [claimExpires EXCEPT ![c] = now + MailboxTtl]
          /\ store' = store \ PrunedIn({s})
          /\ claimedBy' = [m \in Mailboxes |-> IF m \in won THEN c ELSE claimedBy[m]]
          /\ peers' = [peers EXCEPT ![c] = won]
          /\ claimant[c] = "none"
          /\ Deliver(won, "share")
      BY <1>3 DEF AttachClaimSocket, MayAttach, ExtendClaim
    <2>2. /\ won # {} => claimant' = [claimant EXCEPT ![c] = "open"]
          /\ \/ claimant' = [claimant EXCEPT ![c] = "open"]
             \/ claimant' = [claimant EXCEPT ![c] = "closed"]
      BY <1>3 DEF AttachClaimSocket, RefuseClaim
    <2>3. x \in won => x \in store /\ x \notin PrunedIn({s}) /\ claimedBy[x] = None /\ slotOf[x] = s
      BY BurnsLive
    <2>4. /\ toHolder[x] \subseteq toHolder'[x]
          /\ x \in won /\ holder[x] = "open" => "share" \in toHolder'[x]
          /\ x \notin won \/ holder[x] # "open" => toHolder'[x] = toHolder[x]
          /\ x \notin won => pending'[x] = pending[x]
          /\ Buffered(x) \subseteq Buffered(x)'
          /\ x \in won /\ holder[x] = "none" /\ pending[x] = <<>>
                => "share" \in Buffered(x)'
      BY <2>1, DeliverEffect DEF Kinds
    <2>5. CASE x \notin won
      <3>1. claimedBy'[x] = claimedBy[x] BY <2>1, <2>5
      <3>2. claimedBy[x] # None => claimedBy[x] \in Claims \ {c}
        BY <2>1, <1>r, <1>t
      <3>3. claimedBy[x] # None =>
               /\ claimExpires'[claimedBy[x]] = claimExpires[claimedBy[x]]
               /\ claimant'[claimedBy[x]] = claimant[claimedBy[x]]
               /\ peers'[claimedBy[x]] = peers[claimedBy[x]]
        BY <2>1, <2>2, <3>2 DEF TypeInv, TypeOK
      <3>4. /\ x \in store' => x \in store
            /\ x \in store /\ x \notin store' => expiresAt[x] <= now
        BY <2>1 DEF PrunedIn, ExpiredMailboxes
      <3> HIDE DEF won
      <3> QED BY <2>1, <2>4, <2>5, <3>1, <3>3, <3>4, <1>a, <1>t, <1>r, MailboxKept
    <2>6. CASE x \in won
      <3>1. /\ claimedBy'[x] = c /\ claimant'[c] = "open" /\ x \in peers'[c]
            /\ claimExpires'[c] = now + MailboxTtl
            /\ x \in store /\ x \in store' /\ claimedBy[x] = None
            /\ c # None
        BY <2>1, <2>2, <2>3, <2>6, <1>t DEF TypeInv, TypeOK
      <3>2. /\ toHolder[x] = {} /\ pending[x] = <<>> /\ ~established[x] /\ slotOf[x] # None
        BY <3>1, <1>a DEF HearsMailbox, Untouched, Unborn
      <3> HIDE DEF won
      <3>3. Unborn(x)' /\ Untouched(x)' /\ Routed(x)' /\ Ended(x)'
        BY <2>1, <3>1, <3>2 DEF Unborn, Untouched, Routed, Ended
      <3>4. Deadlines(x)'
        BY <2>1, <3>1, <1>a, <1>t DEF HearsMailbox, Deadlines
      <3>5. ~established'[x] /\ holder'[x] = holder[x] /\ holder[x] \in {"none", "open", "closing", "closed"}
        BY <2>1, <3>2, Zenon DEF TypeInv, TypeOK, SocketState
      <3>c. holder[x] # "closed" BY <1>a DEF HearsMailbox
      <3>6. ShareHeard(x)'
        BY <2>4, <2>6, <3>2, <3>5, <3>c DEF ShareHeard
      <3> QED BY <3>3, <3>4, <3>5, <3>6, <3>c DEF HearsMailbox
    <2> QED BY <2>5, <2>6
  <1>4. ASSUME NEW m \in Mailboxes, ClaimPairClosePeer(c, m) PROVE HearsMailbox(x)'
    <2>1. /\ UNCHANGED <<now, slotOf, expiresAt, claimedBy, holder, established,
                         claimExpires, claimant, paired>>
          /\ peers' = [peers EXCEPT ![c] = @ \ {m}]
      BY <1>4 DEF ClaimPairClosePeer
    <2>2. CASE OwnedMailbox(c, m)
      <3>1. Deliver({m}, "over") /\ store' = store \ {m} /\ claimedBy[m] = c
        BY <1>4, <2>2 DEF ClaimPairClosePeer, OwnedMailbox
      <3>2. /\ toHolder[x] \subseteq toHolder'[x]
            /\ x = m /\ holder[x] = "open" => "over" \in toHolder'[x]
            /\ x # m \/ holder[x] # "open" => toHolder'[x] = toHolder[x]
            /\ x # m => pending'[x] = pending[x]
            /\ Buffered(x) \subseteq Buffered(x)'
        BY <3>1, DeliverEffect DEF Kinds
      <3>3. claimedBy[x] # None /\ x \in store' => x \in peers'[claimedBy[x]]
        BY <2>1, <3>1, <1>r, <1>t DEF TypeInv, TypeOK
      <3> QED BY <2>1, <3>1, <3>2, <3>3, <1>a, <1>t, <1>r, <1>s, MailboxKept
    <2>3. CASE ~OwnedMailbox(c, m)
      <3>1. /\ store' = store \ Forgotten(peers[c] \cap {m})
            /\ UNCHANGED <<pending, toHolder>>
        BY <1>4, <2>3 DEF ClaimPairClosePeer
      <3>2. /\ x \in store' => x \in store
            /\ x \in store /\ x \notin store' => expiresAt[x] <= now
        BY <3>1 DEF Forgotten, ExpiredMailboxes
      <3>3. claimedBy[x] # None /\ x \in store' => x \in peers'[claimedBy[x]]
        BY <2>1, <2>3, <3>1, <1>r, <1>t
           DEF TypeInv, TypeOK, OwnedMailbox, HasMailbox, Forgotten, ExpiredMailboxes
      <3> QED BY <2>1, <3>1, <3>2, <3>3, <1>a, <1>t, <1>r, MailboxKept DEF Buffered
    <2> QED BY <2>2, <2>3
  <1>5. CASE ClaimPairClose(c)
    <2>1. /\ UNCHANGED <<now, slotOf, expiresAt, claimedBy, claimExpires, holder, established,
                         toHolder, pending, peers, paired, store>>
          /\ claimant' = [claimant EXCEPT ![c] = CloseSocket(@)]
          /\ claimant[c] \in {"open", "closing"}
      BY <1>5 DEF ClaimPairClose, storeVars
    <2>2. claimedBy[x] # None => claimant'[claimedBy[x]] \in {claimant[claimedBy[x]], "closing"}
      BY <2>1, <1>t DEF TypeInv, TypeOK, CloseSocket
    <2> QED BY <2>1, <2>2, <1>a, <1>t, <1>r, MailboxKept DEF Buffered
  <1>6. ASSUME NEW m \in Mailboxes, NEW kind \in {"confirm", "over"}, ClaimSends(c, m, kind)
        PROVE  HearsMailbox(x)'
    <2>1. UNCHANGED <<now, slotOf, expiresAt, claimedBy, holder, established,
                      claimExpires, claimant>>
      BY <1>6 DEF ClaimSends
    <2>2. CASE OwnedMailbox(c, m)
      <3>1. /\ Deliver({m}, kind) /\ claimedBy[m] = c
            /\ store' = IF kind = "over" THEN store \ {m} ELSE store
            /\ peers' = IF kind = "over" THEN [peers EXCEPT ![c] = @ \ {m}] ELSE peers
            /\ paired' = IF kind = "over" THEN paired \cup {m} ELSE paired
        BY <1>6, <2>2, Zenon DEF ClaimSends, OwnedMailbox
      <3>2. /\ toHolder[x] \subseteq toHolder'[x]
            /\ x # m \/ holder[x] # "open" => toHolder'[x] = toHolder[x]
            /\ x # m => pending'[x] = pending[x]
            /\ Buffered(x) \subseteq Buffered(x)'
        BY <3>1, DeliverEffect DEF Kinds
      <3>3. claimedBy[x] # None /\ x \in store' => x \in peers'[claimedBy[x]]
        <4>1. CASE kind = "over"
          BY <4>1, <3>1, <1>r, <1>t DEF TypeInv, TypeOK
        <4>2. CASE kind # "over"
          BY <4>2, <3>1, <1>r
        <4> QED BY <4>1, <4>2
      <3>4. /\ paired \subseteq paired' /\ (x \in store' => x \in store)
            /\ x \in store /\ x \notin store' => x \in paired'
        BY <3>1
      <3> QED BY <2>1, <3>1, <3>2, <3>3, <3>4, <1>a, <1>t, <1>r, <1>s, MailboxKept
    <2>3. CASE ~OwnedMailbox(c, m)
      <3>1. /\ store' = store \ Forgotten(peers[c] \cap {m})
            /\ UNCHANGED <<pending, toHolder, peers, paired>>
        BY <1>6, <2>3 DEF ClaimSends
      <3>2. /\ x \in store' => x \in store
            /\ x \in store /\ x \notin store' => expiresAt[x] <= now
        BY <3>1 DEF Forgotten, ExpiredMailboxes
      <3> QED BY <2>1, <3>1, <3>2, <1>a, <1>t, <1>r, MailboxKept DEF Buffered
    <2> QED BY <2>2, <2>3
  <1>7. CASE ClaimMisspeaks(c)
    <2>1. /\ UNCHANGED <<now, slotOf, expiresAt, claimedBy, claimExpires, holder, established,
                         toHolder, pending, peers, paired, store>>
          /\ claimant' = [claimant EXCEPT ![c] = "closing"]
      BY <1>7 DEF ClaimMisspeaks, storeVars, claimVars
    <2>2. claimedBy[x] # None => claimant'[claimedBy[x]] \in {claimant[claimedBy[x]], "closing"}
      BY <2>1, <1>t DEF TypeInv, TypeOK
    <2> QED BY <2>1, <2>2, <1>a, <1>t, <1>r, MailboxKept DEF Buffered
  <1>8. CASE ClaimSocketCloses(c)
    <2>1. /\ UNCHANGED <<now, slotOf, expiresAt, claimedBy, holder, established,
                         claimExpires, peers, paired>>
          /\ Deliver(StillOwned(c), "over")
          /\ store' = store \ (StillOwned(c) \cup Forgotten(peers[c]))
          /\ claimant' = [claimant EXCEPT ![c] = "closed"]
      BY <1>8 DEF ClaimSocketCloses
    <2>2. /\ toHolder[x] \subseteq toHolder'[x]
          /\ x \in StillOwned(c) /\ holder[x] = "open" => "over" \in toHolder'[x]
          /\ x \notin StillOwned(c) \/ holder[x] # "open" => toHolder'[x] = toHolder[x]
          /\ x \notin StillOwned(c) => pending'[x] = pending[x]
          /\ Buffered(x) \subseteq Buffered(x)'
      BY <2>1, DeliverEffect DEF Kinds
    <2>3. x \in StillOwned(c) => claimedBy[x] = c /\ c # None
      BY <1>t DEF StillOwned, OwnedMailbox
    <2>4. claimedBy[x] = c => x \notin store'
      BY <2>1, <1>r, <1>t DEF StillOwned, OwnedMailbox, HasMailbox, Forgotten, ExpiredMailboxes
    <2>5. /\ x \in store' => x \in store
          /\ x \in store /\ x \notin store' => x \in StillOwned(c) \/ expiresAt[x] <= now
      BY <2>1 DEF Forgotten, ExpiredMailboxes
    <2>6. claimedBy[x] # None =>
             /\ claimant'[claimedBy[x]] # "none"
             /\ x \in store' => claimant'[claimedBy[x]] # "closed"
      BY <2>1, <2>4, <2>5, <1>r, <1>t DEF TypeInv, TypeOK
    <2> QED BY <2>1, <2>2, <2>3, <2>5, <2>6, <1>a, <1>t, <1>r, <1>s, MailboxKept
  <1> QED BY <1>1, <1>2, <1>3, <1>4, <1>5, <1>6, <1>7, <1>8 DEF ClaimStep

\* No step leaves a side waiting without having been told.
LEMMA HearStep == TypeInv /\ HearInv /\ [Next]_vars => HearInv'
  <1> SUFFICES ASSUME TypeInv, HearInv, [Next]_vars, NEW x \in Mailboxes
               PROVE  HearsMailbox(x)'
    BY HearsClaimStep DEF HearInv
  <1>a. HearsMailbox(x) BY DEF HearInv
  <1>t. /\ now \in Nat /\ now' \in Nat /\ now <= now'
        /\ MailboxTtl \in Nat /\ expiresAt[x] \in Nat
        /\ None \notin Claims /\ None \notin Slots
        /\ claimedBy[x] # None => claimedBy[x] \in Claims
    BY HearsTypes
  <1>r. claimedBy[x] # None => /\ claimant[claimedBy[x]] # "none"
                               /\ x \in store => /\ x \in peers[claimedBy[x]]
                                                 /\ claimant[claimedBy[x]] # "closed"
    BY <1>a DEF HearsMailbox, Routed
  <1>1. ASSUME NEW m \in Mailboxes, NEW s \in Slots, NEW vain \in SUBSET Slots,
               PairNew(m, s, vain)
        PROVE  HearsMailbox(x)'
    <2>1. /\ UNCHANGED <<now, claimedBy, pending, holder, established, claimExpires,
                         peers, claimant, toHolder, paired>>
          /\ slotOf[m] = None /\ slotOf' = [slotOf EXCEPT ![m] = s]
          /\ expiresAt' = [expiresAt EXCEPT ![m] = now + MailboxTtl]
          /\ store' = (store \ PrunedIn(vain \cup {s})) \cup {m}
      BY <1>1 DEF PairNew, claimVars
    <2>2. CASE x # m
      <3>1. /\ slotOf'[x] = slotOf[x] /\ expiresAt'[x] = expiresAt[x]
            /\ x \in store' => x \in store
            /\ x \in store /\ x \notin store' => expiresAt[x] <= now
        BY <2>1, <2>2 DEF TypeInv, TypeOK, PrunedIn, ExpiredMailboxes
      <3> QED BY <2>1, <3>1, <1>a, <1>t, <1>r, MailboxKept DEF Buffered
    <2>3. CASE x = m
      <3>1. slotOf'[x] = s /\ expiresAt'[x] = now + MailboxTtl /\ x \in store'
        BY <2>1, <2>3 DEF TypeInv, TypeOK
      <3>2. claimedBy[x] = None /\ holder[x] = "none"
        BY <2>1, <2>3, <1>a DEF HearsMailbox, Unborn
      <3>3. Unborn(x)' /\ Untouched(x)' /\ Routed(x)' /\ Ended(x)' /\ ShareHeard(x)'
        BY <2>1, <3>1, <3>2, <1>a, <1>t DEF HearsMailbox, Unborn, Untouched,
           Routed, Ended, ShareHeard
      <3>4. Deadlines(x)'
        BY <2>1, <3>1, <3>2, <1>t DEF Deadlines
      <3> QED BY <2>1, <3>2, <3>3, <3>4 DEF HearsMailbox
    <2> QED BY <2>2, <2>3
  <1>2. ASSUME NEW vain \in SUBSET Slots, PairNewBusy(vain) PROVE HearsMailbox(x)'
    <2>1. /\ x \in store' => x \in store
          /\ x \in store /\ x \notin store' => expiresAt[x] <= now
      BY <1>2 DEF PairNewBusy, PrunedIn, ExpiredMailboxes
    <2> QED BY <1>2, <2>1, <1>a, <1>t, <1>r, MailboxKept DEF PairNewBusy, claimVars, Buffered
  <1>3. ASSUME NEW c \in Claims, NEW s \in Slots, PairClaim(c, s) PROVE HearsMailbox(x)'
    <2>1. claimant[c] = "none"
      BY <1>3 DEF HearInv, HearsClaim, PairClaim
    <2>2. claimedBy[x] # None => claimExpires'[claimedBy[x]] = claimExpires[claimedBy[x]]
      BY <1>3, <2>1, <1>r, <1>t DEF PairClaim, TypeInv, TypeOK
    <2> QED BY <1>3, <2>2, <1>a, <1>t, <1>r, MailboxKept DEF PairClaim, storeVars, Buffered
  <1>4. CASE Sweep
    <2>1. /\ x \in store' => x \in store
          /\ x \in store /\ x \notin store' => expiresAt[x] <= now
      BY <1>4 DEF Sweep, ExpiredMailboxes
    <2> QED BY <1>4, <2>1, <1>a, <1>t, <1>r, MailboxKept DEF Sweep, Buffered
  <1>5. CASE Tick
    BY <1>5, <1>a, <1>t, <1>r, MailboxKept DEF Tick, storeVars, claimVars, Buffered
  <1>6. CASE UNCHANGED vars
    BY <1>6, <1>a, <1>t, <1>r, MailboxKept DEF vars, storeVars, claimVars, Buffered
  <1> QED BY <1>1, <1>2, <1>3, <1>4, <1>5, <1>6, HearsHolder, HearsClaimant DEF Next

\* Nobody waits yet.
LEMMA HearInit == Init => HearInv
  BY PairingAssumption DEF Init, HearInv, HearsMailbox, HearsClaim, Unborn, Untouched,
     Deadlines, Routed, Ended, ShareHeard, Buffered

\* The inductive invariant gives both sides their answer.
LEMMA HearSafe == TypeInv /\ HearInv => HolderHears
  <1> SUFFICES ASSUME TypeInv, HearInv PROVE HolderHears
    OBVIOUS
  <1>a. ASSUME NEW m \in Mailboxes
        PROVE  /\ HearsMailbox(m)
               /\ now \in Nat /\ expiresAt[m] \in Nat /\ None \notin Claims
               /\ claimedBy[m] # None => /\ claimedBy[m] \in Claims
                                         /\ HearsClaim(claimedBy[m])
                                         /\ claimExpires[claimedBy[m]] \in Nat
    BY PairingAssumption DEF HearInv, TypeInv, TypeOK
  <1>1. SymmetricRouting
    BY <1>a DEF SymmetricRouting, HasMailbox, ClaimFor, OwnedMailbox, HasClaim,
       ExpiredMailboxes, ExpiredClaims, HearsMailbox, HearsClaim, Deadlines, Routed
  <1>2. NoSilentBurn
    BY <1>a DEF NoSilentBurn, HasMailbox, HearsMailbox, Routed, Ended
  <1>3. HolderHearsShare
    BY <1>a DEF HolderHearsShare, HearsMailbox, ShareHeard
  <1> QED BY <1>1, <1>2, <1>3 DEF HolderHears

\* Each side of a pairing reaches the other or is told, for any constants:
\* claimFor and ownedMailbox agree, no burn is silent and the share comes first
\* (broker.ts:679-692, 876-890, 967-980).
THEOREM HolderIsTold == Spec => []HolderHears
  <1> QED BY TypeInit, TypeStep, HearInit, HearStep, HearSafe, PTL DEF Spec

-----------------------------------------------------------------------------
(***************************************************************************)
(* The other way to pair, on the local network: proofs about LocalPairing  *)
(* for any number of requests and addresses, and any limits.  It shares no *)
(* state with the broker's mailboxes, so its variables are declared here;  *)
(* what LocalPairing assumes of its constants is a hypothesis of each      *)
(* lemma that needs it and a conjunct of the invariant.                    *)
(***************************************************************************)
CONSTANTS Reqs, Addrs, MaxCodeAttempts, FreeFailures, MaxLockout, Ttl
VARIABLES armed, left, wrong, shown, hosted, req, from, failures, lock,
          lockout, wrongCodes, abreast, listening, unheard

L == INSTANCE LocalPairing WITH guesses <- wrongCodes

\* LocalPairing's finite sets and their sizes are the ones of FiniteSets.
LEMMA SameSizes ==
  ASSUME NEW S
  PROVE  L!IsFiniteSet(S) = IsFiniteSet(S) /\ L!Cardinality(S) = Cardinality(S)
  BY DEF L!IsFiniteSet, IsFiniteSet, L!Cardinality, Cardinality

\* At most one request is before the human, and then nothing is armed.
Door ==
    /\ \A r, q \in Reqs : req[r] = "asked" /\ req[q] = "asked" => r = q
    /\ \A r \in Reqs : req[r] = "asked" => ~armed

\* A request under way came from an address.
Known == \A r \in Reqs : req[r] # "idle" => from[r] \in Addrs

\* The requests of an address that passed the back-off and are not judged yet.
Bodies(a) == {r \in Reqs : req[r] = "body" /\ from[r] = a}

\* While an address is free to try, its guesses are failures that were free.
\* Once it is locked out, only what it had under way can still guess.
Allowance(a) ==
    IF lock[a] = 0
      THEN wrongCodes[a] = 0 \/ (wrongCodes[a] <= failures[a] /\ failures[a] < FreeFailures)
      ELSE wrongCodes[a] + Cardinality(Bodies(a)) <= FreeFailures + abreast[a]

LocalInv ==
    /\ L!LocalAssumption
    /\ L!TypeOK /\ Door /\ L!ShownWorks /\ Known
    /\ \A a \in Addrs : Allowance(a)

-----------------------------------------------------------------------------
\* The lock-out grows from one unit to the maximum (auth-throttle.ts:60-78).
LEMMA LongerType ==
  ASSUME L!LocalAssumption, NEW n \in 0 .. MaxLockout
  PROVE  L!Longer(n) \in 1 .. MaxLockout
  BY DEF L!LocalAssumption, L!Longer, L!Least

\* A failure keeps the back-off well formed (auth-throttle.ts:60-78).
LEMMA FailureType ==
  ASSUME L!LocalAssumption, L!TypeOK, NEW a \in Addrs, L!RecordFailure(a)
  PROVE  /\ failures' \in [Addrs -> 0 .. FreeFailures]
         /\ lock' \in [Addrs -> 0 .. MaxLockout]
         /\ lockout' \in [Addrs -> 0 .. MaxLockout]
         /\ abreast' \in [Addrs -> Nat]
  <1> DEFINE next == IF L!AtThreshold(a) THEN L!Longer(lockout[a]) ELSE lockout[a]
  <1>0. FreeFailures \in Nat \ {0} /\ MaxLockout \in Nat \ {0}
    BY DEF L!LocalAssumption
  <1>1. next \in 0 .. MaxLockout BY <1>0, LongerType DEF L!TypeOK
  <1>2. \A n \in 0 .. FreeFailures : L!Least(n + 1, FreeFailures) \in 0 .. FreeFailures
    BY <1>0 DEF L!Least
  <1>3. /\ failures' = [failures EXCEPT ![a] = L!Least(@ + 1, FreeFailures)]
        /\ lockout' = [lockout EXCEPT ![a] = next]
        /\ lock' = [lock EXCEPT ![a] = IF L!AtThreshold(a) THEN next ELSE @]
    BY DEF L!RecordFailure
  <1> HIDE DEF next
  <1>4. abreast' \in [Addrs -> Nat]
    <2> DEFINE S == {r \in Reqs : req'[r] = "body" /\ from'[r] = a}
    <2>1. IsFiniteSet(Reqs) BY SameSizes DEF L!LocalAssumption
    <2>2. IsFiniteSet(S) BY <2>1, FS_Subset
    <2>3. L!Cardinality(S) \in Nat BY <2>2, FS_CardinalityType, SameSizes
    <2>4. abreast' = [abreast EXCEPT ![a] = IF L!MayTry(a) /\ L!AtThreshold(a)
                                            THEN L!Cardinality(S) ELSE @]
      BY DEF L!RecordFailure
    <2> HIDE DEF S
    <2> QED BY <2>3, <2>4 DEF L!TypeOK
  <1> QED BY <1>1, <1>2, <1>3, <1>4 DEF L!TypeOK

\* A success keeps it well formed (auth-throttle.ts:80-84).
LEMMA SuccessType ==
  ASSUME L!LocalAssumption, L!TypeOK, NEW a \in Addrs, L!RecordSuccess(a)
  PROVE  /\ failures' \in [Addrs -> 0 .. FreeFailures]
         /\ lock' \in [Addrs -> 0 .. MaxLockout]
         /\ lockout' \in [Addrs -> 0 .. MaxLockout]
         /\ wrongCodes' \in [Addrs -> Nat] /\ abreast' \in [Addrs -> Nat]
  BY DEF L!LocalAssumption, L!RecordSuccess, L!TypeOK

\* The end of a request keeps requests well formed and frees only that one.
LEMMA OverFacts ==
  ASSUME L!TypeOK, NEW r \in Reqs, L!Over(r)
  PROVE  /\ req' \in [Reqs -> {"idle", "body", "asked"}]
         /\ from' \in [Reqs -> Addrs \cup {None}]
         /\ req'[r] = "idle"
         /\ \A q \in Reqs \ {r} : req'[q] = req[q] /\ from'[q] = from[q]
  BY DEF L!Over, L!TypeOK

\* The offer and what the screen says of it.
ScreenType ==
    /\ armed \in BOOLEAN /\ left \in 0 .. Ttl /\ wrong \in 0 .. MaxCodeAttempts
    /\ shown \in BOOLEAN /\ unheard \in BOOLEAN

\* A spent offer, re-armed or not, is well formed (start.ts:2896-2918).
LEMMA SpentType ==
  ASSUME L!LocalAssumption, L!TypeOK, NEW outcome, L!Spent(outcome)
  PROVE  ScreenType'
  <1>0. Ttl \in Nat \ {0} /\ MaxCodeAttempts \in Nat \ {0} BY DEF L!LocalAssumption
  <1>1. CASE L!ArmLocalInvite
    <2>1. armed' \in BOOLEAN /\ shown' \in BOOLEAN /\ unheard' \in BOOLEAN
      BY <1>1, Zenon DEF L!ArmLocalInvite
    <2>2. left' \in 0 .. Ttl /\ wrong' \in 0 .. MaxCodeAttempts
      BY <1>0, <1>1 DEF L!ArmLocalInvite
    <2> QED BY <2>1, <2>2 DEF ScreenType
  <1>2. CASE L!NobodyListens
    <2>1. armed' \in BOOLEAN /\ shown' \in BOOLEAN /\ unheard' \in BOOLEAN
      BY <1>2, Zenon DEF L!NobodyListens, L!TypeOK
    <2>2. left' \in 0 .. Ttl /\ wrong' \in 0 .. MaxCodeAttempts
      BY <1>2 DEF L!NobodyListens, L!TypeOK
    <2> QED BY <2>1, <2>2 DEF ScreenType
  <1> QED BY <1>1, <1>2 DEF L!Spent

\* Every step keeps the type invariant.
LEMMA LocalTypeStep ==
  ASSUME L!LocalAssumption
  PROVE  L!TypeOK /\ Known /\ [L!Next]_L!vars => L!TypeOK'
  <1> SUFFICES ASSUME L!TypeOK, Known, [L!Next]_L!vars PROVE L!TypeOK' OBVIOUS
  <1>0. /\ FreeFailures \in Nat \ {0} /\ MaxLockout \in Nat \ {0}
        /\ Ttl \in Nat \ {0} /\ MaxCodeAttempts \in Nat \ {0}
    BY DEF L!LocalAssumption
  <1>1. ASSUME NEW r \in Reqs, NEW a \in Addrs, L!Arrives(r, a) PROVE L!TypeOK'
    BY <1>1 DEF L!Arrives, L!TypeOK, L!offerVars, L!screenVars, L!throttleVars
  <1>2. ASSUME NEW r \in Reqs, L!NoBody(r) PROVE L!TypeOK'
    BY <1>2, OverFacts DEF L!NoBody, L!TypeOK, L!offerVars, L!screenVars, L!throttleVars
  <1>3. ASSUME NEW r \in Reqs, L!RedeemNothing(r) PROVE L!TypeOK'
    <2>1. from[r] \in Addrs BY <1>3 DEF L!RedeemNothing, Known
    <2> QED BY <1>3, <2>1, OverFacts, FailureType DEF L!RedeemNothing, L!TypeOK, L!screenVars
  <1>4. ASSUME NEW r \in Reqs, L!RedeemStaleNonce(r) PROVE L!TypeOK'
    <2>1. from[r] \in Addrs BY <1>4 DEF L!RedeemStaleNonce, Known
    <2> QED BY <1>4, <2>1, OverFacts, FailureType DEF L!RedeemStaleNonce, L!TypeOK, L!offerVars, L!screenVars
  <1>5. ASSUME NEW r \in Reqs, L!RedeemWrongCode(r) PROVE L!TypeOK'
    <2>1. from[r] \in Addrs BY <1>5 DEF L!RedeemWrongCode, Known
    <2>2. ScreenType'
      <3>1. CASE wrong + 1 >= MaxCodeAttempts
        BY <1>5, <3>1, SpentType DEF L!RedeemWrongCode
      <3>2. CASE ~(wrong + 1 >= MaxCodeAttempts)
        <4>1. left' = left /\ wrong' = wrong + 1 BY <1>5, <3>2 DEF L!RedeemWrongCode
        <4>2. left \in 0 .. Ttl /\ wrong \in 0 .. MaxCodeAttempts BY DEF L!TypeOK
        <4>3. left' \in 0 .. Ttl /\ wrong' \in 0 .. MaxCodeAttempts BY <1>0, <3>2, <4>1, <4>2
        <4>4. UNCHANGED <<armed, shown, unheard>> BY <1>5, <3>2 DEF L!RedeemWrongCode
        <4> QED BY <4>3, <4>4 DEF ScreenType, L!TypeOK
      <3> QED BY <3>1, <3>2
    <2>3. wrongCodes' \in [Addrs -> Nat]
      <3>1. wrongCodes' = [wrongCodes EXCEPT ![from[r]] = @ + 1] BY <1>5 DEF L!RedeemWrongCode
      <3>2. wrongCodes \in [Addrs -> Nat] BY DEF L!TypeOK
      <3> QED BY <2>1, <3>1, <3>2
    <2> QED BY <1>5, <2>1, <2>2, <2>3, OverFacts, FailureType DEF L!RedeemWrongCode, L!TypeOK, ScreenType
  <1>6. ASSUME NEW r \in Reqs, L!RedeemRight(r) PROVE L!TypeOK'
    BY <1>6 DEF L!RedeemRight, L!Burned, L!TypeOK, L!screenVars, L!throttleVars
  <1>7. ASSUME NEW r \in Reqs, L!HumanApproves(r) PROVE L!TypeOK'
    <2>1. from[r] \in Addrs BY <1>7 DEF L!HumanApproves, Known
    <2>2. ScreenType' BY <1>7, SpentType DEF L!HumanApproves
    <2> QED BY <1>7, <2>1, <2>2, OverFacts, SuccessType DEF L!HumanApproves, L!TypeOK, ScreenType
  <1>8. ASSUME NEW r \in Reqs, L!HumanRefuses(r) PROVE L!TypeOK'
    <2>1. ScreenType' BY <1>8, SpentType DEF L!HumanRefuses
    <2> QED BY <1>8, <2>1, OverFacts DEF L!HumanRefuses, L!TypeOK, L!throttleVars, ScreenType
  <1>9. ASSUME NEW a \in Addrs, NEW good \in BOOLEAN, L!TokenLogin(a, good) PROVE L!TypeOK'
    BY <1>9, SuccessType, FailureType DEF L!TokenLogin, L!TypeOK, L!offerVars, L!screenVars
  <1>10. ASSUME NEW a \in Addrs, L!Sweep(a) PROVE L!TypeOK'
    BY <1>10, SuccessType DEF L!Sweep, L!TypeOK, L!offerVars, L!screenVars
  <1>11. CASE L!TunnelUp \/ L!Listens
    BY <1>11 DEF L!TunnelUp, L!Listens, L!TypeOK, L!offerVars, L!throttleVars
  <1>12. CASE L!Tick
    <2>1. \A m \in Nat : \A n \in 0 .. m : L!Less(n) \in 0 .. m BY DEF L!Less
    <2>2. left' \in 0 .. Ttl BY <1>0, <1>12, <2>1 DEF L!Tick, L!TypeOK
    <2>3. lock' \in [Addrs -> 0 .. MaxLockout] BY <1>0, <1>12, <2>1 DEF L!Tick, L!TypeOK
    <2>4. wrongCodes' \in [Addrs -> Nat] /\ abreast' \in [Addrs -> Nat]
      BY <1>12 DEF L!Tick, L!TypeOK
    <2> QED BY <1>12, <2>2, <2>3, <2>4 DEF L!Tick, L!TypeOK, L!screenVars
  <1>13. CASE UNCHANGED L!vars BY <1>13 DEF L!vars, L!TypeOK, L!offerVars, L!screenVars, L!throttleVars
  <1> QED BY <1>1, <1>2, <1>3, <1>4, <1>5, <1>6, <1>7, <1>8, <1>9, <1>10, <1>11, <1>12, <1>13
          DEF L!Next

-----------------------------------------------------------------------------
(***************************************************************************)
(* The offer and the human.                                                *)
(***************************************************************************)
\* Every step keeps one request at the door at most, and the code that is shown
\* working (pairing-local.ts:128-131, 395-400).
LEMMA DoorStep ==
  L!TypeOK /\ Door /\ L!ShownWorks /\ Known /\ [L!Next]_L!vars => Door' /\ L!ShownWorks' /\ Known'
  <1> SUFFICES ASSUME L!TypeOK, Door, L!ShownWorks, Known, [L!Next]_L!vars
               PROVE  Door' /\ L!ShownWorks' /\ Known'
    OBVIOUS
  <1>0. left \in Nat /\ armed \in BOOLEAN /\ req \in [Reqs -> {"idle", "body", "asked"}]
    BY DEF L!TypeOK
  <1>a. ASSUME UNCHANGED <<req, from, armed, shown, unheard>>, left' = left \/ left' = 0 \/ armed
        PROVE  Door' /\ L!ShownWorks' /\ Known'
    <2>1. L!Asked' = L!Asked BY <1>a DEF L!Asked
    <2> QED BY <1>a, <2>1 DEF Door, L!ShownWorks, Known
  <1>b. ASSUME NEW r \in Reqs, L!Over(r), req[r] # "asked",
               UNCHANGED <<shown, unheard>>,
               (armed' = armed /\ left' = left) \/ (~armed' /\ ~L!Claimable /\ left' = left)
        PROVE  Door' /\ L!ShownWorks' /\ Known'
    <2>1. L!Asked' = L!Asked BY <1>b, OverFacts, <1>0 DEF L!Asked
    <2>2. Door' BY <1>b, OverFacts DEF Door
    <2>3. Known' BY <1>b, OverFacts DEF Known
    <2>4. L!ShownWorks' BY <1>0, <1>b, <2>1 DEF L!ShownWorks, L!Claimable
    <2> QED BY <2>2, <2>3, <2>4
  <1>c. ASSUME NEW r \in Reqs, L!Over(r), L!ArmLocalInvite \/ L!NobodyListens,
               \A q \in Reqs \ {r} : req[q] # "asked"
        PROVE  Door' /\ L!ShownWorks' /\ Known'
    <2>1. \A q \in Reqs : req'[q] # "asked" BY <1>c, OverFacts
    <2>2. Door' BY <2>1 DEF Door
    <2>3. L!ShownWorks' BY <1>c DEF L!ShownWorks, L!ArmLocalInvite, L!NobodyListens
    <2>4. Known' BY <1>c, OverFacts DEF Known
    <2> QED BY <2>2, <2>3, <2>4
  <1>1. ASSUME NEW r \in Reqs, NEW a \in Addrs, L!Arrives(r, a) PROVE Door' /\ L!ShownWorks' /\ Known'
    <2>1. L!Asked' = L!Asked BY <1>0, <1>1 DEF L!Asked, L!Arrives
    <2>2. Door' BY <1>0, <1>1 DEF Door, L!Arrives, L!offerVars
    <2>3. Known' BY <1>0, <1>1 DEF Known, L!Arrives, L!TypeOK
    <2>4. L!ShownWorks' BY <1>1, <2>1 DEF L!ShownWorks, L!Arrives, L!offerVars, L!screenVars
    <2> QED BY <2>2, <2>3, <2>4
  <1>2. ASSUME NEW r \in Reqs, L!NoBody(r) PROVE Door' /\ L!ShownWorks' /\ Known'
    BY <1>b, <1>2 DEF L!NoBody, L!offerVars, L!screenVars
  <1>3. ASSUME NEW r \in Reqs, L!RedeemNothing(r) PROVE Door' /\ L!ShownWorks' /\ Known'
    BY <1>b, <1>3 DEF L!RedeemNothing, L!screenVars
  <1>4. ASSUME NEW r \in Reqs, L!RedeemStaleNonce(r) PROVE Door' /\ L!ShownWorks' /\ Known'
    BY <1>b, <1>4 DEF L!RedeemStaleNonce, L!offerVars, L!screenVars
  <1>5. ASSUME NEW r \in Reqs, L!RedeemWrongCode(r) PROVE Door' /\ L!ShownWorks' /\ Known'
    <2>1. L!Over(r) /\ armed /\ req[r] # "asked" BY <1>5 DEF L!RedeemWrongCode, L!Claimable
    <2>2. CASE wrong + 1 >= MaxCodeAttempts
      BY <1>c, <1>5, <2>1, <2>2 DEF L!RedeemWrongCode, L!Spent, Door
    <2>3. CASE ~(wrong + 1 >= MaxCodeAttempts)
      BY <1>b, <1>5, <2>1, <2>3 DEF L!RedeemWrongCode
    <2> QED BY <2>2, <2>3
  <1>6. ASSUME NEW r \in Reqs, L!RedeemRight(r) PROVE Door' /\ L!ShownWorks' /\ Known'
    <2>1. armed /\ req[r] = "body" /\ ~armed' BY <1>6 DEF L!RedeemRight, L!Claimable, L!Burned
    <2>2. req'[r] = "asked" /\ \A q \in Reqs \ {r} : req'[q] = req[q] /\ req[q] # "asked"
      BY <1>0, <1>6, <2>1 DEF L!RedeemRight, Door
    <2>3. Door' BY <2>1, <2>2 DEF Door
    <2>4. L!Asked' # {} BY <2>2 DEF L!Asked
    <2>5. Known' BY <1>6, <2>1, <2>2 DEF Known, L!RedeemRight
    <2> QED BY <2>3, <2>4, <2>5 DEF L!ShownWorks
  <1>7. ASSUME NEW r \in Reqs, L!HumanApproves(r) \/ L!HumanRefuses(r)
        PROVE  Door' /\ L!ShownWorks' /\ Known'
    <2>1. \A q \in Reqs \ {r} : req[q] # "asked" BY <1>7 DEF L!HumanApproves, L!HumanRefuses, Door
    <2> QED BY <1>c, <1>7, <2>1 DEF L!HumanApproves, L!HumanRefuses, L!Spent
  <1>8. CASE L!TunnelUp
    <2>1. Door' BY <1>8 DEF L!TunnelUp, Door
    <2>2. L!ShownWorks' BY <1>8 DEF L!TunnelUp, L!ShownWorks
    <2>3. Known' BY <1>8 DEF L!TunnelUp, Known
    <2> QED BY <2>1, <2>2, <2>3
  <1>9. CASE L!Tick \/ L!Listens
    BY <1>a, <1>9 DEF L!Tick, L!Listens, L!offerVars, L!screenVars
  <1>10. ASSUME NEW a \in Addrs, L!Sweep(a) \/ \E good \in BOOLEAN : L!TokenLogin(a, good)
         PROVE  Door' /\ L!ShownWorks' /\ Known'
    BY <1>a, <1>10 DEF L!Sweep, L!TokenLogin, L!offerVars, L!screenVars
  <1>11. CASE UNCHANGED L!vars BY <1>a, <1>11 DEF L!vars, L!offerVars, L!screenVars
  <1> QED BY <1>1, <1>2, <1>3, <1>4, <1>5, <1>6, <1>7, <1>8, <1>9, <1>10, <1>11 DEF L!Next

-----------------------------------------------------------------------------
(***************************************************************************)
(* The back-off.                                                           *)
(***************************************************************************)
\* The requests of an address are finitely many, and no more than there are.
LEMMA BodiesFinite ==
  ASSUME L!LocalAssumption, NEW a \in Addrs
  PROVE  /\ IsFiniteSet(Bodies(a)) /\ Cardinality(Bodies(a)) \in Nat
         /\ Cardinality(Reqs) \in Nat /\ Cardinality(Bodies(a)) <= Cardinality(Reqs)
  <1>1. IsFiniteSet(Reqs) BY SameSizes DEF L!LocalAssumption
  <1>2. Bodies(a) \subseteq Reqs BY DEF Bodies
  <1> QED BY <1>1, <1>2, FS_Subset, FS_CardinalityType

\* The same in the next state.
LEMMA BodiesFiniteNext ==
  ASSUME L!LocalAssumption, NEW a \in Addrs
  PROVE  /\ Cardinality(Bodies(a)') \in Nat
         /\ Cardinality(Bodies(a)') <= Cardinality(Reqs)
  <1>1. IsFiniteSet(Reqs) BY SameSizes DEF L!LocalAssumption
  <1>2. Bodies(a)' \subseteq Reqs BY DEF Bodies
  <1> QED BY <1>1, <1>2, FS_Subset, FS_CardinalityType

\* A request that ends is one less for its address and leaves the others alone.
LEMMA BodiesOver ==
  ASSUME L!LocalAssumption, L!TypeOK, NEW r \in Reqs, L!Over(r), NEW a \in Addrs
  PROVE  /\ Cardinality(Bodies(a)') <= Cardinality(Bodies(a))
         /\ r \in Bodies(a) => Cardinality(Bodies(a)') = Cardinality(Bodies(a)) - 1
  <1>1. Bodies(a)' = Bodies(a) \ {r} BY OverFacts DEF Bodies
  <1>2. IsFiniteSet(Bodies(a)) /\ Cardinality(Bodies(a)) \in Nat BY BodiesFinite
  <1>3. CASE r \in Bodies(a)
    <2>1. Cardinality(Bodies(a) \ {r}) = Cardinality(Bodies(a)) - 1
      BY <1>2, <1>3, FS_RemoveElement
    <2> QED BY <1>1, <1>2, <2>1
  <1>4. CASE r \notin Bodies(a)
    <2>1. Bodies(a)' = Bodies(a) BY <1>1, <1>4
    <2> QED BY <1>2, <1>4, <2>1
  <1> QED BY <1>3, <1>4

\* An address about which nothing is recorded keeps its allowance as long as it
\* has no more requests under way, or is free to try.
LEMMA AllowanceQuiet ==
  ASSUME L!LocalAssumption, L!TypeOK, NEW a \in Addrs, Allowance(a),
         lock'[a] = lock[a], failures'[a] = failures[a], wrongCodes'[a] = wrongCodes[a],
         abreast'[a] = abreast[a],
         lock[a] # 0 => Cardinality(Bodies(a)') <= Cardinality(Bodies(a))
  PROVE  Allowance(a)'
  <1>0. wrongCodes[a] \in Nat /\ FreeFailures \in Nat /\ abreast[a] \in Nat
    BY DEF L!LocalAssumption, L!TypeOK
  <1>1. CASE lock[a] = 0 BY <1>1 DEF Allowance
  <1>2. CASE lock[a] # 0
    BY <1>0, <1>2, BodiesFinite, BodiesFiniteNext DEF Allowance
  <1> QED BY <1>1, <1>2

\* An address that starts afresh has made no guess.
LEMMA AllowanceFresh ==
  ASSUME NEW a \in Addrs, lock'[a] = 0, wrongCodes'[a] = 0
  PROVE  Allowance(a)'
  BY DEF Allowance

\* A failure: its guess, if it was one, is taken from what is free, or from the
\* requests under way, of which it was one (auth-throttle.ts:60-78,
\* server.ts:109-160).
LEMMA AllowanceFailure ==
  ASSUME L!LocalAssumption, L!TypeOK, NEW a \in Addrs, Allowance(a), L!RecordFailure(a),
         NEW n \in {0, 1}, wrongCodes'[a] = wrongCodes[a] + n,
         Cardinality(Bodies(a)') + n <= Cardinality(Bodies(a))
  PROVE  Allowance(a)'
  <1> DEFINE B == Cardinality(Bodies(a))  C == Cardinality(Bodies(a)')
  <1>0. /\ FreeFailures \in Nat \ {0} /\ wrongCodes[a] \in Nat /\ failures[a] \in 0 .. FreeFailures
        /\ lock[a] \in Nat /\ lockout[a] \in 0 .. MaxLockout /\ abreast[a] \in Nat
    BY DEF L!LocalAssumption, L!TypeOK
  <1>1. /\ failures'[a] = L!Least(failures[a] + 1, FreeFailures)
        /\ lock'[a] = IF failures[a] + 1 >= FreeFailures THEN L!Longer(lockout[a]) ELSE lock[a]
    BY DEF L!RecordFailure, L!AtThreshold, L!TypeOK
  <1>1a. abreast'[a] = IF lock[a] = 0 /\ failures[a] + 1 >= FreeFailures THEN C ELSE abreast[a]
    <2>1. Bodies(a)' = {r \in Reqs : req'[r] = "body" /\ from'[r] = a} BY DEF Bodies
    <2>2. L!Cardinality(Bodies(a)') = C BY SameSizes
    <2> QED BY <2>1, <2>2 DEF L!RecordFailure, L!MayTry, L!AtThreshold, L!TypeOK
  <1>2. L!Longer(lockout[a]) \in Nat \ {0} BY <1>0, LongerType DEF L!LocalAssumption
  <1>3. /\ B \in Nat /\ C \in Nat /\ C + n <= B
        /\ wrongCodes'[a] = wrongCodes[a] + n
    BY BodiesFinite, BodiesFiniteNext
  <1>4. /\ Allowance(a) <=>
             IF lock[a] = 0
               THEN wrongCodes[a] = 0 \/ (wrongCodes[a] <= failures[a] /\ failures[a] < FreeFailures)
               ELSE wrongCodes[a] + B <= FreeFailures + abreast[a]
        /\ Allowance(a)' <=>
             IF lock'[a] = 0
               THEN wrongCodes'[a] = 0 \/ (wrongCodes'[a] <= failures'[a] /\ failures'[a] < FreeFailures)
               ELSE wrongCodes'[a] + C <= FreeFailures + abreast'[a]
    BY DEF Allowance
  <1> HIDE DEF B, C
  <1>5. CASE lock'[a] = 0
    <2>1. lock[a] = 0 /\ failures[a] + 1 < FreeFailures BY <1>0, <1>1, <1>2, <1>5
    <2>2. failures'[a] = failures[a] + 1 BY <1>0, <1>1, <2>1 DEF L!Least
    <2> QED BY <1>0, <1>3, <1>4, <1>5, <2>1, <2>2
  <1>6. CASE lock'[a] # 0
    BY <1>0, <1>1, <1>1a, <1>3, <1>4, <1>6
  <1> QED BY <1>5, <1>6

\* Every step keeps the allowance of every address.
LEMMA AllowanceStep ==
  ASSUME L!LocalAssumption, L!TypeOK, Known, [L!Next]_L!vars, NEW a \in Addrs, Allowance(a)
  PROVE  Allowance(a)'
  <1>0. /\ Cardinality(Bodies(a)) \in Nat /\ lock[a] \in Nat
        /\ lock \in [Addrs -> 0 .. MaxLockout] /\ wrongCodes \in [Addrs -> Nat]
        /\ abreast \in [Addrs -> Nat]
    BY BodiesFinite DEF L!TypeOK, L!LocalAssumption
  <1>a. ASSUME UNCHANGED <<req, from>> PROVE Bodies(a)' = Bodies(a) BY <1>a DEF Bodies
  <1>b. ASSUME NEW b \in Addrs, L!RecordFailure(b), b # a
        PROVE  lock'[a] = lock[a] /\ failures'[a] = failures[a] /\ abreast'[a] = abreast[a]
    BY <1>b DEF L!RecordFailure, L!TypeOK
  <1>c. ASSUME NEW b \in Addrs, L!RecordSuccess(b)
        PROVE  IF b = a THEN lock'[a] = 0 /\ wrongCodes'[a] = 0
               ELSE /\ lock'[a] = lock[a] /\ failures'[a] = failures[a]
                    /\ wrongCodes'[a] = wrongCodes[a] /\ abreast'[a] = abreast[a]
    BY <1>c DEF L!RecordSuccess, L!TypeOK
  <1>1. ASSUME NEW r \in Reqs, NEW b \in Addrs, L!Arrives(r, b) PROVE Allowance(a)'
    <2>1. lock[a] # 0 => Bodies(a)' = Bodies(a)
      BY <1>1 DEF L!Arrives, L!MayTry, Bodies, L!TypeOK
    <2> QED BY <1>0, <1>1, <2>1, AllowanceQuiet DEF L!Arrives, L!throttleVars
  <1>2. ASSUME NEW r \in Reqs, L!NoBody(r) \/ L!HumanRefuses(r) PROVE Allowance(a)'
    <2>1. L!Over(r) /\ UNCHANGED L!throttleVars BY <1>2 DEF L!NoBody, L!HumanRefuses
    <2> QED BY <2>1, BodiesOver, AllowanceQuiet DEF L!throttleVars
  <1>3. ASSUME NEW r \in Reqs, L!Over(r), req[r] = "body", L!RecordFailure(from[r]),
               wrongCodes' = wrongCodes \/ wrongCodes' = [wrongCodes EXCEPT ![from[r]] = @ + 1]
        PROVE  Allowance(a)'
    <2>0. from[r] \in Addrs BY <1>3 DEF Known
    <2>1. CASE from[r] # a
      <3>1. wrongCodes'[a] = wrongCodes[a] BY <1>0, <1>3, <2>0, <2>1
      <3> QED BY <1>3, <1>b, <2>0, <2>1, <3>1, BodiesOver, AllowanceQuiet
    <2>2. CASE from[r] = a
      <3>1. r \in Bodies(a) BY <1>3, <2>2 DEF Bodies
      <3>2. PICK n \in {0, 1} : wrongCodes'[a] = wrongCodes[a] + n
        BY <1>0, <1>3, <2>2
      <3>3. Cardinality(Bodies(a)') + n <= Cardinality(Bodies(a))
        BY <1>0, <1>3, <3>1, BodiesOver
      <3> QED BY <1>3, <2>2, <3>2, <3>3, AllowanceFailure
    <2> QED BY <2>1, <2>2
  <1>4. ASSUME NEW r \in Reqs,
               L!RedeemNothing(r) \/ L!RedeemStaleNonce(r) \/ L!RedeemWrongCode(r)
        PROVE  Allowance(a)'
    BY <1>3, <1>4 DEF L!RedeemNothing, L!RedeemStaleNonce, L!RedeemWrongCode
  <1>5. ASSUME NEW r \in Reqs, L!RedeemRight(r) PROVE Allowance(a)'
    <2>1. Bodies(a)' = Bodies(a) \ {r} BY <1>5 DEF L!RedeemRight, Bodies, L!TypeOK
    <2>2. Cardinality(Bodies(a)') <= Cardinality(Bodies(a))
      <3>1. IsFiniteSet(Bodies(a)) BY BodiesFinite
      <3>2. CASE r \in Bodies(a)
        <4>1. Cardinality(Bodies(a) \ {r}) = Cardinality(Bodies(a)) - 1
          BY <3>1, <3>2, FS_RemoveElement
        <4> QED BY <1>0, <2>1, <4>1
      <3>3. CASE r \notin Bodies(a)
        <4>1. Bodies(a)' = Bodies(a) BY <2>1, <3>3
        <4> QED BY <1>0, <4>1
      <3> QED BY <3>2, <3>3
    <2> QED BY <1>5, <2>2, AllowanceQuiet DEF L!RedeemRight, L!throttleVars
  <1>6. ASSUME NEW r \in Reqs, L!HumanApproves(r) PROVE Allowance(a)'
    <2>1. from[r] \in Addrs /\ L!Over(r) /\ L!RecordSuccess(from[r]) BY <1>6 DEF L!HumanApproves, Known
    <2> QED BY <1>c, <2>1, BodiesOver, AllowanceQuiet, AllowanceFresh
  <1>7. ASSUME NEW b \in Addrs, L!RecordSuccess(b), UNCHANGED <<req, from>> PROVE Allowance(a)'
    BY <1>0, <1>a, <1>c, <1>7, AllowanceQuiet, AllowanceFresh
  <1>8. ASSUME NEW b \in Addrs, L!RecordFailure(b), UNCHANGED <<wrongCodes, req, from>>
        PROVE  Allowance(a)'
    <2>1. CASE b = a
      <3>1. wrongCodes'[a] = wrongCodes[a] + 0
            /\ Cardinality(Bodies(a)') + 0 <= Cardinality(Bodies(a))
        BY <1>0, <1>a, <1>8
      <3> QED BY <1>8, <2>1, <3>1, AllowanceFailure
    <2>2. CASE b # a BY <1>0, <1>a, <1>b, <1>8, <2>2, AllowanceQuiet
    <2> QED BY <2>1, <2>2
  <1>9. ASSUME NEW b \in Addrs, L!Sweep(b) \/ \E good \in BOOLEAN : L!TokenLogin(b, good)
        PROVE  Allowance(a)'
    BY <1>7, <1>8, <1>9 DEF L!Sweep, L!TokenLogin
  <1>10. CASE L!TunnelUp \/ L!Listens
    BY <1>0, <1>a, <1>10, AllowanceQuiet DEF L!TunnelUp, L!Listens, L!throttleVars
  <1>11. CASE L!Tick
    <2>1. /\ lock'[a] = L!Less(lock[a]) /\ wrongCodes'[a] = IF lock[a] = 1 THEN 0 ELSE wrongCodes[a]
          /\ abreast'[a] = IF lock[a] = 1 THEN 0 ELSE abreast[a]
          /\ failures' = failures /\ Bodies(a)' = Bodies(a)
      BY <1>a, <1>11 DEF L!Tick
    <2>2. CASE lock[a] = 1 BY <2>1, <2>2, AllowanceFresh DEF L!Less
    <2>3. CASE lock[a] # 1
      <3>1. lock'[a] = 0 <=> lock[a] = 0 BY <1>0, <2>1, <2>3 DEF L!Less
      <3> QED BY <2>1, <2>3, <3>1 DEF Allowance
    <2> QED BY <2>2, <2>3
  <1>12. CASE UNCHANGED L!vars BY <1>0, <1>a, <1>12, AllowanceQuiet DEF L!vars, L!throttleVars
  <1> QED BY <1>1, <1>2, <1>4, <1>5, <1>6, <1>9, <1>10, <1>11, <1>12 DEF L!Next

-----------------------------------------------------------------------------
\* The invariant holds at the start.
LEMMA LocalInit == L!LocalAssumption /\ L!Init => LocalInv
  <1> SUFFICES ASSUME L!LocalAssumption, L!Init PROVE LocalInv OBVIOUS
  <1>0. /\ left \in 0 .. Ttl /\ wrong \in 0 .. MaxCodeAttempts
        /\ failures \in [Addrs -> 0 .. FreeFailures]
        /\ lock \in [Addrs -> 0 .. MaxLockout] /\ lockout \in [Addrs -> 0 .. MaxLockout]
        /\ wrongCodes \in [Addrs -> Nat] /\ abreast \in [Addrs -> Nat]
    BY DEF L!LocalAssumption, L!Init
  <1>a. /\ armed \in BOOLEAN /\ shown \in BOOLEAN /\ hosted \in BOOLEAN
        /\ listening \in BOOLEAN /\ unheard \in BOOLEAN
    BY Zenon DEF L!Init
  <1>b. req \in [Reqs -> {"idle", "body", "asked"}] /\ from \in [Reqs -> Addrs \cup {None}]
    BY DEF L!Init
  <1>1. L!TypeOK BY <1>0, <1>a, <1>b DEF L!TypeOK
  <1>2. Door /\ L!ShownWorks /\ Known BY DEF L!Init, Door, L!ShownWorks, Known
  <1>3. \A a \in Addrs : Allowance(a) BY DEF L!Init, Allowance
  <1> QED BY <1>1, <1>2, <1>3 DEF LocalInv

\* The inductive invariant of pairing on the local network holds throughout
\* every behaviour (pairing-local.ts, server.ts, auth-throttle.ts).
THEOREM LocalInvariant == L!LocalAssumption /\ L!Spec => []LocalInv
  <1>1. LocalInv /\ [L!Next]_L!vars => LocalInv'
    <2> SUFFICES ASSUME LocalInv, [L!Next]_L!vars PROVE LocalInv' OBVIOUS
    <2>1. L!LocalAssumption' BY DEF LocalInv, L!LocalAssumption
    <2> QED BY <2>1, LocalTypeStep, DoorStep, AllowanceStep DEF LocalInv
  <1> QED BY <1>1, LocalInit, PTL DEF L!Spec

\* The code on the screen is good for one request (pairing-local.ts:128-131,
\* 395-400), however many arrive at once.
THEOREM CodeIsGoodForOne == L!LocalAssumption /\ L!Spec => []L!OneUseCode
  <1>1. LocalInv => L!OneUseCode
    <2> SUFFICES ASSUME LocalInv PROVE L!OneAtTheDoor BY DEF LocalInv, L!OneUseCode
    <2>1. CASE L!Asked = {}
      BY <2>1, FS_EmptySet, SameSizes DEF L!OneAtTheDoor
    <2>2. CASE L!Asked # {}
      <3>1. PICK r \in Reqs : req[r] = "asked" BY <2>2 DEF L!Asked
      <3>2. L!Asked = {r} BY <3>1 DEF L!Asked, LocalInv, Door
      <3>3. Cardinality(L!Asked) = 1 BY <3>2, FS_Singleton
      <3>4. ~armed BY <3>1 DEF LocalInv, Door
      <3> QED BY <3>3, <3>4, SameSizes DEF L!OneAtTheDoor
    <2> QED BY <2>1, <2>2
  <1> QED BY <1>1, LocalInvariant, PTL

\* An address guesses the code no more often than failures are free, and once
\* more for every request that was past the test when its lock-out began
\* (server.ts:109-120, 160), for any number of requests and any limits.
THEOREM GuessingIsBounded == L!LocalAssumption /\ L!Spec => []L!GuessesAreBounded
  <1>1. LocalInv => L!GuessesAreBounded
    <2> SUFFICES ASSUME LocalInv, NEW a \in Addrs
                 PROVE  wrongCodes[a] <= FreeFailures + abreast[a]
      BY DEF L!GuessesAreBounded
    <2>1. /\ Allowance(a) /\ wrongCodes[a] \in Nat /\ FreeFailures \in Nat \ {0}
          /\ failures[a] \in Nat /\ abreast[a] \in Nat
      BY DEF L!LocalAssumption, LocalInv, L!TypeOK
    <2> QED BY <2>1, BodiesFinite DEF Allowance, LocalInv
  <1> QED BY <1>1, LocalInvariant, PTL
=============================================================================

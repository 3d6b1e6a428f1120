---------------------------- MODULE LocalPairing ----------------------------
(***************************************************************************)
(* Pairing on the local network: the one offer (a QR nonce and six digits) *)
(* `mtmux start` shows, armed and re-armed by apps/cli/src/commands/       *)
(* start.ts, redeemed through handleLocalPairing of apps/relay/src/        *)
(* server.ts and redeemLocalPairing of pairing-local.ts, with the back-off *)
(* per address of auth-throttle.ts in front, which token logins share.     *)
(*                                                                         *)
(* A request is checked against the back-off, then its body is awaited,    *)
(* then it is redeemed, then, if it was right, a human is awaited: four    *)
(* steps, with those of other requests between them.  What a credential is *)
(* does not matter, only whether it is the one armed now.  Times are kept  *)
(* as the time that is left, in units of BASE_LOCKOUT_MS.                  *)
(***************************************************************************)
EXTENDS Naturals, FiniteSets

CONSTANTS
    Reqs, Addrs, None,
    MaxCodeAttempts,    \* MAX_CODE_ATTEMPTS
    FreeFailures,       \* FAILURES_BEFORE_LOCKOUT
    MaxLockout,         \* MAX_LOCKOUT_MS, in units
    Ttl                 \* PAIRING_NONCE_TTL_MS, in units

ASSUME LocalAssumption ==
    /\ None \notin Addrs
    /\ IsFiniteSet(Reqs)
    /\ MaxCodeAttempts \in Nat \ {0} /\ FreeFailures \in Nat \ {0}
    /\ MaxLockout \in Nat \ {0} /\ Ttl \in Nat \ {0}

VARIABLES
    \* the relay's offer
    armed,          \* offer # null
    left, wrong,    \* its expiresAt and its wrong guesses
    \* the CLI
    shown,          \* localInvite # null
    hosted,         \* the tunnel is up, and its banner replaces the local one
    listening,      \* onLocalPairingSpent has its listener
    \* requests
    req, from,
    \* the back-off of an address
    failures, lock, lockout,
    \* history
    guesses,        \* wrong codes of an address judged since it was last free to try
    abreast,        \* its requests past the back-off when its lock-out began
    unheard         \* the last offer was spent before anyone listened

offerVars == <<armed, left, wrong>>
screenVars == <<shown, hosted, listening, unheard>>
throttleVars == <<failures, lock, lockout, guesses, abreast>>
vars == <<offerVars, screenVars, req, from, throttleVars>>

TypeOK ==
    /\ armed \in BOOLEAN /\ left \in 0 .. Ttl /\ wrong \in 0 .. MaxCodeAttempts
    /\ shown \in BOOLEAN /\ hosted \in BOOLEAN
    /\ listening \in BOOLEAN /\ unheard \in BOOLEAN
    /\ req \in [Reqs -> {"idle", "body", "asked"}]
    /\ from \in [Reqs -> Addrs \cup {None}]
    /\ failures \in [Addrs -> 0 .. FreeFailures]
    /\ lock \in [Addrs -> 0 .. MaxLockout]
    /\ lockout \in [Addrs -> 0 .. MaxLockout]
    /\ guesses \in [Addrs -> Nat] /\ abreast \in [Addrs -> Nat]

\* A machine that starts without a tunnel shows a code.  What re-arms it comes
\* later.
Init ==
    /\ armed = TRUE /\ left = Ttl /\ wrong = 0
    /\ shown = TRUE /\ hosted = FALSE
    /\ listening = FALSE /\ unheard = FALSE
    /\ req = [r \in Reqs |-> "idle"] /\ from = [r \in Reqs |-> None]
    /\ failures = [a \in Addrs |-> 0]
    /\ lock = [a \in Addrs |-> 0] /\ lockout = [a \in Addrs |-> 0]
    /\ guesses = [a \in Addrs |-> 0] /\ abreast = [a \in Addrs |-> 0]

-----------------------------------------------------------------------------
(***************************************************************************)
(* The back-off.  Failures past the threshold are not counted further:     *)
(* nothing tells them apart.                                               *)
(***************************************************************************)
MayTry(a) == lock[a] = 0

Least(m, n) == IF m <= n THEN m ELSE n

\* The lock-out that a failure brings: none while failures are free, then one
\* unit, doubled by every further one up to the maximum.
PastThreshold(a) == failures[a] >= FreeFailures         \* mutant of AtThreshold
AtThreshold(a) == failures[a] + 1 >= FreeFailures
Longer(n) == IF n = 0 THEN 1 ELSE Least(2 * n, MaxLockout)

RecordFailure(a) ==
    LET next == IF AtThreshold(a) THEN Longer(lockout[a]) ELSE lockout[a] IN
    /\ failures' = [failures EXCEPT ![a] = Least(@ + 1, FreeFailures)]
    /\ lockout' = [lockout EXCEPT ![a] = next]
    /\ lock' = [lock EXCEPT ![a] = IF AtThreshold(a) THEN next ELSE @]
    /\ abreast' = [abreast EXCEPT ![a] = IF MayTry(a) /\ AtThreshold(a)
            THEN Cardinality({r \in Reqs : req'[r] = "body" /\ from'[r] = a}) ELSE @]

RecordSuccess(a) ==
    /\ failures' = [failures EXCEPT ![a] = 0]
    /\ lockout' = [lockout EXCEPT ![a] = 0]
    /\ lock' = [lock EXCEPT ![a] = 0]
    /\ guesses' = [guesses EXCEPT ![a] = 0] /\ abreast' = [abreast EXCEPT ![a] = 0]

\* sweep(), in a failure of one of many other addresses: an address that has
\* been quiet for long and is not locked out is forgotten.  (The hard cap of
\* ten thousand addresses is taken not to be met.)
Sweep(a) ==
    /\ lock[a] = 0 /\ failures[a] > 0
    /\ RecordSuccess(a)
    /\ UNCHANGED <<offerVars, screenVars, req, from>>

-----------------------------------------------------------------------------
(***************************************************************************)
(* The offer.                                                              *)
(***************************************************************************)
Claimable == armed /\ left > 0

\* armLocalInvite(): a new offer replaces the old one and is the one shown.
ArmLocalInvite ==
    armed' = TRUE /\ left' = Ttl /\ wrong' = 0 /\ shown' = TRUE /\ unheard' = FALSE

\* onLocalPairingSpent: paired, refused or burned, a fresh code is armed; with
\* the tunnel up it is not printed.  Before the listener is there nothing is done.
NobodyListens ==
    armed' = FALSE /\ unheard' = TRUE /\ UNCHANGED <<left, wrong, shown>>
RearmsOnPairing(outcome) ==                             \* mutant of Spent
    IF ~listening THEN NobodyListens
    ELSE IF outcome = "paired" THEN ArmLocalInvite
    ELSE armed' = FALSE /\ UNCHANGED <<left, wrong, shown, unheard>>
Spent(outcome) == IF listening THEN ArmLocalInvite ELSE NobodyListens

\* The rest of start(), past the update check and the reading of two files.
Listens ==
    /\ ~listening
    /\ listening' = TRUE
    /\ UNCHANGED <<offerVars, shown, hosted, unheard, req, from, throttleVars>>

\* POST /_pair/local passes the back-off, and its body is awaited.
Arrives(r, a) ==
    /\ req[r] = "idle"
    /\ MayTry(a)
    /\ req' = [req EXCEPT ![r] = "body"] /\ from' = [from EXCEPT ![r] = a]
    /\ UNCHANGED <<offerVars, screenVars, throttleVars>>

\* Answered: the request is over.
Over(r) == req' = [req EXCEPT ![r] = "idle"] /\ from' = [from EXCEPT ![r] = None]

\* No usable body: 400, and it costs nothing.
NoBody(r) ==
    /\ req[r] = "body"
    /\ Over(r)
    /\ UNCHANGED <<offerVars, screenVars, throttleVars>>

\* Nothing is armed, or it has lapsed: 401.  Nobody is told.
RedeemNothing(r) ==
    /\ req[r] = "body" /\ ~Claimable
    /\ Over(r)
    /\ armed' = FALSE
    /\ RecordFailure(from[r])
    /\ UNCHANGED <<left, wrong, screenVars, guesses>>

\* A stale QR is no guess at the code, but it is a failure of the address.
RedeemStaleNonce(r) ==
    /\ req[r] = "body" /\ Claimable
    /\ Over(r)
    /\ RecordFailure(from[r])
    /\ UNCHANGED <<offerVars, screenVars, guesses>>

\* A wrong code costs the offer a guess, and the last guess burns it.
RedeemWrongCode(r) ==
    /\ req[r] = "body" /\ Claimable
    /\ Over(r)
    /\ IF wrong + 1 >= MaxCodeAttempts
         THEN Spent("burned")
         ELSE /\ wrong' = wrong + 1
              /\ UNCHANGED <<armed, left, shown, unheard>>
    /\ RecordFailure(from[r])
    /\ guesses' = [guesses EXCEPT ![from[r]] = @ + 1]
    /\ UNCHANGED <<hosted, listening>>

\* The right nonce or code spends the offer, and then a human is asked.
BurnsLater == armed                                     \* mutant of Burned
Burned == FALSE
RedeemRight(r) ==
    /\ req[r] = "body" /\ Claimable
    /\ req' = [req EXCEPT ![r] = "asked"]
    /\ armed' = Burned
    /\ UNCHANGED <<left, wrong, screenVars, from, throttleVars>>

\* Yes: a token is issued and the address starts afresh.
HumanApproves(r) ==
    /\ req[r] = "asked"
    /\ Over(r)
    /\ Spent("paired")
    /\ RecordSuccess(from[r])
    /\ UNCHANGED <<hosted, listening>>

\* No, or nobody answered: 403, which is not a failed guess.  A question that is
\* lost is never answered, and the request stands for ever.
HumanRefuses(r) ==
    /\ req[r] = "asked"
    /\ Over(r)
    /\ Spent("refused")
    /\ UNCHANGED <<hosted, listening, throttleVars>>

-----------------------------------------------------------------------------
\* A login over the websocket shares the back-off.
TokenLogin(a, good) ==
    /\ MayTry(a)
    /\ UNCHANGED <<offerVars, screenVars, req, from>>
    /\ IF good THEN RecordSuccess(a) ELSE RecordFailure(a) /\ UNCHANGED guesses

\* dropLocalInvite() when the tunnel comes up, late or from the panel.
TunnelUp ==
    /\ ~hosted
    /\ hosted' = TRUE /\ shown' = FALSE
    /\ armed' = (armed /\ ~shown)
    /\ UNCHANGED <<listening, unheard, left, wrong, req, from, throttleVars>>

Less(n) == IF n = 0 THEN 0 ELSE n - 1
Tick ==
    /\ left' = IF armed THEN Less(left) ELSE left
    /\ lock' = [a \in Addrs |-> Less(lock[a])]
    /\ guesses' = [a \in Addrs |-> IF lock[a] = 1 THEN 0 ELSE guesses[a]]
    /\ abreast' = [a \in Addrs |-> IF lock[a] = 1 THEN 0 ELSE abreast[a]]
    /\ UNCHANGED <<armed, wrong, screenVars, req, from, failures, lockout>>

Next ==
    \/ \E r \in Reqs :
         \/ \E a \in Addrs : Arrives(r, a)
         \/ NoBody(r)
         \/ RedeemNothing(r) \/ RedeemStaleNonce(r)
         \/ RedeemWrongCode(r) \/ RedeemRight(r)
         \/ HumanApproves(r) \/ HumanRefuses(r)
    \/ \E a \in Addrs, good \in BOOLEAN : TokenLogin(a, good)
    \/ \E a \in Addrs : Sweep(a)
    \/ TunnelUp \/ Listens
    \/ Tick

Spec == Init /\ [][Next]_vars

-----------------------------------------------------------------------------
(***************************************************************************)
(* Properties.                                                             *)
(***************************************************************************)
Asked == {r \in Reqs : req[r] = "asked"}

\* "The offer is burned before the human is asked, not after"
\* (pairing-local.ts:395-400): a code that is being decided about is good for
\* nobody else, so no two requests are ever before the human at once, and none
\* can be redeemed meanwhile.
OneAtTheDoor ==
    /\ Cardinality(Asked) <= 1
    /\ Asked # {} => ~armed

\* "The terminal shows the live code" (pairing-local.ts:128-131): what is on the
\* screen works, unless it is being decided about, has lapsed of old age or was
\* spent before the machine listened for it.
ShownWorks == shown /\ Asked = {} => armed \/ left = 0 \/ unheard

\* The code on the screen is good for one request: burned before the human is
\* asked, and replaced by one that works (pairing-local.ts:128-131, 395-400).
OneUseCode == TypeOK /\ OneAtTheDoor /\ ShownWorks

\* The back-off is tested before the body is awaited and charged after it
\* (server.ts:109-120, 160): between two times an address is free to try again it
\* may guess the code as often as failures are free, and once more for every
\* request that was past the test when its lock-out began.
GuessesAreBounded == \A a \in Addrs : guesses[a] <= FreeFailures + abreast[a]

\* "an address gets roughly five attempts per quarter hour" (server.ts:102-103):
\* as many as failures are free.  This does not hold: nothing bounds the requests
\* an address may have past the test.
FreeGuessesOnly == \A a \in Addrs : guesses[a] <= FreeFailures

\* Digits on the screen that no longer work are "the one failure mode a printed
\* secret must never have" (start.ts:2890-2893).  This does not hold between the
\* banner and the listener.
NeverDeadOnScreen == shown /\ Asked = {} => armed \/ left = 0

\* "A six-digit credential that is live for another day with nothing displaying
\* it is the one shape a printed secret must never take" (pairing-local.ts:615).  This does
\* not hold: a question answered after the tunnel came up re-arms the offer.
HiddenIsDead == Claimable => shown /\ ~hosted
=============================================================================

----------------------------- MODULE Approvals ------------------------------
(***************************************************************************)
(* How `mtmux start` gets a human's answer to "let this device in?".  A    *)
(* question (decideAccess, apps/cli/src/access-prompt.ts) is raced between *)
(* two channels, and the first answer wins:                                *)
(*   in-app - a dialog on every browser that may approve, one question at  *)
(*            a time (apps/relay/src/device-approval.ts);                  *)
(*   local  - a chain: an open `mtmux approve` window                      *)
(*            (apps/cli/src/approve-control.ts), else the terminal, which  *)
(*            is a readline prompt or the device panel                     *)
(*            (apps/cli/src/device-panel-control.ts), else parking the     *)
(*            question for a window that may still open.                   *)
(*                                                                         *)
(* Promise callbacks run before the next event is taken up, so one event   *)
(* with everything it settles, the losing channel's abort included, is one *)
(* step.  Timers carry no clock: an armed timer may fire at any moment.    *)
(* Only the window's end is split, into the moment `expiresAt` passes      *)
(* (lapsed) and the moment the timer runs, since handlers look at the      *)
(* first.  Why a question was denied is not told apart, nor is the grant   *)
(* that makes a browser an approver; a question is asked once.             *)
(***************************************************************************)
EXTENDS Naturals, Sequences

CONSTANTS
    Questions,   \* the calls of decideAccess
    Phones,      \* browsers that may approve
    Sessions,    \* the runs of `mtmux approve`
    None

ASSUME ApprovalsAssumption == None \notin Questions \cup Phones \cup Sessions

VARIABLES
    chain,     \* where the local chain of each question is
    verdict,   \* what decideAccess returned
    stdin,     \* who reads the terminal: "none", "readline" or "panel"
    screen,    \* the question the panel shows and would answer
    \* device-approval.ts and the browsers
    appSlot,   \* its pending question
    phones,    \* the connected ones
    inbox,     \* messages on their way to each
    dialog,    \* the question each shows
    \* approve-control.ts and the runs of `mtmux approve`
    slot,      \* its pending question
    waiter,    \* the session that holds the window
    lapsed,    \* the window's expiresAt has passed
    held,      \* the poll held for it: "none", "fresh", "dead" (abandoned)
    stale,     \* timers of replaced windows, still to fire
    client,    \* what each run of `mtmux approve` is doing
    shown,     \* the question it last showed
    said       \* history: questions a human said yes to

appVars     == <<appSlot, inbox>>
phoneVars   == <<phones, dialog>>
windowVars  == <<waiter, lapsed, stale>>
clientVars  == <<held, client, shown>>
raceVars    == <<chain, verdict, slot, screen>>
vars == <<raceVars, stdin, appVars, phoneVars, windowVars, clientVars, said>>

Open(q)     == [type |-> "request", id |-> q]
Resolved(q) == [type |-> "resolved", id |-> q]

TypeOK ==
    /\ chain \in [Questions ->
            {"idle", "offered", "prompted", "parked", "done"}]
    /\ verdict \in [Questions -> {"none", "approved", "denied"}]
    /\ stdin \in {"none", "readline", "panel"}
    /\ {screen, appSlot, slot} \subseteq Questions \cup {None}
    /\ phones \subseteq Phones
    /\ inbox \in [Phones -> Seq({Open(q) : q \in Questions}
                                  \cup {Resolved(q) : q \in Questions})]
    /\ dialog \in [Phones -> Questions \cup {None}]
    /\ waiter \in Sessions \cup {None} /\ lapsed \in BOOLEAN
    /\ held \in {"none", "fresh", "dead"} /\ stale \in Nat
    /\ client \in [Sessions ->
            {"idle", "polling", "asking", "between", "done", "gone"}]
    /\ shown \in [Sessions -> Questions \cup {None}]
    /\ said \subseteq Questions

Init ==
    /\ chain = [q \in Questions |-> "idle"]
    /\ verdict = [q \in Questions |-> "none"]
    /\ stdin \in {"none", "readline"}
    /\ screen = None /\ appSlot = None /\ slot = None
    /\ phones = {}
    /\ inbox = [p \in Phones |-> <<>>]
    /\ dialog = [p \in Phones |-> None]
    /\ waiter = None /\ lapsed = FALSE /\ stale = 0
    /\ held = "none"
    /\ client = [s \in Sessions |-> "idle"]
    /\ shown = [s \in Sessions |-> None]
    /\ said = {}

-----------------------------------------------------------------------------
(* The race. *)

\* The verdict v for those of Q that have none yet: the first answer wins.
Answers(Q, v) == [q \in {x \in Q : verdict[x] = "none"} |-> v]

\* Whose prompt hears that another channel answered: a readline prompt, or
\* the question whose resolver the panel holds.
NotListening(q, scr) == FALSE                           \* mutant of AtPrompt
AtPrompt(q, scr) == stdin = "readline" \/ scr = q

\* The step reaches the verdicts f.  ch, sl and scr are the chains, the slot
\* and the screen as the channel that answered leaves them; the abort then
\* takes the prompt down and frees a parked slot.  An offered question was
\* given no signal and stays where it is.
Settle(f, ch, sl, scr) ==
    /\ verdict' = [q \in Questions |-> IF q \in DOMAIN f THEN f[q] ELSE verdict[q]]
    /\ chain' = [q \in Questions |->
            IF /\ q \in DOMAIN f
               /\ \/ ch[q] = "parked"
                  \/ ch[q] = "prompted" /\ AtPrompt(q, scr)
            THEN "done" ELSE ch[q]]
    /\ slot' = IF sl \in DOMAIN f /\ ch[sl] = "parked" THEN None ELSE sl
    /\ screen' = IF scr \in DOMAIN f THEN None ELSE scr

\* A message to every connected browser.
Broadcast(box, m) ==
    [p \in Phones |-> IF p \in phones THEN Append(box[p], m) ELSE box[p]]

\* The in-app question ap is taken down if it is among the decided ones.
Finish(D, ap, box) ==
    IF ap \in D
    THEN appSlot' = None /\ inbox' = Broadcast(box, Resolved(ap))
    ELSE appSlot' = ap /\ inbox' = box

\* Hand the question q to the poll h that session s holds, if both exist.
LeavesHeld(q, h, s, cl) ==                              \* mutant of Flush
    held' = h /\ client' = cl /\ UNCHANGED shown
Flush(q, h, s, cl) ==
    /\ held' = IF q # None THEN "none" ELSE h
    /\ IF q # None /\ h = "fresh"
       THEN /\ client' = [cl EXCEPT ![s] = "asking"]
            /\ shown' = [shown EXCEPT ![s] = q]
       ELSE client' = cl /\ UNCHANGED shown

NoVerdict == Answers({}, "denied")

-----------------------------------------------------------------------------
(* A question begins. *)

\* It is put to the browsers, unless they have one already or none is there.
\* D is what this same step decides.
AskInApp(q, D) ==
    IF appSlot = None /\ phones # {}
    THEN Finish(D, q, Broadcast(inbox, Open(q)))
    ELSE UNCHANGED appVars

WindowOpen == waiter # None /\ ~lapsed

\* The open window takes it.
Offered(q) ==
    /\ WindowOpen /\ slot = None
    /\ Settle(NoVerdict, [chain EXCEPT ![q] = "offered"], q, screen)
    /\ AskInApp(q, {})
    /\ Flush(q, held, waiter, client)

\* The terminal asks.  The panel shows the newest question only.
Prompted(q) ==
    /\ ~WindowOpen /\ stdin # "none"
    /\ Settle(NoVerdict, [chain EXCEPT ![q] = "prompted"], slot,
              IF stdin = "panel" THEN q ELSE screen)
    /\ AskInApp(q, {})
    /\ UNCHANGED clientVars

\* Nobody to ask here: it waits in the slot for a window.
Parked(q) ==
    /\ ~WindowOpen /\ stdin = "none" /\ slot = None
    /\ Settle(NoVerdict, [chain EXCEPT ![q] = "parked"], q, screen)
    /\ AskInApp(q, {})
    /\ Flush(q, held, waiter, client)

\* The slot it needs is taken: denied on the spot.
TurnedAway(q) ==
    /\ WindowOpen \/ stdin = "none"
    /\ slot # None
    /\ Settle(Answers({q}, "denied"), [chain EXCEPT ![q] = "done"], slot,
              screen)
    /\ AskInApp(q, {q})
    /\ UNCHANGED clientVars

Begin(q) ==
    /\ chain[q] = "idle"
    /\ Offered(q) \/ Prompted(q) \/ Parked(q) \/ TurnedAway(q)
    /\ UNCHANGED <<stdin, phoneVars, windowVars, said>>

-----------------------------------------------------------------------------
(* The browsers. *)

\* The live question, for a browser that has just authenticated.
Replay == IF appSlot = None THEN <<>> ELSE <<Open(appSlot)>>

\* A browser authenticates.
PhoneConnects(p) ==
    /\ p \notin phones
    /\ phones' = phones \cup {p}
    /\ inbox' = [inbox EXCEPT ![p] = Replay]
    /\ UNCHANGED <<raceVars, stdin, appSlot, dialog, windowVars, clientVars,
                   said>>

\* With the last browser gone the channel abstains, which decides nothing:
\* the local chain has the question too.
Abstains == phones = {}

\* A browser's socket closes.  (The connection leaves the list, at a hang-up of
\* the panel as early as that, a moment before noteApproversChanged() looks at
\* the list: the two are one step here, and SomeoneIsAsked is about the end of
\* it.)
PhoneCloses(p) ==
    /\ p \in phones
    /\ phones' = phones \ {p}
    /\ appSlot' = IF Abstains' THEN None ELSE appSlot
    /\ inbox' = [inbox EXCEPT ![p] = <<>>]
    /\ dialog' = [dialog EXCEPT ![p] = None]
    /\ UNCHANGED <<raceVars, stdin, windowVars, clientVars, said>>

\* A browser is told of a question, or that one is over.
PhoneHears(p) ==
    /\ inbox[p] # <<>>
    /\ LET m == Head(inbox[p]) IN
       dialog' = [dialog EXCEPT
            ![p] = IF m.type = "request" THEN m.id
                   ELSE IF dialog[p] = m.id THEN None ELSE @]
    /\ inbox' = [inbox EXCEPT ![p] = Tail(@)]
    /\ UNCHANGED <<raceVars, stdin, appSlot, phones, windowVars, clientVars,
                   said>>

\* resolveDeviceApproval takes an answer to the pending question only.
StillAsked(q) == appSlot = q

Says(q, yes) == said' = IF yes THEN said \cup {q} ELSE said

Verdict(yes) == IF yes THEN "approved" ELSE "denied"

\* Somebody taps Approve or Deny.
PhoneAnswers(p, yes) ==
    /\ dialog[p] # None /\ appSlot # None /\ StillAsked(dialog[p])
    /\ Settle(Answers({appSlot}, Verdict(yes)), chain, slot, screen)
    /\ Finish({appSlot}, appSlot, inbox)
    /\ Says(dialog[p], yes)
    /\ UNCHANGED <<stdin, phoneVars, windowVars, clientVars>>

\* The dialog's 100 s are over.
AskExpires ==
    /\ appSlot # None
    /\ Settle(Answers({appSlot}, "denied"), chain, slot, screen)
    /\ Finish({appSlot}, appSlot, inbox)
    /\ UNCHANGED <<stdin, phoneVars, windowVars, clientVars, said>>

-----------------------------------------------------------------------------
(* `mtmux approve`. *)

\* settlePending: the question in the slot is answered, if it still counts.
SettlePending(v) ==
    LET D == {slot} \ {None}
        ch == [q \in Questions |-> IF q \in D THEN "done" ELSE chain[q]]
        f == Answers(D, v)
    IN  Settle(f, ch, None, screen) /\ Finish(DOMAIN f, appSlot, inbox)

\* The window closes under a question nobody then answers.
DropsSilently ==                                        \* mutant of DropWaiter
    /\ waiter' = None /\ lapsed' = FALSE /\ held' = "none" /\ slot' = None
    /\ UNCHANGED <<client, chain, verdict, screen, appVars>>

\* dropWaiter: the window closes, its poll is told, the slot is denied.
DropWaiter ==
    /\ waiter' = None /\ lapsed' = FALSE /\ held' = "none"
    /\ client' = IF held = "fresh" THEN [client EXCEPT ![waiter] = "gone"]
                 ELSE client
    /\ SettlePending("denied")

\* A poll arrives.  It opens a window, joins its own, or replaces one whose
\* time has passed, whose timer is left running.
Poll(s) ==
    /\ client[s] \in {"idle", "between"}
    /\ waiter \in {None, s} \/ lapsed
    /\ waiter' = s
    /\ lapsed' = (waiter = s /\ lapsed)
    /\ stale' = stale + (IF waiter \in {None, s} THEN 0 ELSE 1)
    /\ Flush(slot, "fresh", s, [client EXCEPT ![s] = "polling"])
    /\ UNCHANGED <<raceVars, stdin, appVars, phoneVars, said>>

\* Somebody else's window is open.
PollRefused(s) ==
    /\ client[s] \in {"idle", "between"}
    /\ waiter \notin {None, s} /\ ~lapsed
    /\ client' = [client EXCEPT ![s] = "gone"]
    /\ UNCHANGED <<raceVars, stdin, appVars, phoneVars, windowVars, held,
                   shown, said>>

\* The client drops its poll: after 30 s, to poll again, or for good.
PollEnds(s, to) ==
    /\ client[s] \in IF to = "between" THEN {"polling"}
                     ELSE {"polling", "asking", "between"}
    /\ client' = [client EXCEPT ![s] = to]
    /\ held' = IF waiter = s /\ held = "fresh" /\ client[s] = "polling"
               THEN "dead" ELSE held
    /\ UNCHANGED <<raceVars, stdin, appVars, phoneVars, windowVars, shown,
                   said>>

\* The daemon notices.
PollCloses ==
    /\ held = "dead"
    /\ held' = "none"
    /\ SettlePending("denied")
    /\ UNCHANGED <<stdin, phoneVars, windowVars, client, shown, said>>

\* handleDecide takes an answer from the window's session about the question
\* in the slot.
AnyQuestion(s) == waiter = s                            \* mutant of MayDecide
MayDecide(s) == waiter = s /\ slot = shown[s]

\* Without --keep the client is done after one answer.
Decide(s, yes, to) ==
    /\ client[s] = "asking" /\ slot # None /\ MayDecide(s)
    /\ SettlePending(Verdict(yes))
    /\ client' = [client EXCEPT ![s] = to]
    /\ Says(shown[s], yes)
    /\ UNCHANGED <<stdin, phoneVars, windowVars, held, shown>>

\* "Too late - it was already answered elsewhere."
DecideTooLate(s, to) ==
    /\ client[s] = "asking" /\ ~MayDecide(s)
    /\ client' = [client EXCEPT ![s] = to]
    /\ UNCHANGED <<raceVars, stdin, appVars, phoneVars, windowVars, held,
                   shown, said>>

\* The window's time passes.  That is minutes, in which a timer that is due
\* already has run.
Lapse ==
    /\ waiter # None /\ ~lapsed /\ stale = 0
    /\ lapsed' = TRUE
    /\ UNCHANGED <<raceVars, stdin, appVars, phoneVars, waiter, stale,
                   clientVars, said>>

\* Its timer runs.
WindowTimer ==
    /\ waiter # None /\ lapsed
    /\ DropWaiter
    /\ UNCHANGED <<stdin, phoneVars, stale, shown, said>>

\* The timer of a replaced window runs, and drops whichever is there.
StaleTimer ==
    /\ stale > 0
    /\ stale' = stale - 1
    /\ IF waiter = None
       THEN UNCHANGED <<raceVars, appVars, waiter, lapsed, held, client>>
       ELSE DropWaiter
    /\ UNCHANGED <<stdin, phoneVars, shown, said>>

\* The slot's 100 s are over.
OfferTimeout ==
    /\ slot # None
    /\ SettlePending("denied")
    /\ UNCHANGED <<stdin, phoneVars, windowVars, clientVars, said>>

-----------------------------------------------------------------------------
(* The terminal. *)

\* The prompts of Q return v.
Prompts(Q, v) ==
    LET ch == [q \in Questions |-> IF q \in Q THEN "done" ELSE chain[q]]
        f == Answers(Q, v)
    IN  /\ Settle(f, ch, slot, IF screen \in Q THEN None ELSE screen)
        /\ Finish(DOMAIN f, appSlot, inbox)
        /\ UNCHANGED <<stdin, phoneVars, windowVars, clientVars>>

AtReadline == {q \in Questions : stdin = "readline" /\ chain[q] = "prompted"}

\* A line is typed; every readline on the terminal hears it.
TypeLine(yes) ==
    /\ AtReadline # {}
    /\ Prompts(AtReadline, Verdict(yes))
    /\ said' = IF yes THEN said \cup AtReadline ELSE said

\* A readline prompt's 110 s are over.
PromptTimesOut(q) ==
    /\ q \in AtReadline
    /\ Prompts({q}, "denied")
    /\ UNCHANGED said

\* y or n is pressed at the panel.
PressKey(yes) ==
    /\ screen # None
    /\ Prompts({screen}, Verdict(yes))
    /\ Says(screen, yes)

\* The panel's 110 s are over.
PanelTimesOut ==
    /\ screen # None
    /\ Prompts({screen}, "denied")
    /\ UNCHANGED said

\* The panel starts and takes stdin.  Open readlines could not ask after all
\* and are parked: one gets the slot, if it is free, the others are denied.
PanelStarts ==
    /\ stdin = "readline"
    /\ stdin' = "panel"
    /\ \E q \in IF AtReadline = {} \/ slot # None THEN {None} ELSE AtReadline :
        LET lost == AtReadline \ {q}
            ch == [x \in Questions |-> IF x = q THEN "parked"
                                       ELSE IF x \in lost THEN "done"
                                       ELSE chain[x]]
            f == Answers(lost, "denied")
        IN  /\ Settle(f, ch, IF q = None THEN slot ELSE q, screen)
            /\ Finish(DOMAIN f, appSlot, inbox)
            /\ Flush(q, held, waiter, client)
    /\ UNCHANGED <<phoneVars, windowVars, said>>

-----------------------------------------------------------------------------
Next ==
    \/ \E q \in Questions : Begin(q) \/ PromptTimesOut(q)
    \/ \E p \in Phones : PhoneConnects(p) \/ PhoneCloses(p) \/ PhoneHears(p)
    \/ \E yes \in BOOLEAN :
        \/ \E p \in Phones : PhoneAnswers(p, yes)
        \/ \E s \in Sessions, to \in {"between", "done"} : Decide(s, yes, to)
        \/ TypeLine(yes) \/ PressKey(yes)
    \/ \E s \in Sessions :
        \/ Poll(s) \/ PollRefused(s)
        \/ \E to \in {"between", "gone"} : PollEnds(s, to)
        \/ \E to \in {"between", "done"} : DecideTooLate(s, to)
    \/ AskExpires \/ OfferTimeout \/ PanelTimesOut \/ PollCloses
    \/ Lapse \/ WindowTimer \/ StaleTimer \/ PanelStarts

Spec == Init /\ [][Next]_vars

\* The timers run; what humans and sockets do is theirs.
FairSpec ==
    /\ Spec
    /\ WF_vars(AskExpires) /\ WF_vars(OfferTimeout) /\ WF_vars(PanelTimesOut)
    /\ \A q \in Questions : WF_vars(PromptTimesOut(q))

-----------------------------------------------------------------------------
(* Properties. *)

\* Consent: a device is let in only if a human who was shown that question
\* said yes to it.  An answer that arrives late, to a question that has been
\* replaced in a slot, on a dialog or on the screen, approves nothing else,
\* and no timer, closed socket or full slot ever does.
ConsentNeeded ==
    \A q \in Questions : verdict[q] = "approved" => q \in said

\* The losers are told to stop: once a question is decided no dialog, prompt
\* or parked slot still holds it (decideAccess, rule 2).  A question in an
\* open window's slot is left out: `offer` is given no signal.
LosersStop ==
    \A q \in Questions : verdict[q] # "none" =>
        /\ q \notin {appSlot, screen} \cup AtReadline
        /\ slot = q => chain[q] = "offered"

\* A browser that has heard everything shows the question that can still be
\* answered, and no other: broadcasts, the replay to a newcomer and the
\* notice that a question is over agree.
DialogsAgree ==
    \A p \in phones : inbox[p] = <<>> => dialog[p] = appSlot

\* The in-app channel never keeps a question that no browser can answer.
SomeoneIsAsked == appSlot # None => phones # {}

\* A request that arrives between two polls is not lost: a poll is never left
\* waiting while the slot holds a question.
PollIsServed == slot # None => held # "fresh"

\* The places a question is shown at agree with the slots that hold it: every
\* dialog, the in-app slot and the window's poll (device-approval.ts:112-228,
\* approve-control.ts:240-262).
ChannelsAgree ==
    /\ TypeOK
    /\ DialogsAgree
    /\ SomeoneIsAsked
    /\ PollIsServed

Begun(q) == chain[q] # "idle"

\* The panel has replaced the question by a newer one.
Replaced(q) == stdin = "panel" /\ chain[q] = "prompted" /\ screen # q

\* No question is forgotten: while it has no verdict some channel that has a
\* timer running holds it, unless the panel has replaced it by a newer one.
HeldSomewhere ==
    \A q \in Questions :
        (Begun(q) /\ verdict[q] = "none") =>
            q \in {appSlot, slot, screen} \cup AtReadline \/ Replaced(q)

\* "On every channel, in every combination, an unanswered request is denied
\* when it expires" (apps/docs/content/docs/agents/approvals.mdx).  This does not
\* hold for a question the panel has replaced: HeldSomewhere is what does.
SilenceDenies ==
    \A q \in Questions : Begun(q) ~> (verdict[q] # "none")

\* "`null` means nobody is waiting - the caller should fall through to the
\* TTY prompt" (approve-control.ts): no question goes to the window of a
\* `mtmux approve` that has given its one answer and returned.  This does not
\* hold: the window outlives the command (commands/approve.ts:165).
OfferedToSomebody ==
    [][\A q \in Questions :
        (chain[q] = "idle" /\ chain'[q] = "offered")
            => client[waiter] # "done"]_vars
=============================================================================

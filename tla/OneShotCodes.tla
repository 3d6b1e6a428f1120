---------------------------- MODULE OneShotCodes ----------------------------
(***************************************************************************)
(* What pairing promises, with no sockets, claims, deadlines or messages:  *)
(* a code is issued, is live, is spent by at most one guess and is retired *)
(* for good; a guess spends only live codes of its slot, and only while    *)
(* fewer than SlotLimit guesses on that slot, and GlobalLimit in all, lie  *)
(* in the window behind it.  Pairing implements this specification.        *)
(***************************************************************************)
EXTENDS Naturals, FiniteSets

CONSTANTS Codes, Guessers, Slots, None, SlotLimit, GlobalLimit, Window

VARIABLES
    clock,
    status,     \* of each code: "unborn", "live", "spent" or "retired"
    slot,       \* of each code, once issued
    spentBy,    \* the guesser that spent the code
    tries       \* every guess made, [claim, slot, at, burned]

vars == <<clock, status, slot, spentBy, tries>>

Init ==
    /\ clock = 0
    /\ status = [k \in Codes |-> "unborn"]
    /\ slot = [k \in Codes |-> None]
    /\ spentBy = [k \in Codes |-> None]
    /\ tries = {}

Out == {k \in Codes : status[k] \in {"live", "spent"}}

\* The status after some codes changed to `to` and others were retired.
Becoming(changed, to, gone) ==
    [k \in Codes |-> IF k \in changed THEN to
                     ELSE IF k \in gone THEN "retired" ELSE status[k]]

Recent(G) == {<<g.claim, g.at>> : g \in {h \in G : clock < h.at + Window}}

\* A fresh code; codes that were found to have lapsed retire on the way.
Issue(k, s, gone) ==
    /\ status[k] = "unborn"
    /\ gone \subseteq Out
    /\ status' = Becoming({k}, "live", gone)
    /\ slot' = [slot EXCEPT ![k] = s]
    /\ UNCHANGED <<clock, spentBy, tries>>

\* One guess, spending the live codes `burned` of slot s together.
Guess(g, s, burned, gone) ==
    /\ Cardinality(Recent({t \in tries : t.slot = s})) < SlotLimit
    /\ Cardinality(Recent(tries)) < GlobalLimit
    /\ gone \subseteq Out
    /\ \A k \in burned : status[k] = "live" /\ slot[k] = s /\ k \notin gone
    /\ status' = Becoming(burned, "spent", gone)
    /\ spentBy' = [k \in Codes |-> IF k \in burned THEN g ELSE spentBy[k]]
    /\ tries' = tries \cup
         {[claim |-> g, slot |-> s, at |-> clock, burned |-> burned]}
    /\ UNCHANGED <<clock, slot>>

Retire(gone) ==
    /\ gone \subseteq Out
    /\ status' = Becoming({}, "retired", gone)
    /\ UNCHANGED <<clock, slot, spentBy, tries>>

Pass == clock' = clock + 1 /\ UNCHANGED <<status, slot, spentBy, tries>>

Next ==
    \/ \E k \in Codes, s \in Slots, gone \in SUBSET Codes : Issue(k, s, gone)
    \/ \E g \in Guessers, s \in Slots, burned, gone \in SUBSET Codes :
          Guess(g, s, burned, gone)
    \/ \E gone \in SUBSET Codes : Retire(gone)
    \/ Pass

Spec == Init /\ [][Next]_vars
=============================================================================

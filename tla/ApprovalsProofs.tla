-------------------------- MODULE ApprovalsProofs ---------------------------
(***************************************************************************)
(* Proofs about Approvals for any number of questions, browsers and runs   *)
(* of `mtmux approve`.                                                     *)
(***************************************************************************)
EXTENDS Approvals, TLAPS

ChainState == {"idle", "offered", "prompted", "parked", "done"}
Msg == {Open(q) : q \in Questions} \cup {Resolved(q) : q \in Questions}

\* Nobody knows of a question that has not begun.
IdleIsFresh ==
    \A q \in Questions : chain[q] = "idle" =>
        verdict[q] = "none" /\ q \notin {appSlot, slot, screen}

\* The slot holds what was offered to a window or parked for one, and all of
\* it that has no verdict.
SlotIsLocal ==
    /\ slot # None => chain[slot] \in {"offered", "parked"}
    /\ \A q \in Questions :
          chain[q] \in {"offered", "parked"} /\ verdict[q] = "none" => slot = q

\* What the panel shows was prompted; nothing is prompted without a terminal.
ScreenIsPanel ==
    /\ screen # None => stdin = "panel" /\ chain[screen] = "prompted"
    /\ \A q \in Questions : chain[q] = "prompted" => stdin # "none"

\* A chain ends with a verdict.
DoneIsDecided ==
    \A q \in Questions : chain[q] = "done" => verdict[q] # "none"

RaceInv ==
    /\ IdleIsFresh
    /\ SlotIsLocal
    /\ ScreenIsPanel
    /\ DoneIsDecided
    /\ ConsentNeeded
    /\ LosersStop

\* A browser that shows dlg and has still to read s will, once it has read it,
\* show ap: what s takes down was put up just before, and s ends with ap.
MailOK(s, dlg, ap) ==
    /\ \A i \in 1 .. Len(s) : s[i].type = "resolved" =>
          IF i = 1 THEN dlg = s[1].id ELSE s[i - 1] = Open(s[i].id)
    /\ s = <<>> => dlg = ap
    /\ s # <<>> => ap = IF s[Len(s)].type = "request" THEN s[Len(s)].id ELSE None

MailInv ==
    \A p \in Phones :
        /\ p \in phones => MailOK(inbox[p], dialog[p], appSlot)
        /\ p \notin phones => inbox[p] = <<>> /\ dialog[p] = None

ApprovalsInv ==
    /\ TypeOK
    /\ RaceInv
    /\ MailInv
    /\ SomeoneIsAsked
    /\ PollIsServed

-----------------------------------------------------------------------------
(***************************************************************************)
(* What a browser has still to read.                                       *)
(***************************************************************************)

\* A message says what it is about.
LEMMA Messages ==
    /\ \A q \in Questions : /\ Open(q) \in Msg /\ Resolved(q) \in Msg
                            /\ Open(q).type = "request" /\ Open(q).id = q
                            /\ Resolved(q).type = "resolved" /\ Resolved(q).id = q
    /\ \A m \in Msg : /\ m.type \in {"request", "resolved"} /\ m.id \in Questions
                      /\ m.type = "request" => m = Open(m.id)
                      /\ m.type = "resolved" => m = Resolved(m.id)
  <1>1. ASSUME NEW q \in Questions
        PROVE  /\ Open(q) \in Msg /\ Resolved(q) \in Msg
               /\ Open(q).type = "request" /\ Open(q).id = q
               /\ Resolved(q).type = "resolved" /\ Resolved(q).id = q
    <2>1. Open(q) \in Msg /\ Resolved(q) \in Msg BY DEF Msg
    <2> QED BY <2>1 DEF Open, Resolved
  <1>2. ASSUME NEW m \in Msg
        PROVE  /\ m.type \in {"request", "resolved"} /\ m.id \in Questions
               /\ m.type = "request" => m = Open(m.id)
               /\ m.type = "resolved" => m = Resolved(m.id)
    <2>1. PICK q \in Questions : m = Open(q) \/ m = Resolved(q) BY DEF Msg
    <2>2. CASE m = Open(q) BY <1>1, <2>2
    <2>3. CASE m = Resolved(q) BY <1>1, <2>3
    <2> QED BY <2>1, <2>2, <2>3
  <1> QED BY <1>1, <1>2

\* A new question is announced when there is none.
LEMMA MailOpens ==
    ASSUME NEW s \in Seq(Msg), NEW dlg, NEW q \in Questions, MailOK(s, dlg, None)
    PROVE  Append(s, Open(q)) \in Seq(Msg) /\ MailOK(Append(s, Open(q)), dlg, q)
  <1> DEFINE t == Append(s, Open(q))
  <1>1. Open(q) \in Msg /\ Open(q).type = "request" /\ Open(q).id = q BY Messages
  <1>2. /\ t \in Seq(Msg) /\ Len(t) = Len(s) + 1 /\ t[Len(t)] = Open(q) /\ t # <<>>
        /\ \A i \in 1 .. Len(s) : t[i] = s[i]
        /\ Len(s) \in Nat
    BY <1>1
  <1> HIDE DEF t
  <1>3. ASSUME NEW i \in 1 .. Len(t), t[i].type = "resolved"
        PROVE  IF i = 1 THEN dlg = t[1].id ELSE t[i - 1] = Open(t[i].id)
    <2>1. i \in 1 .. Len(s) /\ t[i] = s[i] BY <1>1, <1>2, <1>3
    <2>2. i # 1 => i - 1 \in 1 .. Len(s) BY <2>1, <1>2
    <2> QED BY <1>2, <1>3, <2>1, <2>2 DEF MailOK
  <1>4. MailOK(t, dlg, q) BY <1>1, <1>2, <1>3 DEF MailOK
  <1> QED BY <1>2, <1>4 DEF t

\* The question that was announced last is taken down.
LEMMA MailCloses ==
    ASSUME NEW s \in Seq(Msg), NEW dlg, NEW q \in Questions, MailOK(s, dlg, q),
           ApprovalsAssumption
    PROVE  Append(s, Resolved(q)) \in Seq(Msg) /\ MailOK(Append(s, Resolved(q)), dlg, None)
  <1> DEFINE t == Append(s, Resolved(q))
  <1>1. Resolved(q) \in Msg /\ Resolved(q).type = "resolved" /\ Resolved(q).id = q
    BY Messages
  <1>2. /\ t \in Seq(Msg) /\ Len(t) = Len(s) + 1 /\ t[Len(t)] = Resolved(q) /\ t # <<>>
        /\ \A i \in 1 .. Len(s) : t[i] = s[i]
        /\ Len(s) \in Nat
    BY <1>1
  <1>3. ASSUME s # <<>> PROVE Len(s) \in 1 .. Len(s) /\ s[Len(s)] = Open(q)
    <2>1. Len(s) \in 1 .. Len(s) BY <1>3
    <2>2. s[Len(s)] \in Msg BY <2>1
    <2>3. s[Len(s)].type = "request" /\ s[Len(s)].id = q
      BY <1>3, <2>2 DEF MailOK, ApprovalsAssumption
    <2> QED BY <2>1, <2>2, <2>3, Messages
  <1> HIDE DEF t
  <1>4. ASSUME NEW i \in 1 .. Len(t), t[i].type = "resolved"
        PROVE  IF i = 1 THEN dlg = t[1].id ELSE t[i - 1] = Open(t[i].id)
    <2>1. CASE i \in 1 .. Len(s)
      <3>1. t[i] = s[i] /\ (i # 1 => i - 1 \in 1 .. Len(s)) BY <1>2, <2>1
      <3> QED BY <1>2, <1>4, <2>1, <3>1 DEF MailOK
    <2>2. CASE i \notin 1 .. Len(s)
      <3>1. i = Len(s) + 1 /\ t[i] = Resolved(q) BY <1>2, <2>2
      <3>2. CASE s = <<>>
        <4>1. i = 1 BY <3>1, <3>2
        <4> QED BY <1>1, <3>1, <3>2, <4>1 DEF MailOK
      <3>3. CASE s # <<>>
        <4>1. i # 1 /\ i - 1 = Len(s) /\ Len(s) \in 1 .. Len(s)
          BY <1>2, <1>3, <3>1, <3>3
        <4>2. t[i - 1] = Open(q) BY <1>2, <1>3, <3>3, <4>1
        <4> QED BY <1>1, <3>1, <4>1, <4>2
      <3> QED BY <3>2, <3>3
    <2> QED BY <2>1, <2>2
  <1>5. MailOK(t, dlg, None) BY <1>1, <1>2, <1>4 DEF MailOK
  <1> QED BY <1>2, <1>5 DEF t

\* What a browser shows after the message m.
Shows(dlg, m) == IF m.type = "request" THEN m.id ELSE IF dlg = m.id THEN None ELSE dlg

\* A browser reads the next message.
LEMMA MailIsRead ==
    ASSUME NEW s \in Seq(Msg), NEW dlg, NEW ap, s # <<>>, MailOK(s, dlg, ap)
    PROVE  Tail(s) \in Seq(Msg) /\ MailOK(Tail(s), Shows(dlg, Head(s)), ap)
  <1> DEFINE t == Tail(s)
             new == Shows(dlg, Head(s))
  <1>1. /\ t \in Seq(Msg) /\ Len(t) = Len(s) - 1 /\ Len(s) \in Nat /\ Len(s) >= 1
        /\ \A i \in 1 .. Len(t) : t[i] = s[i + 1]
        /\ Head(s) = s[1] /\ s[1] \in Msg
        /\ Len(t) \in Nat
    OBVIOUS
  <1>2. new = IF s[1].type = "request" THEN s[1].id ELSE None
    <2>1. CASE s[1].type = "request" BY <1>1, <2>1 DEF Shows
    <2>2. CASE s[1].type # "request"
      <3>1. s[1].type = "resolved" BY <1>1, <2>2, Messages
      <3>2. dlg = s[1].id BY <1>1, <3>1 DEF MailOK
      <3> QED BY <1>1, <2>2, <3>2 DEF Shows
    <2> QED BY <2>1, <2>2
  <1> HIDE DEF t, new
  <1>3. ASSUME NEW i \in 1 .. Len(t), t[i].type = "resolved"
        PROVE  IF i = 1 THEN new = t[1].id ELSE t[i - 1] = Open(t[i].id)
    <2>1. i + 1 \in 1 .. Len(s) /\ i + 1 # 1 /\ (i + 1) - 1 = i /\ t[i] = s[i + 1]
      BY <1>1
    <2>2. s[i] = Open(s[i + 1].id) BY <1>3, <2>1 DEF MailOK
    <2>3. s[i + 1] \in Msg BY <2>1
    <2>4. CASE i = 1
      <3>1. s[1].type = "request" /\ s[1].id = t[1].id
        BY <2>1, <2>2, <2>3, <2>4, Messages
      <3> QED BY <1>2, <2>4, <3>1
    <2>5. CASE i # 1
      <3>1. i - 1 \in 1 .. Len(t) /\ (i - 1) + 1 = i BY <1>1, <2>5
      <3>2. t[i - 1] = s[i] BY <1>1, <3>1
      <3> QED BY <2>1, <2>2, <2>5, <3>2
    <2> QED BY <2>4, <2>5
  <1>4. ASSUME t = <<>> PROVE new = ap
    <2>1. Len(s) = 1 BY <1>1, <1>4
    <2> QED BY <1>1, <1>2, <2>1 DEF MailOK
  <1>5. ASSUME t # <<>>
        PROVE  ap = IF t[Len(t)].type = "request" THEN t[Len(t)].id ELSE None
    <2>1. Len(t) \in 1 .. Len(t) /\ Len(t) + 1 = Len(s) BY <1>1, <1>5
    <2>2. t[Len(t)] = s[Len(s)] BY <1>1, <2>1
    <2> QED BY <2>2 DEF MailOK
  <1>6. MailOK(t, new, ap) BY <1>3, <1>4, <1>5 DEF MailOK
  <1> QED BY <1>1, <1>6 DEF t, new

\* A step in which no browser hears or says anything.
LEMMA NoMail ==
    ASSUME TypeOK, MailInv, SomeoneIsAsked, UNCHANGED <<appVars, phoneVars>>
    PROVE  MailInv' /\ SomeoneIsAsked' /\ inbox' \in [Phones -> Seq(Msg)]
  BY DEF TypeOK, MailInv, SomeoneIsAsked, appVars, phoneVars, Msg

\* The in-app question is taken down, or left.
LEMMA FinishMail ==
    ASSUME TypeOK, MailInv, SomeoneIsAsked, UNCHANGED phoneVars,
           NEW D \in SUBSET Questions, Finish(D, appSlot, inbox)
    PROVE  MailInv' /\ SomeoneIsAsked' /\ inbox' \in [Phones -> Seq(Msg)]
  <1>0. ApprovalsAssumption BY ApprovalsAssumption
  <1>1. CASE appSlot \notin D
    <2>1. UNCHANGED appVars BY <1>1 DEF Finish, appVars
    <2> QED BY <2>1, NoMail
  <1>2. CASE appSlot \in D
    <2>1. /\ appSlot \in Questions /\ appSlot' = None
          /\ inbox' = Broadcast(inbox, Resolved(appSlot))
          /\ UNCHANGED <<phones, dialog>>
      BY <1>2 DEF Finish, phoneVars
    <2>2. inbox \in [Phones -> Seq(Msg)] BY DEF TypeOK, Msg
    <2>3. ASSUME NEW p \in Phones
          PROVE  /\ inbox'[p] \in Seq(Msg)
                 /\ p \in phones => MailOK(inbox'[p], dialog[p], None)
                 /\ p \notin phones => inbox'[p] = inbox[p]
      <3>1. CASE p \in phones
        <4>1. inbox[p] \in Seq(Msg) /\ MailOK(inbox[p], dialog[p], appSlot)
          BY <2>2, <3>1 DEF MailInv
        <4>2. inbox'[p] = Append(inbox[p], Resolved(appSlot))
          BY <2>1, <3>1 DEF Broadcast
        <4> QED BY <1>0, <2>1, <3>1, <4>1, <4>2, MailCloses
      <3>2. CASE p \notin phones BY <2>1, <2>2, <3>2 DEF Broadcast
      <3> QED BY <3>1, <3>2
    <2>4. inbox' \in [Phones -> Seq(Msg)] BY <2>1, <2>3 DEF Broadcast
    <2>5. MailInv' BY <2>1, <2>3 DEF MailInv
    <2> QED BY <2>1, <2>4, <2>5 DEF SomeoneIsAsked
  <1> QED BY <1>1, <1>2

\* A question is put to the browsers, and perhaps taken down at once.
LEMMA AskMail ==
    ASSUME TypeOK, MailInv, SomeoneIsAsked, UNCHANGED phoneVars,
           NEW q \in Questions, NEW D \in SUBSET {q}, AskInApp(q, D)
    PROVE  /\ MailInv' /\ SomeoneIsAsked' /\ inbox' \in [Phones -> Seq(Msg)]
           /\ appSlot' = appSlot \/ (appSlot' = q /\ q \notin D) \/ appSlot' = None
  <1>0. ApprovalsAssumption BY ApprovalsAssumption
  <1>1. CASE ~(appSlot = None /\ phones # {})
    <2>1. UNCHANGED appVars BY <1>1 DEF AskInApp
    <2> QED BY <2>1, NoMail DEF appVars
  <1>2. CASE appSlot = None /\ phones # {}
    <2> DEFINE box == Broadcast(inbox, Open(q))
    <2>1. Finish(D, q, box) /\ UNCHANGED <<phones, dialog>>
      BY <1>2 DEF AskInApp, phoneVars
    <2>2. inbox \in [Phones -> Seq(Msg)] BY DEF TypeOK, Msg
    <2>3. ASSUME NEW p \in Phones
          PROVE  /\ box[p] \in Seq(Msg)
                 /\ p \in phones => MailOK(box[p], dialog[p], q)
                 /\ p \notin phones => box[p] = inbox[p]
      <3>1. CASE p \in phones
        <4>1. inbox[p] \in Seq(Msg) /\ MailOK(inbox[p], dialog[p], None)
          BY <1>2, <2>2, <3>1 DEF MailInv
        <4>2. box[p] = Append(inbox[p], Open(q)) BY <3>1 DEF Broadcast
        <4> QED BY <3>1, <4>1, <4>2, MailOpens
      <3>2. CASE p \notin phones BY <2>2, <3>2 DEF Broadcast
      <3> QED BY <3>1, <3>2
    <2>4. box \in [Phones -> Seq(Msg)] BY <2>3 DEF Broadcast
    <2> HIDE DEF box
    <2>5. CASE q \notin D
      <3>1. appSlot' = q /\ inbox' = box BY <2>1, <2>5 DEF Finish
      <3>2. MailInv' BY <2>1, <2>3, <3>1 DEF MailInv
      <3> QED BY <1>2, <2>1, <2>4, <2>5, <3>1, <3>2 DEF SomeoneIsAsked
    <2>6. CASE q \in D
      <3>1. appSlot' = None /\ inbox' = Broadcast(box, Resolved(q))
        BY <2>1, <2>6 DEF Finish
      <3>2. ASSUME NEW p \in Phones
            PROVE  /\ inbox'[p] \in Seq(Msg)
                   /\ p \in phones => MailOK(inbox'[p], dialog[p], None)
                   /\ p \notin phones => inbox'[p] = inbox[p]
        <4>1. CASE p \in phones
          <5>1. inbox'[p] = Append(box[p], Resolved(q)) BY <3>1, <4>1 DEF Broadcast
          <5> QED BY <1>0, <2>3, <4>1, <5>1, MailCloses
        <4>2. CASE p \notin phones BY <2>3, <3>1, <4>2 DEF Broadcast
        <4> QED BY <4>1, <4>2
      <3>3. inbox' \in [Phones -> Seq(Msg)] BY <3>1, <3>2 DEF Broadcast
      <3>4. MailInv' BY <2>1, <3>1, <3>2 DEF MailInv
      <3> QED BY <3>1, <3>3, <3>4 DEF SomeoneIsAsked
    <2> QED BY <2>5, <2>6
  <1> QED BY <1>1, <1>2

-----------------------------------------------------------------------------
(***************************************************************************)
(* The race.                                                               *)
(***************************************************************************)

\* What settling needs of the chains, the slot and the screen that the
\* channel which answered leaves, when the questions in D get a verdict.
Between(D, ch, sl, scr) ==
    /\ ch \in [Questions -> ChainState]
    /\ sl \in Questions \cup {None} /\ scr \in Questions \cup {None}
    /\ stdin' = "readline" => stdin = "readline"
    /\ \A q \in Questions :
          /\ ch[q] = "idle" => /\ chain[q] = "idle"
                               /\ q \notin D /\ q # sl /\ q # scr
          /\ ch[q] \in {"offered", "parked"} /\ verdict[q] = "none" /\ q \notin D
                => sl = q
          /\ ch[q] = "prompted" => stdin' # "none"
          /\ ch[q] = "done" => verdict[q] # "none" \/ q \in D
          /\ verdict[q] # "none" =>
                /\ q # scr
                /\ ~(stdin' = "readline" /\ ch[q] = "prompted")
                /\ sl = q => ch[q] = "offered"
    /\ sl # None => ch[sl] \in {"offered", "parked"}
    /\ scr # None => stdin' = "panel" /\ ch[scr] = "prompted"

RaceTyped ==
    /\ chain \in [Questions -> ChainState]
    /\ verdict \in [Questions -> {"none", "approved", "denied"}]
    /\ slot \in Questions \cup {None} /\ screen \in Questions \cup {None}

\* The questions of Q that an answer to all of them decides.
Undecided(Q) == {q \in Q : verdict[q] = "none"}

\* What settling the undecided questions of Q does to each question.
LEMMA SettleEffect ==
    ASSUME TypeOK, NEW Q \in SUBSET Questions, NEW v \in {"approved", "denied"},
           NEW ch \in [Questions -> ChainState],
           NEW sl \in Questions \cup {None}, NEW scr \in Questions \cup {None},
           Settle(Answers(Q, v), ch, sl, scr)
    PROVE  /\ RaceTyped'
           /\ \A q \in Questions :
                 /\ verdict'[q] = IF q \in Undecided(Q) THEN v ELSE verdict[q]
                 /\ chain'[q] = IF /\ q \in Undecided(Q)
                                   /\ \/ ch[q] = "parked"
                                      \/ ch[q] = "prompted" /\ AtPrompt(q, scr)
                                THEN "done" ELSE ch[q]
           /\ slot' = IF sl \in Undecided(Q) /\ ch[sl] = "parked" THEN None ELSE sl
           /\ screen' = IF scr \in Undecided(Q) THEN None ELSE scr
  <1> DEFINE D == Undecided(Q)
             f == [q \in D |-> v]
  <1>1. Answers(Q, v) = f /\ DOMAIN f = D /\ D \subseteq Questions
    BY DEF Answers, Undecided
  <1>2. verdict \in [Questions -> {"none", "approved", "denied"}] BY DEF TypeOK
  <1>3. verdict' = [q \in Questions |-> IF q \in D THEN f[q] ELSE verdict[q]]
    BY <1>1 DEF Settle
  <1>5. /\ verdict' \in [Questions -> {"none", "approved", "denied"}]
        /\ \A q \in Questions : verdict'[q] = IF q \in D THEN v ELSE verdict[q]
    BY <1>2, <1>3
  <1>6. chain' = [q \in Questions |->
                    IF q \in D /\ (ch[q] = "parked" \/ (ch[q] = "prompted" /\ AtPrompt(q, scr)))
                    THEN "done" ELSE ch[q]]
    BY <1>1 DEF Settle
  <1>7. /\ slot' = IF sl \in D /\ ch[sl] = "parked" THEN None ELSE sl
        /\ screen' = IF scr \in D THEN None ELSE scr
    BY <1>1 DEF Settle
  <1>8. chain' \in [Questions -> ChainState] BY <1>6 DEF ChainState
  <1> QED BY <1>5, <1>6, <1>7, <1>8 DEF RaceTyped

\* The first answer wins and the losers stop: settling keeps the race's
\* invariant when the channel that answered left things as Between says and
\* an approval is one that was said.
LEMMA SettleKeeps ==
    ASSUME TypeOK, RaceInv, NEW Q \in SUBSET Questions, NEW v \in {"approved", "denied"},
           NEW ch, NEW sl, NEW scr, Between(Undecided(Q), ch, sl, scr),
           Settle(Answers(Q, v), ch, sl, scr),
           said \subseteq said', v = "approved" => Q \subseteq said',
           appSlot' # None => /\ appSlot' \in Questions /\ appSlot' \notin Undecided(Q)
                              /\ verdict[appSlot'] = "none" /\ ch[appSlot'] # "idle"
    PROVE  RaceInv' /\ RaceTyped'
  <1>0. ApprovalsAssumption BY ApprovalsAssumption
  <1> DEFINE D == Undecided(Q)
  <1>1. D \subseteq Questions /\ D \subseteq Q BY DEF Undecided
  <1>2. /\ RaceTyped'
        /\ \A q \in Questions :
              /\ verdict'[q] = IF q \in D THEN v ELSE verdict[q]
              /\ chain'[q] = IF /\ q \in D
                                /\ \/ ch[q] = "parked"
                                   \/ ch[q] = "prompted" /\ AtPrompt(q, scr)
                             THEN "done" ELSE ch[q]
        /\ slot' = IF sl \in D /\ ch[sl] = "parked" THEN None ELSE sl
        /\ screen' = IF scr \in D THEN None ELSE scr
    BY SettleEffect DEF Between
  <1>3. Between(D, ch, sl, scr) OBVIOUS
  <1> HIDE DEF D
  <1>4. IdleIsFresh' BY <1>0, <1>1, <1>2, <1>3 DEF RaceInv, IdleIsFresh, Between, ApprovalsAssumption
  <1>5. SlotIsLocal' BY <1>0, <1>1, <1>2, <1>3 DEF SlotIsLocal, Between, ApprovalsAssumption
  <1>6. ScreenIsPanel' BY <1>0, <1>1, <1>2, <1>3 DEF ScreenIsPanel, Between, ApprovalsAssumption
  <1>7. DoneIsDecided' BY <1>1, <1>2, <1>3 DEF DoneIsDecided, Between
  <1>8. ConsentNeeded' BY <1>1, <1>2 DEF RaceInv, ConsentNeeded
  <1>9. LosersStop'
    <2> SUFFICES ASSUME NEW q \in Questions, verdict'[q] # "none"
                 PROVE  /\ q # appSlot' /\ q # screen'
                        /\ ~(stdin' = "readline" /\ chain'[q] = "prompted")
                        /\ slot' = q => chain'[q] = "offered"
      BY DEF LosersStop, AtReadline
    <2>1. q # None BY <1>0 DEF ApprovalsAssumption
    <2>2. CASE q \in D
      <3>1. q # appSlot' BY <2>1, <2>2 DEF D
      <3>2. q # screen' BY <1>2, <2>1, <2>2
      <3>3. ~(stdin' = "readline" /\ chain'[q] = "prompted")
        BY <1>2, <1>3, <2>2 DEF Between, AtPrompt
      <3>4. slot' = q => chain'[q] = "offered" BY <1>2, <1>3, <2>1, <2>2 DEF Between
      <3> QED BY <3>1, <3>2, <3>3, <3>4
    <2>3. CASE q \notin D
      <3>1. verdict[q] # "none" /\ chain'[q] = ch[q] BY <1>2, <2>3
      <3>2. q # appSlot' BY <2>1, <3>1
      <3> QED BY <1>2, <1>3, <2>1, <3>1, <3>2 DEF Between
    <2> QED BY <2>2, <2>3
  <1> QED BY <1>2, <1>4, <1>5, <1>6, <1>7, <1>8, <1>9 DEF RaceInv

\* A step that leaves the race alone keeps its invariant.
LEMMA RaceIdle ==
    ASSUME TypeOK, RaceInv, UNCHANGED <<raceVars, stdin, said>>,
           appSlot' = appSlot \/ appSlot' = None
    PROVE  RaceInv' /\ RaceTyped'
  <1>0. ApprovalsAssumption BY ApprovalsAssumption
  <1> USE DEF raceVars
  <1>1. RaceTyped' BY DEF TypeOK, RaceTyped, ChainState
  <1>2. IdleIsFresh' BY <1>0 DEF RaceInv, IdleIsFresh, ApprovalsAssumption
  <1>3. SlotIsLocal' /\ ScreenIsPanel' /\ DoneIsDecided' /\ ConsentNeeded'
    BY DEF RaceInv, SlotIsLocal, ScreenIsPanel, DoneIsDecided, ConsentNeeded
  <1>4. LosersStop' BY <1>0 DEF RaceInv, LosersStop, AtReadline, ApprovalsAssumption
  <1> QED BY <1>1, <1>2, <1>3, <1>4 DEF RaceInv

\* The types of everything the race and the inboxes do not hold.
RestTyped ==
    /\ stdin \in {"none", "readline", "panel"}
    /\ appSlot \in Questions \cup {None}
    /\ phones \subseteq Phones
    /\ dialog \in [Phones -> Questions \cup {None}]
    /\ waiter \in Sessions \cup {None} /\ lapsed \in BOOLEAN
    /\ held \in {"none", "fresh", "dead"} /\ stale \in Nat
    /\ client \in [Sessions -> {"idle", "polling", "asking", "between", "done", "gone"}]
    /\ shown \in [Sessions -> Questions \cup {None}]
    /\ said \subseteq Questions

\* TypeOK, in the three parts the proofs establish.
LEMMA TypeParts ==
    /\ TypeOK => RaceTyped /\ RestTyped /\ inbox \in [Phones -> Seq(Msg)]
    /\ (RaceTyped /\ RestTyped /\ inbox \in [Phones -> Seq(Msg)])' => TypeOK'
  BY DEF TypeOK, RaceTyped, RestTyped, ChainState, Msg

\* What a channel holds has begun, has no verdict, and is where it should be.
LEMMA ChannelsHold ==
    ASSUME TypeOK, RaceInv
    PROVE  /\ appSlot # None => /\ appSlot \in Questions
                                /\ verdict[appSlot] = "none" /\ chain[appSlot] # "idle"
           /\ screen # None => /\ screen \in Questions /\ verdict[screen] = "none"
                               /\ chain[screen] = "prompted" /\ stdin = "panel"
           /\ slot # None => slot \in Questions /\ chain[slot] \in {"offered", "parked"}
           /\ \A q \in AtReadline : /\ q \in Questions /\ verdict[q] = "none"
                                    /\ chain[q] = "prompted" /\ stdin = "readline"
  BY DEF TypeOK, RaceInv, IdleIsFresh, SlotIsLocal, ScreenIsPanel, LosersStop, AtReadline

\* The state itself is as settling needs it, for questions that have begun.
LEMMA BetweenNow ==
    ASSUME TypeOK, RaceInv, UNCHANGED stdin, NEW D \in SUBSET Questions,
           \A q \in D : chain[q] # "idle"
    PROVE  Between(D, chain, slot, screen)
  <1>1. RaceTyped BY TypeParts
  <1>2. \A q \in Questions :
          /\ chain[q] = "idle" => q \notin D /\ q # slot /\ q # screen
          /\ chain[q] \in {"offered", "parked"} /\ verdict[q] = "none" /\ q \notin D
                => slot = q
          /\ chain[q] = "prompted" => stdin # "none"
          /\ chain[q] = "done" => verdict[q] # "none" \/ q \in D
    BY DEF RaceInv, IdleIsFresh, SlotIsLocal, ScreenIsPanel, DoneIsDecided
  <1>3. \A q \in Questions : verdict[q] # "none" =>
          /\ q # screen
          /\ ~(stdin = "readline" /\ chain[q] = "prompted")
          /\ slot = q => chain[q] = "offered"
    BY DEF RaceInv, LosersStop, AtReadline
  <1>4. /\ slot # None => chain[slot] \in {"offered", "parked"}
        /\ screen # None => stdin = "panel" /\ chain[screen] = "prompted"
    BY ChannelsHold
  <1> QED BY <1>1, <1>2, <1>3, <1>4 DEF Between, RaceTyped

\* Flush keeps its types, and a poll it leaves waiting has nothing to be told.
LEMMA FlushFacts ==
    ASSUME TypeOK, NEW q \in Questions \cup {None}, NEW h \in {"none", "fresh", "dead"},
           NEW s \in Sessions \cup {None},
           NEW cl \in [Sessions -> {"idle", "polling", "asking", "between", "done", "gone"}],
           Flush(q, h, s, cl)
    PROVE  /\ held' \in {"none", "fresh", "dead"}
           /\ client' \in [Sessions -> {"idle", "polling", "asking", "between", "done", "gone"}]
           /\ shown' \in [Sessions -> Questions \cup {None}]
           /\ q # None => held' = "none"
           /\ q = None => held' = h
  <1>1. [cl EXCEPT ![s] = "asking"]
          \in [Sessions -> {"idle", "polling", "asking", "between", "done", "gone"}]
    OBVIOUS
  <1>2. ASSUME q # None PROVE [shown EXCEPT ![s] = q] \in [Sessions -> Questions \cup {None}]
    BY <1>2 DEF TypeOK
  <1>3. shown \in [Sessions -> Questions \cup {None}] BY DEF TypeOK
  <1> QED BY <1>1, <1>2, <1>3 DEF Flush

\* A question that begins: the chain of q, idle until now, moves on, q may be
\* put in the free slot or on the panel, and the browsers may be asked.
LEMMA BeginKeeps ==
    ASSUME ApprovalsInv, NEW q \in Questions, Begin(q)
    PROVE  ApprovalsInv'
  <1> USE DEF ApprovalsInv
  <1>0. ApprovalsAssumption BY ApprovalsAssumption
  <1>1. /\ chain[q] = "idle" /\ verdict[q] = "none" /\ q # None
        /\ q # appSlot /\ q # slot /\ q # screen
    BY <1>0 DEF Begin, RaceInv, IdleIsFresh, ApprovalsAssumption
  <1>2. UNCHANGED <<stdin, phoneVars, windowVars, said>> BY DEF Begin
  <1>3. RaceTyped /\ RestTyped BY TypeParts
  <1>4. Between({}, chain, slot, screen) BY <1>2, BetweenNow
  <1>5. Undecided({}) = {} /\ Undecided({q}) = {q} BY <1>1 DEF Undecided
  <1>6. ASSUME NEW D \in SUBSET {q}, AskInApp(q, D)
        PROVE  /\ MailInv' /\ SomeoneIsAsked' /\ inbox' \in [Phones -> Seq(Msg)]
               /\ appSlot' \in Questions \cup {None}
               /\ appSlot' # None => appSlot' \notin D /\ verdict[appSlot'] = "none"
                                     /\ (appSlot' = q \/ chain[appSlot'] # "idle")
    <2>1. UNCHANGED phoneVars BY <1>2
    <2>2. /\ MailInv' /\ SomeoneIsAsked' /\ inbox' \in [Phones -> Seq(Msg)]
          /\ appSlot' = appSlot \/ (appSlot' = q /\ q \notin D) \/ appSlot' = None
      BY <1>6, <2>1, AskMail
    <2>3. appSlot # None => /\ appSlot \in Questions /\ appSlot # q
                            /\ verdict[appSlot] = "none" /\ chain[appSlot] # "idle"
      BY <1>1, ChannelsHold
    <2> QED BY <1>1, <1>6, <2>2, <2>3
  <1>7. ASSUME NEW c \in {"offered", "prompted", "parked"},
               NEW sl \in {slot, q}, NEW scr \in {screen, q},
               c \in {"offered", "parked"} => slot = None /\ sl = q /\ scr = screen,
               c = "prompted" => sl = slot /\ stdin # "none"
                                 /\ scr = (IF stdin = "panel" THEN q ELSE screen),
               Settle(NoVerdict, [chain EXCEPT ![q] = c], sl, scr), AskInApp(q, {})
        PROVE  RaceInv' /\ RaceTyped' /\ slot' = sl
    <2> DEFINE ch == [chain EXCEPT ![q] = c]
    <2>1. /\ ch \in [Questions -> ChainState] /\ ch[q] = c
          /\ \A x \in Questions : x # q => ch[x] = chain[x]
      BY <1>3 DEF RaceTyped, ChainState
    <2>2. sl \in Questions \cup {None} /\ scr \in Questions \cup {None}
      BY <1>3 DEF RaceTyped
    <2>3. Between({}, ch, sl, scr)
      <3> HIDE DEF ch
      <3>1. ASSUME NEW x \in Questions
            PROVE  /\ ch[x] = "idle" => chain[x] = "idle" /\ x # sl /\ x # scr
                   /\ ch[x] \in {"offered", "parked"} /\ verdict[x] = "none" => sl = x
                   /\ ch[x] = "prompted" => stdin' # "none"
                   /\ ch[x] = "done" => verdict[x] # "none"
                   /\ verdict[x] # "none" =>
                         /\ x # scr
                         /\ ~(stdin' = "readline" /\ ch[x] = "prompted")
                         /\ sl = x => ch[x] = "offered"
        <4>1. CASE x = q BY <1>1, <1>2, <1>7, <2>1, <4>1
        <4>2. CASE x # q
          <5>1. ch[x] = chain[x] BY <2>1, <4>2
          <5>2. (x = sl => x = slot) /\ (x = scr => x = screen) BY <4>2
          <5>3. x # None BY <1>0 DEF ApprovalsAssumption
          <5> QED BY <1>2, <1>4, <1>7, <5>1, <5>2, <5>3 DEF Between
        <4> QED BY <4>1, <4>2
      <3>2. sl # None => ch[sl] \in {"offered", "parked"}
        BY <1>1, <1>4, <1>7, <2>1, <2>2 DEF Between
      <3>3. scr # None => stdin' = "panel" /\ ch[scr] = "prompted"
        BY <1>1, <1>2, <1>4, <1>7, <2>1, <2>2 DEF Between
      <3> QED BY <1>2, <2>1, <2>2, <3>1, <3>2, <3>3 DEF Between
    <2>4. Settle(Answers({}, "denied"), ch, sl, scr) BY <1>7 DEF NoVerdict
    <2>5. appSlot' # None => /\ appSlot' \in Questions /\ appSlot' \notin Undecided({})
                             /\ verdict[appSlot'] = "none" /\ ch[appSlot'] # "idle"
      <3>1. AskInApp(q, {}) BY <1>7
      <3> QED BY <1>5, <1>6, <2>1, <3>1
    <2> HIDE DEF ch
    <2>6. RaceInv' /\ RaceTyped'
      BY <1>2, <1>5, <2>3, <2>4, <2>5, SettleKeeps
    <2>7. slot' = sl BY <1>5, <2>1, <2>2, <2>4, SettleEffect
    <2> QED BY <2>6, <2>7
  <1>8. ASSUME NEW D \in SUBSET {q}, AskInApp(q, D), RaceInv', RaceTyped',
               held' \in {"none", "fresh", "dead"},
               client' \in [Sessions -> {"idle", "polling", "asking", "between",
                                         "done", "gone"}],
               shown' \in [Sessions -> Questions \cup {None}],
               slot' # None => held' # "fresh"
        PROVE  ApprovalsInv'
    <2>1. RestTyped' BY <1>2, <1>3, <1>6, <1>8 DEF RestTyped, phoneVars, windowVars
    <2>2. TypeOK' BY <1>6, <1>8, <2>1, TypeParts
    <2> QED BY <1>6, <1>8, <2>2 DEF PollIsServed
  <1>9. CASE Offered(q)
    <2>1. RaceInv' /\ RaceTyped' BY <1>7, <1>9 DEF Offered
    <2>2. Flush(q, held, waiter, client) /\ AskInApp(q, {}) BY <1>9 DEF Offered
    <2> QED BY <1>1, <1>3, <1>8, <2>1, <2>2, FlushFacts DEF RestTyped
  <1>10. CASE Prompted(q)
    <2>1. RaceInv' /\ RaceTyped' /\ slot' = slot BY <1>7, <1>10 DEF Prompted
    <2>2. UNCHANGED clientVars /\ AskInApp(q, {}) BY <1>10 DEF Prompted
    <2> QED BY <1>3, <1>8, <2>1, <2>2 DEF RestTyped, clientVars, PollIsServed
  <1>11. CASE Parked(q)
    <2>1. RaceInv' /\ RaceTyped' BY <1>7, <1>11 DEF Parked
    <2>2. Flush(q, held, waiter, client) /\ AskInApp(q, {}) BY <1>11 DEF Parked
    <2> QED BY <1>1, <1>3, <1>8, <2>1, <2>2, FlushFacts DEF RestTyped
  <1>12. CASE TurnedAway(q)
    <2> DEFINE ch == [chain EXCEPT ![q] = "done"]
    <2>1. /\ slot # None /\ AskInApp(q, {q}) /\ UNCHANGED clientVars
          /\ Settle(Answers({q}, "denied"), ch, slot, screen)
      BY <1>12 DEF TurnedAway
    <2>2. /\ ch \in [Questions -> ChainState] /\ ch[q] = "done"
          /\ \A x \in Questions : x # q => ch[x] = chain[x]
      BY <1>3 DEF RaceTyped, ChainState
    <2> HIDE DEF ch
    <2>3. Between({q}, ch, slot, screen)
      <3>1. ASSUME NEW x \in Questions
            PROVE  /\ ch[x] = "idle" => /\ chain[x] = "idle" /\ x \notin {q}
                                        /\ x # slot /\ x # screen
                   /\ ch[x] \in {"offered", "parked"} /\ verdict[x] = "none"
                         /\ x \notin {q} => slot = x
                   /\ ch[x] = "prompted" => stdin' # "none"
                   /\ ch[x] = "done" => verdict[x] # "none" \/ x \in {q}
                   /\ verdict[x] # "none" =>
                         /\ x # screen
                         /\ ~(stdin' = "readline" /\ ch[x] = "prompted")
                         /\ slot = x => ch[x] = "offered"
        <4>1. CASE x = q BY <1>1, <2>2, <4>1
        <4>2. CASE x # q BY <1>4, <2>2, <4>2 DEF Between
        <4> QED BY <4>1, <4>2
      <3>2. /\ slot # None => ch[slot] \in {"offered", "parked"}
            /\ screen # None => stdin' = "panel" /\ ch[screen] = "prompted"
        BY <1>1, <1>4, <2>2 DEF Between
      <3> QED BY <1>4, <2>2, <3>1, <3>2 DEF Between
    <2>4. appSlot' # None => /\ appSlot' \in Questions /\ appSlot' \notin {q}
                             /\ verdict[appSlot'] = "none" /\ ch[appSlot'] # "idle"
      BY <1>6, <2>1, <2>2
    <2>5. RaceInv' /\ RaceTyped'
      BY <1>2, <1>5, <2>1, <2>3, <2>4, SettleKeeps
    <2>6. slot' = slot \/ slot' = None
      BY <1>3, <2>1, <2>2, SettleEffect DEF RaceTyped
    <2> QED BY <1>3, <1>8, <2>1, <2>5, <2>6 DEF RestTyped, clientVars, PollIsServed
  <1> QED BY <1>9, <1>10, <1>11, <1>12 DEF Begin

\* An answer of the kind v to the questions Q, all of which have begun, that
\* the channel ends with the chains ch, the slot sl and the screen scr: the
\* step keeps the invariant.
LEMMA AnswerKeeps ==
    ASSUME ApprovalsInv, NEW Q \in SUBSET Questions, NEW v \in {"approved", "denied"},
           NEW ch, NEW sl \in {slot, None}, NEW scr,
           Between(Undecided(Q), ch, sl, scr), Settle(Answers(Q, v), ch, sl, scr),
           \A q \in Questions : chain[q] # "idle" => ch[q] # "idle",
           NEW D \in SUBSET Questions, Undecided(Q) \subseteq D, Finish(D, appSlot, inbox),
           UNCHANGED phoneVars,
           said \subseteq said', v = "approved" => Q \subseteq said', said' \subseteq Questions,
           stdin' \in {"none", "readline", "panel"},
           waiter' \in Sessions \cup {None}, lapsed' \in BOOLEAN,
           held' \in {"none", "fresh", "dead"}, stale' \in Nat,
           client' \in [Sessions -> {"idle", "polling", "asking", "between", "done", "gone"}],
           shown' \in [Sessions -> Questions \cup {None}],
           held' # "fresh" \/ held' = held
    PROVE  ApprovalsInv'
  <1> USE DEF ApprovalsInv
  <1>1. RaceTyped /\ RestTyped BY TypeParts
  <1>2. MailInv' /\ SomeoneIsAsked' /\ inbox' \in [Phones -> Seq(Msg)] BY FinishMail
  <1>3. appSlot' = None \/ (appSlot' = appSlot /\ appSlot \notin D) BY DEF Finish
  <1>4. appSlot' # None => /\ appSlot' \in Questions /\ appSlot' \notin Undecided(Q)
                           /\ verdict[appSlot'] = "none" /\ ch[appSlot'] # "idle"
    BY <1>3, ChannelsHold
  <1>5. RaceInv' /\ RaceTyped' BY <1>4, SettleKeeps
  <1>6. slot' = slot \/ slot' = None
    <2>1. ch \in [Questions -> ChainState] /\ scr \in Questions \cup {None} BY DEF Between
    <2>2. sl \in Questions \cup {None} BY <1>1 DEF RaceTyped
    <2>3. TypeOK OBVIOUS
    <2>4. slot' = IF sl \in Undecided(Q) /\ ch[sl] = "parked" THEN None ELSE sl
      BY <2>1, <2>2, <2>3, SettleEffect
    <2> QED BY <2>4
  <1>7. RestTyped' BY <1>1, <1>3 DEF RestTyped, phoneVars
  <1>8. TypeOK' BY <1>2, <1>5, <1>7, TypeParts
  <1> QED BY <1>2, <1>5, <1>6, <1>8 DEF PollIsServed

\* A browser's answer to the question in the in-app slot, or its timer.
LEMMA InAppKeeps ==
    ASSUME ApprovalsInv, NEW v \in {"approved", "denied"}, appSlot # None,
           Settle(Answers({appSlot}, v), chain, slot, screen),
           Finish({appSlot}, appSlot, inbox),
           UNCHANGED <<stdin, phoneVars, windowVars, clientVars>>,
           said \subseteq said', v = "approved" => appSlot \in said', said' \subseteq Questions
    PROVE  ApprovalsInv'
  <1>0. TypeOK /\ RaceInv BY DEF ApprovalsInv
  <1>1. appSlot \in Questions /\ chain[appSlot] # "idle" BY <1>0, ChannelsHold
  <1>2. Undecided({appSlot}) \subseteq {appSlot} BY DEF Undecided
  <1>3. Between(Undecided({appSlot}), chain, slot, screen)
    BY <1>0, <1>1, <1>2, BetweenNow
  <1>4. RestTyped BY <1>0, TypeParts
  <1> QED BY <1>1, <1>2, <1>3, <1>4, AnswerKeeps DEF RestTyped, windowVars, clientVars

\* The question in the slot is answered, by a human, a timer or a window that
\* closed.
LEMMA PendingKeeps ==
    ASSUME ApprovalsInv, NEW v \in {"approved", "denied"}, SettlePending(v),
           UNCHANGED <<stdin, phoneVars>>,
           said \subseteq said', v = "approved" => slot \in said', said' \subseteq Questions,
           waiter' \in Sessions \cup {None}, lapsed' \in BOOLEAN,
           held' \in {"none", "fresh", "dead"}, stale' \in Nat,
           client' \in [Sessions -> {"idle", "polling", "asking", "between", "done", "gone"}],
           shown' \in [Sessions -> Questions \cup {None}],
           held' # "fresh" \/ held' = held
    PROVE  ApprovalsInv'
  <1> DEFINE Q == {slot} \ {None}
             ch == [q \in Questions |-> IF q \in Q THEN "done" ELSE chain[q]]
  <1>0. TypeOK /\ RaceInv /\ ApprovalsAssumption BY ApprovalsAssumption DEF ApprovalsInv
  <1>1. RaceTyped /\ RestTyped BY <1>0, TypeParts
  <1>2. Q \in SUBSET Questions BY <1>1 DEF RaceTyped
  <1>3. /\ Settle(Answers(Q, v), ch, None, screen)
        /\ Finish(DOMAIN Answers(Q, v), appSlot, inbox)
    BY DEF SettlePending
  <1>4. DOMAIN Answers(Q, v) = Undecided(Q) BY DEF Answers, Undecided
  <1>5. Undecided(Q) \in SUBSET Questions BY <1>2 DEF Undecided
  <1>6. \A q \in Undecided(Q) : chain[q] # "idle"
    BY <1>0, ChannelsHold DEF Undecided
  <1>7. Between(Undecided(Q), chain, slot, screen) BY <1>0, <1>5, <1>6, BetweenNow
  <1>8. Between(Undecided(Q), ch, None, screen)
    <2>1. ch \in [Questions -> ChainState] /\ screen \in Questions \cup {None}
      BY <1>1 DEF RaceTyped, ChainState
    <2>2. \A q \in Questions : /\ q \in Q => ch[q] = "done"
                               /\ q \notin Q => ch[q] = chain[q]
      OBVIOUS
    <2>3. \A q \in Questions : q \in Q => q \in Undecided(Q) \/ verdict[q] # "none"
      BY DEF Undecided
    <2>4. \A q \in Questions : q # None /\ (slot = q => q \in Q)
      BY <1>0 DEF ApprovalsAssumption
    <2>5. ASSUME screen # None PROVE screen \notin Q /\ screen \in Questions
      <3>1. chain[screen] = "prompted" /\ screen \in Questions BY <1>0, <2>5, ChannelsHold
      <3>2. \A q \in Q : chain[q] # "prompted" BY <1>0, ChannelsHold
      <3> QED BY <3>1, <3>2
    <2> HIDE DEF ch, Q
    <2>6. screen # None => stdin' = "panel" /\ ch[screen] = "prompted"
      BY <1>7, <2>2, <2>5 DEF Between
    <2>7. ASSUME NEW q \in Questions
          PROVE  /\ ch[q] = "idle" => /\ chain[q] = "idle"
                                      /\ q \notin Undecided(Q) /\ q # None /\ q # screen
                 /\ ch[q] \in {"offered", "parked"} /\ verdict[q] = "none"
                       /\ q \notin Undecided(Q) => None = q
                 /\ ch[q] = "prompted" => stdin' # "none"
                 /\ ch[q] = "done" => verdict[q] # "none" \/ q \in Undecided(Q)
                 /\ verdict[q] # "none" =>
                       /\ q # screen
                       /\ ~(stdin' = "readline" /\ ch[q] = "prompted")
                       /\ None = q => ch[q] = "offered"
      <3>1. CASE q \in Q BY <1>7, <2>2, <2>3, <2>4, <3>1 DEF Between
      <3>2. CASE q \notin Q BY <1>7, <2>2, <2>4, <3>2 DEF Between
      <3> QED BY <3>1, <3>2
    <2> QED BY <1>7, <2>1, <2>6, <2>7 DEF Between
  <1>9. \A q \in Questions : chain[q] # "idle" => ch[q] # "idle" OBVIOUS
  <1>10. v = "approved" => Q \subseteq said' OBVIOUS
  <1>11. stdin' \in {"none", "readline", "panel"} BY <1>1 DEF RestTyped
  <1> HIDE DEF ch, Q
  <1> QED BY <1>2, <1>3, <1>4, <1>5, <1>8, <1>9, <1>10, <1>11, AnswerKeeps

\* The terminal's prompts for the questions Q return.
LEMMA PromptsKeeps ==
    ASSUME ApprovalsInv, NEW v \in {"approved", "denied"}, NEW Q \in SUBSET Questions,
           \A q \in Q : chain[q] = "prompted" /\ verdict[q] = "none",
           Prompts(Q, v),
           said \subseteq said', v = "approved" => Q \subseteq said', said' \subseteq Questions
    PROVE  ApprovalsInv'
  <1> DEFINE ch == [q \in Questions |-> IF q \in Q THEN "done" ELSE chain[q]]
             scr == IF screen \in Q THEN None ELSE screen
  <1>0. TypeOK /\ RaceInv /\ ApprovalsAssumption BY ApprovalsAssumption DEF ApprovalsInv
  <1>1. RaceTyped /\ RestTyped BY <1>0, TypeParts
  <1>2. Undecided(Q) = Q BY DEF Undecided
  <1>3. /\ Settle(Answers(Q, v), ch, slot, scr)
        /\ Finish(DOMAIN Answers(Q, v), appSlot, inbox)
        /\ UNCHANGED <<stdin, phoneVars, windowVars, clientVars>>
    BY DEF Prompts
  <1>4. DOMAIN Answers(Q, v) = Q BY <1>2 DEF Answers, Undecided
  <1>5. Between(Q, chain, slot, screen) BY <1>0, <1>3, BetweenNow
  <1>6. Between(Q, ch, slot, scr)
    <2>1. /\ ch \in [Questions -> ChainState] /\ scr \in Questions \cup {None}
          /\ slot \in Questions \cup {None}
      BY <1>1 DEF RaceTyped, ChainState
    <2>2. /\ \A q \in Questions : /\ q \in Q => ch[q] = "done"
                                  /\ q \notin Q => ch[q] = chain[q]
          /\ scr # None => scr = screen /\ screen \notin Q
      OBVIOUS
    <2>3. slot # None => slot \in Questions /\ slot \notin Q
      BY <1>0, ChannelsHold
    <2>4. \A q \in Questions : q # None BY <1>0 DEF ApprovalsAssumption
    <2> HIDE DEF ch, scr
    <2>5. /\ slot # None => ch[slot] \in {"offered", "parked"}
          /\ scr # None => stdin' = "panel" /\ ch[scr] = "prompted"
      BY <1>5, <2>1, <2>2, <2>3 DEF Between
    <2>6. ASSUME NEW q \in Questions
          PROVE  /\ ch[q] = "idle" => /\ chain[q] = "idle"
                                      /\ q \notin Q /\ q # slot /\ q # scr
                 /\ ch[q] \in {"offered", "parked"} /\ verdict[q] = "none" /\ q \notin Q
                       => slot = q
                 /\ ch[q] = "prompted" => stdin' # "none"
                 /\ ch[q] = "done" => verdict[q] # "none" \/ q \in Q
                 /\ verdict[q] # "none" =>
                       /\ q # scr
                       /\ ~(stdin' = "readline" /\ ch[q] = "prompted")
                       /\ slot = q => ch[q] = "offered"
      <3>1. CASE q \in Q BY <1>5, <2>2, <2>3, <2>4, <3>1 DEF Between
      <3>2. CASE q \notin Q BY <1>5, <2>2, <2>4, <3>2 DEF Between
      <3> QED BY <3>1, <3>2
    <2> QED BY <1>5, <2>1, <2>5, <2>6 DEF Between
  <1>7. \A q \in Questions : chain[q] # "idle" => ch[q] # "idle" OBVIOUS
  <1> HIDE DEF ch, scr
  <1> QED BY <1>1, <1>2, <1>3, <1>4, <1>6, <1>7, AnswerKeeps
      DEF RestTyped, windowVars, clientVars

\* The panel takes the terminal: of the open readlines one may get the slot,
\* the others are denied.
LEMMA PanelKeeps ==
    ASSUME ApprovalsInv, PanelStarts
    PROVE  ApprovalsInv'
  <1>0. /\ TypeOK /\ RaceInv /\ MailInv /\ SomeoneIsAsked /\ PollIsServed
        /\ ApprovalsAssumption
    BY ApprovalsAssumption DEF ApprovalsInv
  <1>1. RaceTyped /\ RestTyped BY <1>0, TypeParts
  <1>2. stdin = "readline" /\ stdin' = "panel" /\ UNCHANGED <<phoneVars, windowVars, said>>
    BY DEF PanelStarts
  <1>3. screen = None BY <1>0, <1>2, ChannelsHold
  <1>4. PICK q \in IF AtReadline = {} \/ slot # None THEN {None} ELSE AtReadline :
          LET lost == AtReadline \ {q}
              ch == [x \in Questions |-> IF x = q THEN "parked"
                                         ELSE IF x \in lost THEN "done"
                                         ELSE chain[x]]
              f == Answers(lost, "denied")
          IN  /\ Settle(f, ch, IF q = None THEN slot ELSE q, screen)
              /\ Finish(DOMAIN f, appSlot, inbox)
              /\ Flush(q, held, waiter, client)
    BY DEF PanelStarts
  <1> DEFINE lost == AtReadline \ {q}
             ch == [x \in Questions |-> IF x = q THEN "parked"
                                        ELSE IF x \in lost THEN "done"
                                        ELSE chain[x]]
             sl == IF q = None THEN slot ELSE q
  <1>5. /\ Settle(Answers(lost, "denied"), ch, sl, screen)
        /\ Finish(DOMAIN Answers(lost, "denied"), appSlot, inbox)
        /\ Flush(q, held, waiter, client)
    BY <1>4
  <1>6. AtReadline \subseteq Questions
        /\ \A x \in AtReadline : verdict[x] = "none" /\ chain[x] = "prompted"
    BY <1>0, ChannelsHold
  <1>7. /\ q # None => q \in AtReadline /\ slot = None /\ q \in Questions
        /\ q \in Questions \cup {None} /\ sl \in Questions \cup {None}
    BY <1>1, <1>6 DEF RaceTyped
  <1>8. lost \in SUBSET Questions /\ Undecided(lost) = lost BY <1>6 DEF Undecided
  <1>9. DOMAIN Answers(lost, "denied") = lost BY <1>8 DEF Answers, Undecided
  <1>10. /\ ch \in [Questions -> ChainState]
         /\ \A x \in Questions : /\ x = q => ch[x] = "parked"
                                 /\ x \in lost => ch[x] = "done"
                                 /\ x # q /\ x \notin lost => ch[x] = chain[x]
    BY <1>1 DEF RaceTyped, ChainState
  <1>11. \A x \in Questions : x # None /\ (x \in AtReadline <=> chain[x] = "prompted")
    BY <1>0, <1>2 DEF AtReadline, ApprovalsAssumption
  <1>12. \A x \in Questions : x \in AtReadline => x = q \/ x \in lost OBVIOUS
  <1>13. (q = None => sl = slot) /\ (q # None => sl = q) OBVIOUS
  <1>14. q \notin lost /\ lost \subseteq AtReadline OBVIOUS
  <1> HIDE DEF ch, lost, sl
  <1>15. Between(lost, ch, sl, screen)
    <2>1. sl # None => ch[sl] \in {"offered", "parked"}
      <3>1. CASE q # None BY <1>7, <1>10, <1>13, <3>1
      <3>2. CASE q = None
        <4>1. slot # None => /\ slot \in Questions /\ chain[slot] \in {"offered", "parked"}
          BY <1>0, ChannelsHold
        <4>2. slot # None => slot # q /\ slot \notin lost BY <3>2, <4>1, <1>11, <1>14
        <4> QED BY <1>10, <1>13, <3>2, <4>1, <4>2
      <3> QED BY <3>1, <3>2
    <2>2. ASSUME NEW x \in Questions
          PROVE  /\ ch[x] = "idle" => /\ chain[x] = "idle"
                                      /\ x \notin lost /\ x # sl /\ x # screen
                 /\ ch[x] \in {"offered", "parked"} /\ verdict[x] = "none" /\ x \notin lost
                       => sl = x
                 /\ ch[x] = "prompted" => stdin' # "none"
                 /\ ch[x] = "done" => verdict[x] # "none" \/ x \in lost
                 /\ verdict[x] # "none" =>
                       /\ x # screen
                       /\ ~(stdin' = "readline" /\ ch[x] = "prompted")
                       /\ sl = x => ch[x] = "offered"
      <3>1. CASE x = q BY <1>2, <1>3, <1>6, <1>7, <1>10, <1>11, <1>13, <1>14, <3>1
      <3>2. CASE x \in lost BY <1>2, <1>3, <1>6, <1>10, <1>14, <3>2
      <3>3. CASE x # q /\ x \notin lost
        <4>1. ch[x] = chain[x] BY <1>10, <3>3
        <4>2. x = sl => x = slot BY <1>13, <3>3
        <4>3. chain[x] = "idle" => x # slot
          BY <1>0 DEF RaceInv, IdleIsFresh
        <4>4. chain[x] \in {"offered", "parked"} /\ verdict[x] = "none" => sl = x
          <5>1. chain[x] \in {"offered", "parked"} /\ verdict[x] = "none" => slot = x
            BY <1>0 DEF RaceInv, SlotIsLocal
          <5> QED BY <1>7, <1>11, <1>13, <5>1
        <4>5. chain[x] = "done" => verdict[x] # "none" BY <1>0 DEF RaceInv, DoneIsDecided
        <4>6. verdict[x] # "none" => (slot = x => chain[x] = "offered")
          BY <1>0 DEF RaceInv, LosersStop
        <4> QED BY <1>2, <1>3, <1>11, <3>3, <4>1, <4>2, <4>3, <4>4, <4>5, <4>6
      <3> QED BY <3>1, <3>2, <3>3
    <2> QED BY <1>2, <1>3, <1>7, <1>10, <2>1, <2>2 DEF Between
  <1>16. MailInv' /\ SomeoneIsAsked' /\ inbox' \in [Phones -> Seq(Msg)]
    BY <1>0, <1>2, <1>5, <1>8, <1>9, FinishMail
  <1>17. appSlot' = None \/ (appSlot' = appSlot /\ appSlot \notin lost)
    BY <1>5, <1>9 DEF Finish
  <1>18. appSlot' # None => /\ appSlot' \in Questions /\ appSlot' \notin Undecided(lost)
                            /\ verdict[appSlot'] = "none" /\ ch[appSlot'] # "idle"
    <2> SUFFICES ASSUME appSlot' # None
                 PROVE  /\ appSlot' \in Questions /\ appSlot' \notin Undecided(lost)
                        /\ verdict[appSlot'] = "none" /\ ch[appSlot'] # "idle"
      OBVIOUS
    <2>1. /\ appSlot' = appSlot /\ appSlot \notin lost /\ appSlot \in Questions
          /\ verdict[appSlot] = "none" /\ chain[appSlot] # "idle"
      BY <1>0, <1>17, ChannelsHold
    <2>2. ch[appSlot] # "idle" BY <1>10, <2>1
    <2> QED BY <1>8, <2>1, <2>2
  <1>19. RaceInv' /\ RaceTyped'
    BY <1>0, <1>2, <1>5, <1>8, <1>15, <1>18, SettleKeeps
  <1>20. slot' = sl \/ slot' = None
    <2>1. slot' = IF sl \in Undecided(lost) /\ ch[sl] = "parked" THEN None ELSE sl
      BY <1>0, <1>5, <1>7, <1>8, <1>10, <1>3, SettleEffect
    <2> QED BY <2>1
  <1>21. /\ held' \in {"none", "fresh", "dead"}
         /\ client' \in [Sessions -> {"idle", "polling", "asking", "between", "done", "gone"}]
         /\ shown' \in [Sessions -> Questions \cup {None}]
         /\ q # None => held' = "none"
         /\ q = None => held' = held
    BY <1>0, <1>1, <1>5, <1>7, FlushFacts DEF RestTyped
  <1>22. PollIsServed' BY <1>0, <1>13, <1>20, <1>21 DEF PollIsServed
  <1>23. appSlot' \in Questions \cup {None} BY <1>18
  <1>24. RestTyped'
    BY <1>1, <1>2, <1>21, <1>23 DEF RestTyped, phoneVars, windowVars
  <1>25. TypeOK' BY <1>16, <1>19, <1>24, TypeParts
  <1> QED BY <1>16, <1>19, <1>22, <1>25 DEF ApprovalsInv

\* A browser connects, leaves or reads its next message.
LEMMA PhoneKeeps ==
    ASSUME ApprovalsInv, NEW p \in Phones,
           PhoneConnects(p) \/ PhoneCloses(p) \/ PhoneHears(p)
    PROVE  ApprovalsInv'
  <1>0. /\ TypeOK /\ RaceInv /\ MailInv /\ SomeoneIsAsked /\ PollIsServed
        /\ ApprovalsAssumption
    BY ApprovalsAssumption DEF ApprovalsInv
  <1>1. RaceTyped /\ RestTyped /\ inbox \in [Phones -> Seq(Msg)] BY <1>0, TypeParts
  <1>2. /\ UNCHANGED <<raceVars, stdin, windowVars, clientVars, said>>
        /\ appSlot' = appSlot \/ appSlot' = None
    BY DEF PhoneConnects, PhoneCloses, PhoneHears
  <1>3. RaceInv' /\ RaceTyped' /\ PollIsServed'
    BY <1>0, <1>2, RaceIdle DEF PollIsServed, raceVars, clientVars
  <1>4. ASSUME phones' \subseteq Phones, dialog' \in [Phones -> Questions \cup {None}],
               inbox' \in [Phones -> Seq(Msg)], MailInv', SomeoneIsAsked'
        PROVE  ApprovalsInv'
    <2>1. RestTyped' BY <1>1, <1>2, <1>4 DEF RestTyped, windowVars, clientVars
    <2>2. TypeOK' BY <1>3, <1>4, <2>1, TypeParts
    <2> QED BY <1>3, <1>4, <2>2 DEF ApprovalsInv
  <1>5. CASE PhoneConnects(p)
    <2>1. /\ p \notin phones /\ phones' = phones \cup {p}
          /\ inbox' = [inbox EXCEPT ![p] = Replay] /\ UNCHANGED <<appSlot, dialog>>
      BY <1>5 DEF PhoneConnects
    <2>2. dialog[p] = None BY <1>0, <2>1 DEF MailInv
    <2>3. Replay \in Seq(Msg) /\ MailOK(Replay, None, appSlot)
      <3>1. CASE appSlot = None BY <3>1 DEF Replay, MailOK
      <3>2. CASE appSlot # None
        <4>1. Replay = <<Open(appSlot)>> /\ appSlot \in Questions
          BY <1>1, <3>2 DEF Replay, RestTyped
        <4>2. /\ Open(appSlot) \in Msg /\ Open(appSlot).type = "request"
              /\ Open(appSlot).id = appSlot
          BY <4>1, Messages
        <4>3. /\ Replay \in Seq(Msg) /\ Len(Replay) = 1 /\ Replay[1] = Open(appSlot)
              /\ Replay # <<>>
          BY <4>1, <4>2
        <4>4. \A i \in 1 .. Len(Replay) : i = 1 BY <4>3
        <4>5. \A i \in 1 .. Len(Replay) : Replay[i].type # "resolved" BY <4>2, <4>3, <4>4
        <4>6. MailOK(Replay, None, appSlot) BY <4>2, <4>3, <4>5 DEF MailOK
        <4> QED BY <4>3, <4>6
      <3> QED BY <3>1, <3>2
    <2>4. inbox' \in [Phones -> Seq(Msg)] BY <1>1, <2>1, <2>3
    <2>5. MailInv' BY <1>0, <1>1, <2>1, <2>2, <2>3 DEF MailInv
    <2>6. SomeoneIsAsked' BY <2>1 DEF SomeoneIsAsked
    <2>7. phones' \subseteq Phones /\ dialog' \in [Phones -> Questions \cup {None}]
      BY <1>1, <2>1 DEF RestTyped
    <2> QED BY <1>4, <2>4, <2>5, <2>6, <2>7
  <1>6. CASE PhoneCloses(p)
    <2>1. /\ p \in phones /\ phones' = phones \ {p}
          /\ appSlot' = IF phones' = {} THEN None ELSE appSlot
          /\ inbox' = [inbox EXCEPT ![p] = <<>>]
          /\ dialog' = [dialog EXCEPT ![p] = None]
      BY <1>6 DEF PhoneCloses, Abstains
    <2>2. /\ inbox' \in [Phones -> Seq(Msg)] /\ phones' \subseteq Phones
          /\ dialog' \in [Phones -> Questions \cup {None}]
      BY <1>1, <2>1 DEF RestTyped
    <2>3. SomeoneIsAsked' BY <2>1 DEF SomeoneIsAsked
    <2>4. MailInv'
      <3> SUFFICES ASSUME NEW r \in Phones
                   PROVE  /\ r \in phones' => MailOK(inbox'[r], dialog'[r], appSlot')
                          /\ r \notin phones' => inbox'[r] = <<>> /\ dialog'[r] = None
        BY DEF MailInv
      <3>1. CASE r = p BY <1>1, <2>1, <3>1 DEF RestTyped
      <3>2. CASE r # p
        <4>1. inbox'[r] = inbox[r] /\ dialog'[r] = dialog[r] BY <1>1, <2>1, <3>2 DEF RestTyped
        <4>2. r \in phones' => r \in phones /\ appSlot' = appSlot BY <2>1
        <4>3. r \notin phones' => r \notin phones BY <2>1, <3>2
        <4> QED BY <1>0, <4>1, <4>2, <4>3 DEF MailInv
      <3> QED BY <3>1, <3>2
    <2> QED BY <1>4, <2>2, <2>3, <2>4
  <1>7. CASE PhoneHears(p)
    <2> DEFINE m == Head(inbox[p])
    <2>1. /\ inbox[p] # <<>>
          /\ dialog' = [dialog EXCEPT ![p] = Shows(dialog[p], m)]
          /\ inbox' = [inbox EXCEPT ![p] = Tail(@)]
          /\ UNCHANGED <<appSlot, phones>>
      BY <1>7 DEF PhoneHears, Shows
    <2>2. p \in phones /\ inbox[p] \in Seq(Msg) /\ MailOK(inbox[p], dialog[p], appSlot)
      BY <1>0, <1>1, <2>1 DEF MailInv
    <2>3. Tail(inbox[p]) \in Seq(Msg) /\ MailOK(Tail(inbox[p]), Shows(dialog[p], m), appSlot)
      BY <2>1, <2>2, MailIsRead
    <2>4. m \in Msg BY <2>1, <2>2
    <2>5. Shows(dialog[p], m) \in Questions \cup {None}
      <3>1. m.id \in Questions /\ dialog[p] \in Questions \cup {None}
        BY <1>1, <2>4, Messages DEF RestTyped
      <3> QED BY <3>1 DEF Shows
    <2> HIDE DEF m
    <2>6. /\ inbox' \in [Phones -> Seq(Msg)] /\ phones' \subseteq Phones
          /\ dialog' \in [Phones -> Questions \cup {None}]
      BY <1>1, <2>1, <2>3, <2>5 DEF RestTyped
    <2>7. SomeoneIsAsked' BY <1>0, <2>1 DEF SomeoneIsAsked
    <2>8. MailInv'
      <3> SUFFICES ASSUME NEW r \in Phones
                   PROVE  /\ r \in phones' => MailOK(inbox'[r], dialog'[r], appSlot')
                          /\ r \notin phones' => inbox'[r] = <<>> /\ dialog'[r] = None
        BY DEF MailInv
      <3>1. CASE r = p BY <1>1, <2>1, <2>2, <2>3, <3>1 DEF RestTyped
      <3>2. CASE r # p
        <4>1. inbox'[r] = inbox[r] /\ dialog'[r] = dialog[r] BY <1>1, <2>1, <3>2 DEF RestTyped
        <4> QED BY <1>0, <2>1, <4>1 DEF MailInv
      <3> QED BY <3>1, <3>2
    <2> QED BY <1>4, <2>6, <2>7, <2>8
  <1> QED BY <1>5, <1>6, <1>7

ClientState == {"idle", "polling", "asking", "between", "done", "gone"}

\* A step of the windows that settles nothing.
LEMMA WindowKeeps ==
    ASSUME ApprovalsInv, UNCHANGED <<raceVars, stdin, appVars, phoneVars, said>>,
           waiter' \in Sessions \cup {None}, lapsed' \in BOOLEAN, stale' \in Nat,
           held' \in {"none", "fresh", "dead"}, client' \in [Sessions -> ClientState],
           shown' \in [Sessions -> Questions \cup {None}],
           slot # None => held' # "fresh"
    PROVE  ApprovalsInv'
  <1>0. TypeOK /\ RaceInv /\ MailInv /\ SomeoneIsAsked BY DEF ApprovalsInv
  <1>1. RaceInv' /\ RaceTyped' BY <1>0, RaceIdle DEF appVars
  <1>2. MailInv' /\ SomeoneIsAsked' /\ inbox' \in [Phones -> Seq(Msg)] BY <1>0, NoMail
  <1>3. RestTyped
    BY <1>0, TypeParts
  <1>4. RestTyped' BY <1>3 DEF RestTyped, phoneVars, appVars, ClientState
  <1>5. TypeOK' BY <1>1, <1>2, <1>4, TypeParts
  <1>6. PollIsServed' BY DEF PollIsServed, raceVars
  <1> QED BY <1>1, <1>2, <1>5, <1>6 DEF ApprovalsInv

\* The runs of `mtmux approve` and the timers of their windows.
LEMMA SessionKeeps ==
    ASSUME ApprovalsInv, NEW s \in Sessions,
           \/ Poll(s) \/ PollRefused(s)
           \/ \E to \in {"between", "gone"} : PollEnds(s, to)
           \/ \E to \in {"between", "done"} : DecideTooLate(s, to)
           \/ \E yes \in BOOLEAN, to \in {"between", "done"} : Decide(s, yes, to)
    PROVE  ApprovalsInv'
  <1>0. TypeOK /\ PollIsServed BY DEF ApprovalsInv
  <1>1. RestTyped /\ RaceTyped BY <1>0, TypeParts
  <1>2. client \in [Sessions -> ClientState] BY <1>1 DEF RestTyped, ClientState
  <1>3. ASSUME NEW x \in ClientState
        PROVE  [client EXCEPT ![s] = x] \in [Sessions -> ClientState]
    BY <1>2
  <1>4. CASE Poll(s)
    <2>1. Flush(slot, "fresh", s, [client EXCEPT ![s] = "polling"])
      BY <1>4 DEF Poll
    <2>2. [client EXCEPT ![s] = "polling"] \in [Sessions -> ClientState]
      BY <1>3 DEF ClientState
    <2>3. /\ held' \in {"none", "fresh", "dead"}
          /\ client' \in [Sessions -> ClientState]
          /\ shown' \in [Sessions -> Questions \cup {None}]
          /\ slot # None => held' = "none"
      BY <1>0, <1>1, <2>1, <2>2, FlushFacts DEF ClientState, RaceTyped
    <2>4. waiter' = s /\ lapsed' \in BOOLEAN BY <1>4 DEF Poll
    <2>5. stale' \in Nat BY <1>1, <1>4 DEF Poll, RestTyped
    <2>6. UNCHANGED <<raceVars, stdin, appVars, phoneVars, said>> BY <1>4 DEF Poll
    <2> QED BY <2>3, <2>4, <2>5, <2>6, WindowKeeps
  <1>5. CASE PollRefused(s)
    <2>1. client' \in [Sessions -> ClientState]
      BY <1>3, <1>5 DEF PollRefused, ClientState
    <2> QED BY <1>0, <1>1, <1>5, <2>1, WindowKeeps
        DEF PollRefused, RestTyped, windowVars, PollIsServed
  <1>6. ASSUME NEW to \in {"between", "gone"}, PollEnds(s, to) PROVE ApprovalsInv'
    <2>1. client' \in [Sessions -> ClientState]
      BY <1>3, <1>6 DEF PollEnds, ClientState
    <2>2. held' \in {held, "dead"} BY <1>6 DEF PollEnds
    <2> QED BY <1>0, <1>1, <1>6, <2>1, <2>2, WindowKeeps
        DEF PollEnds, RestTyped, windowVars, PollIsServed
  <1>7. ASSUME NEW to \in {"between", "done"}, DecideTooLate(s, to) PROVE ApprovalsInv'
    <2>1. client' \in [Sessions -> ClientState]
      BY <1>3, <1>7 DEF DecideTooLate, ClientState
    <2> QED BY <1>0, <1>1, <1>7, <2>1, WindowKeeps
        DEF DecideTooLate, RestTyped, windowVars, PollIsServed
  <1>8. ASSUME NEW yes \in BOOLEAN, NEW to \in {"between", "done"}, Decide(s, yes, to)
        PROVE  ApprovalsInv'
    <2>1. client' \in [Sessions -> ClientState]
      BY <1>3, <1>8 DEF Decide, ClientState
    <2>2. slot # None /\ slot = shown[s] /\ slot \in Questions
      BY <1>1, <1>8 DEF Decide, MayDecide, RaceTyped
    <2>3. /\ said' = IF yes THEN said \cup {slot} ELSE said
          /\ SettlePending(Verdict(yes))
          /\ UNCHANGED <<stdin, phoneVars, windowVars, held, shown>>
      BY <1>8, <2>2 DEF Decide, Says
    <2>4. /\ said \subseteq said' /\ said' \subseteq Questions
          /\ Verdict(yes) = "approved" => slot \in said'
      BY <1>1, <2>2, <2>3 DEF Verdict, RestTyped
    <2>5. Verdict(yes) \in {"approved", "denied"} BY DEF Verdict
    <2> QED BY <1>1, <2>1, <2>3, <2>4, <2>5, PendingKeeps
        DEF RestTyped, windowVars, ClientState
  <1> QED BY <1>4, <1>5, <1>6, <1>7, <1>8

\* The window closes, by its own timer or by a stale one.
LEMMA DropWaiterKeeps ==
    ASSUME ApprovalsInv, DropWaiter, stale' \in Nat,
           UNCHANGED <<stdin, phoneVars, shown, said>>
    PROVE  ApprovalsInv'
  <1>1. TypeOK BY DEF ApprovalsInv
  <1>2. RestTyped BY <1>1, TypeParts
  <1>3. client' \in [Sessions -> ClientState]
    <2>1. client \in [Sessions -> ClientState] /\ "gone" \in ClientState
      BY <1>2 DEF RestTyped, ClientState
    <2>2. client' = client \/ client' = [client EXCEPT ![waiter] = "gone"] BY DEF DropWaiter
    <2> QED BY <2>1, <2>2
  <1>4. waiter' = None /\ lapsed' = FALSE /\ held' = "none" /\ SettlePending("denied")
    BY DEF DropWaiter
  <1> QED BY <1>2, <1>3, <1>4, PendingKeeps DEF RestTyped, ClientState

\* The invariant holds at the start, when nothing has been asked.
LEMMA ApprovalsInit == Init => ApprovalsInv
  <1> SUFFICES ASSUME Init PROVE ApprovalsInv OBVIOUS
  <1>1. <<>> \in Seq({Open(q) : q \in Questions} \cup {Resolved(q) : q \in Questions})
    OBVIOUS
  <1>2. TypeOK BY <1>1 DEF Init, TypeOK
  <1>3. RaceInv
    BY ApprovalsAssumption
    DEF ApprovalsAssumption, Init, RaceInv, IdleIsFresh, SlotIsLocal, ScreenIsPanel,
        DoneIsDecided, ConsentNeeded, LosersStop
  <1>4. MailInv /\ SomeoneIsAsked /\ PollIsServed
    BY DEF Init, MailInv, SomeoneIsAsked, PollIsServed
  <1> QED BY <1>2, <1>3, <1>4 DEF ApprovalsInv

\* Every step keeps the invariant.
LEMMA ApprovalsStep == ApprovalsInv /\ [Next]_vars => ApprovalsInv'
  <1> SUFFICES ASSUME ApprovalsInv, [Next]_vars PROVE ApprovalsInv' OBVIOUS
  <1>0. TypeOK /\ RaceInv /\ PollIsServed BY DEF ApprovalsInv
  <1>1. RestTyped /\ RaceTyped BY <1>0, TypeParts
  <1>2. /\ said \subseteq Questions /\ "denied" \in {"approved", "denied"}
        /\ \A yes \in BOOLEAN : Verdict(yes) \in {"approved", "denied"}
    BY <1>1 DEF RestTyped, Verdict
  <1>3. /\ AtReadline \subseteq Questions
        /\ \A q \in AtReadline : chain[q] = "prompted" /\ verdict[q] = "none"
        /\ screen # None => /\ screen \in Questions
                            /\ chain[screen] = "prompted" /\ verdict[screen] = "none"
    BY <1>0, ChannelsHold
  <1>4. ASSUME NEW q \in Questions, Begin(q) PROVE ApprovalsInv' BY <1>4, BeginKeeps
  <1>5. ASSUME NEW q \in Questions, PromptTimesOut(q) PROVE ApprovalsInv'
    <2>1. q \in AtReadline /\ Prompts({q}, "denied") /\ said' = said
      BY <1>5 DEF PromptTimesOut
    <2>2. {q} \in SUBSET Questions OBVIOUS
    <2> QED BY <1>2, <1>3, <2>1, <2>2, PromptsKeeps
  <1>6. ASSUME NEW p \in Phones, PhoneConnects(p) \/ PhoneCloses(p) \/ PhoneHears(p)
        PROVE  ApprovalsInv'
    BY <1>6, PhoneKeeps
  <1>7. ASSUME NEW yes \in BOOLEAN, NEW p \in Phones, PhoneAnswers(p, yes)
        PROVE  ApprovalsInv'
    <2>1. appSlot # None /\ appSlot \in Questions /\ dialog[p] = appSlot
      BY <1>1, <1>7 DEF PhoneAnswers, StillAsked, RestTyped
    <2>2. said' = IF yes THEN said \cup {appSlot} ELSE said
      BY <1>7, <2>1 DEF PhoneAnswers, Says
    <2>3. /\ said \subseteq said' /\ said' \subseteq Questions
          /\ Verdict(yes) = "approved" => appSlot \in said'
      BY <1>2, <2>1, <2>2 DEF Verdict
    <2>4. /\ Settle(Answers({appSlot}, Verdict(yes)), chain, slot, screen)
          /\ Finish({appSlot}, appSlot, inbox)
          /\ UNCHANGED <<stdin, phoneVars, windowVars, clientVars>>
      BY <1>7 DEF PhoneAnswers
    <2> QED BY <1>2, <2>1, <2>3, <2>4, InAppKeeps
  <1>8. CASE AskExpires
    BY <1>2, <1>8, InAppKeeps DEF AskExpires
  <1>9. ASSUME NEW yes \in BOOLEAN, TypeLine(yes) PROVE ApprovalsInv'
    <2>1. /\ Prompts(AtReadline, Verdict(yes))
          /\ said' = IF yes THEN said \cup AtReadline ELSE said
      BY <1>9 DEF TypeLine
    <2>2. /\ said \subseteq said' /\ said' \subseteq Questions
          /\ Verdict(yes) = "approved" => AtReadline \subseteq said'
      BY <1>2, <1>3, <2>1 DEF Verdict
    <2>3. Verdict(yes) \in {"approved", "denied"} BY <1>2
    <2>4. AtReadline \in SUBSET Questions BY <1>3
    <2> QED BY <1>3, <2>1, <2>2, <2>3, <2>4, PromptsKeeps
  <1>10. ASSUME NEW yes \in BOOLEAN, PressKey(yes) PROVE ApprovalsInv'
    <2>1. /\ screen # None /\ Prompts({screen}, Verdict(yes))
          /\ said' = IF yes THEN said \cup {screen} ELSE said
      BY <1>10 DEF PressKey, Says
    <2>2. /\ said \subseteq said' /\ said' \subseteq Questions
          /\ Verdict(yes) = "approved" => {screen} \subseteq said'
      BY <1>2, <1>3, <2>1 DEF Verdict
    <2>3. Verdict(yes) \in {"approved", "denied"} BY <1>2
    <2>4. {screen} \in SUBSET Questions BY <1>3, <2>1
    <2> QED BY <1>3, <2>1, <2>2, <2>3, <2>4, PromptsKeeps
  <1>11. CASE PanelTimesOut
    <2>1. screen # None /\ Prompts({screen}, "denied") /\ said' = said
      BY <1>11 DEF PanelTimesOut
    <2>2. {screen} \in SUBSET Questions BY <1>3, <2>1
    <2> QED BY <1>2, <1>3, <2>1, <2>2, PromptsKeeps
  <1>12. ASSUME NEW s \in Sessions,
                \/ Poll(s) \/ PollRefused(s)
                \/ \E to \in {"between", "gone"} : PollEnds(s, to)
                \/ \E to \in {"between", "done"} : DecideTooLate(s, to)
                \/ \E yes \in BOOLEAN, to \in {"between", "done"} : Decide(s, yes, to)
         PROVE  ApprovalsInv'
    BY <1>12, SessionKeeps
  <1>13. CASE OfferTimeout
    BY <1>1, <1>2, <1>13, PendingKeeps DEF OfferTimeout, windowVars, clientVars, RestTyped
  <1>14. CASE PollCloses
    BY <1>1, <1>2, <1>14, PendingKeeps DEF PollCloses, windowVars, RestTyped
  <1>15. CASE Lapse
    BY <1>0, <1>1, <1>15, WindowKeeps
    DEF Lapse, clientVars, RestTyped, ClientState, PollIsServed
  <1>16. CASE WindowTimer
    BY <1>1, <1>16, DropWaiterKeeps DEF WindowTimer, RestTyped
  <1>17. CASE StaleTimer
    <2>1. stale' \in Nat BY <1>1, <1>17 DEF StaleTimer, RestTyped
    <2>2. CASE waiter = None
      BY <1>0, <1>1, <1>17, <2>1, <2>2, WindowKeeps
      DEF StaleTimer, RestTyped, ClientState, PollIsServed
    <2>3. CASE waiter # None BY <1>17, <2>1, <2>3, DropWaiterKeeps DEF StaleTimer
    <2> QED BY <2>2, <2>3
  <1>18. CASE PanelStarts BY <1>18, PanelKeeps
  <1>19. CASE UNCHANGED vars
    BY <1>0, <1>1, <1>19, WindowKeeps
    DEF vars, windowVars, clientVars, RestTyped, ClientState, PollIsServed
  <1> QED
    <2>1. CASE Next
      BY <2>1, <1>4, <1>5, <1>6, <1>7, <1>8, <1>9, <1>10, <1>11, <1>12, <1>13, <1>14,
         <1>15, <1>16, <1>17, <1>18 DEF Next
    <2> QED BY <2>1, <1>19

-----------------------------------------------------------------------------
\* The inductive invariant holds throughout every behaviour
\* (access-prompt.ts, device-approval.ts, approve-control.ts,
\* device-panel-control.ts).
THEOREM ApprovalsInvariant == Spec => []ApprovalsInv
  BY ApprovalsInit, ApprovalsStep, PTL DEF Spec

\* A device is let in only if a human who was shown that question said yes to
\* it (access-prompt.ts:75-128), for any number of questions, browsers and
\* windows and whatever the order of late answers and timers.
THEOREM NoConsentNoEntry == Spec => []ConsentNeeded
  <1>1. ApprovalsInv => ConsentNeeded BY DEF ApprovalsInv, RaceInv
  <1> QED BY <1>1, ApprovalsInvariant, PTL

\* Once a question is decided no dialog, prompt or parked slot still holds it
\* (access-prompt.ts:75-128), whichever channel was first.
THEOREM LosersAreStopped == Spec => []LosersStop
  <1>1. ApprovalsInv => LosersStop BY DEF ApprovalsInv, RaceInv
  <1> QED BY <1>1, ApprovalsInvariant, PTL

\* While a question has no verdict, a channel with a timer holds it, or the
\* panel replaced it (access-prompt.ts:75-128, device-panel-control.ts).
THEOREM NoQuestionIsForgotten == Spec => []HeldSomewhere
  <1>1. ASSUME ApprovalsInv PROVE HeldSomewhere
    <2>1. RaceTyped BY <1>1, TypeParts DEF ApprovalsInv
    <2> SUFFICES ASSUME NEW q \in Questions, Begun(q), verdict[q] = "none"
                 PROVE  q \in {appSlot, slot, screen} \cup AtReadline \/ Replaced(q)
      BY DEF HeldSomewhere
    <2>2. chain[q] \in {"offered", "prompted", "parked", "done"}
      BY <2>1 DEF RaceTyped, ChainState, Begun
    <2>3. chain[q] # "done" BY <1>1 DEF ApprovalsInv, RaceInv, DoneIsDecided
    <2>4. chain[q] \in {"offered", "parked"} => slot = q
      BY <1>1 DEF ApprovalsInv, RaceInv, SlotIsLocal
    <2>5. chain[q] = "prompted" => stdin \in {"readline", "panel"}
      BY <1>1 DEF ApprovalsInv, RaceInv, ScreenIsPanel, TypeOK
    <2> QED BY <2>2, <2>3, <2>4, <2>5 DEF AtReadline, Replaced
  <1> QED BY <1>1, ApprovalsInvariant, PTL

\* Every dialog, the in-app slot and the window's poll agree with the slots
\* that hold the question (device-approval.ts:112-228,
\* approve-control.ts:240-262), for any number of browsers.
THEOREM ChannelsDoAgree == Spec => []ChannelsAgree
  <1>1. ASSUME ApprovalsInv PROVE ChannelsAgree
    <2>1. phones \subseteq Phones BY <1>1 DEF ApprovalsInv, TypeOK
    <2>2. DialogsAgree BY <1>1, <2>1 DEF ApprovalsInv, MailInv, MailOK, DialogsAgree
    <2> QED BY <1>1, <2>2 DEF ApprovalsInv, ChannelsAgree
  <1> QED BY <1>1, ApprovalsInvariant, PTL
=============================================================================

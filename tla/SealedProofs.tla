---------------------------- MODULE SealedProofs ----------------------------
(***************************************************************************)
(* Proofs about SealedStream for any pairings, any size of the keyring and *)
(* any number of lines and faults.                                         *)
(***************************************************************************)
EXTENDS SealedStream, TLAPS, FiniteSetTheorems, SequenceTheorems

(***************************************************************************)
(* Numbers.  A line's number is one more than the counter of the frame it  *)
(* is sealed in, at both ends and whatever the broker does to the frames.  *)
(***************************************************************************)
IsFrame(m) == m.type = "frame"
Numbered(q) == \A i \in DOMAIN q : IsFrame(q[i]) => q[i].line = q[i].n + 1

\* The counters of the frames in a queue, and the lines in one.
Nums(q) == {q[i].n : i \in {j \in DOMAIN q : IsFrame(q[j])}}
LineNums(q) == {q[i].line : i \in {j \in DOMAIN q : ~IsFrame(q[j])}}

NumsRise(q) == \A i, j \in DOMAIN q :
                 i < j /\ IsFrame(q[i]) /\ IsFrame(q[j]) => q[i].n < q[j].n
LinesRise(q) == \A i, j \in DOMAIN q :
                 i < j /\ ~IsFrame(q[i]) /\ ~IsFrame(q[j]) => q[i].line < q[j].line

\* A queue of lines that continues after line `last`.
Follows(q, last) == \A i \in DOMAIN q : q[i] = last + i

-----------------------------------------------------------------------------
\* The browser: what is not sealed yet are the lines up to the last written.
Written ==
    /\ Numbered(toAgent) /\ Numbered(chain)
    /\ \A f \in sealing : f.line = f.n + 1
    /\ Follows(outbound, sealed)
    /\ ~detached =>
         /\ (streamId => queued = <<>>) /\ (~streamId => outbound = <<>>)
         /\ Follows(queued, sealed)
         /\ wrote = sealed + Len(outbound) + Len(queued)

\* The agent's promise chain: which task is running and what is bound when.
Running ==
    /\ stream = "none" => /\ chain = <<>> /\ pc = "idle" /\ bound = None
                          /\ toAgent # <<>> /\ Head(toAgent) = Open
    /\ pc # "idle" => chain # <<>> /\ IsFrame(Head(chain))
    /\ pc = "trial" => bound = None /\ trying # None
    /\ pc \in {"admit", "flush"} => bound # None /\ Head(chain).n = highest
    /\ pc = "admit" => highest = 0
    /\ pc # "trial" => trying = None
    /\ bound # None => bound = key
    /\ bound = None => relay = <<>> /\ toLocal = <<>> /\ replied = 0

\* The gate: behind it is admitted, or nothing has passed.
Gate ==
    /\ bound # None /\ pc = "idle" /\ stream = "open" => admitted
    /\ pc = "flush" => admitted
    /\ admitted => bound # None
    /\ pc = "admit" => relay = <<>> /\ toLocal = <<>> /\ ~admitted
    /\ relay # <<>> \/ toLocal # <<>> \/ got # <<>> \/ Nums(toBrowser) # {} => admitted

\* The agent: what the relay said and is not sealed yet, while anyone listens.
\* Lines up to Sent have left the chain.
Sent == replied + Len(held) + Len(toBroker)
Unsealed ==
    /\ bound = None \/ pc = "admit" => held = <<>>
    /\ bound # None /\ pc # "admit" => toBroker = <<>>
    /\ pc = "idle" => held = <<>>
    /\ Follows(held, replied) /\ Follows(toBroker, replied)
    /\ LinesRise(chain) /\ LineNums(chain) = (Sent + 1) .. said
    /\ Sent <= said

Answered ==
    /\ Numbered(toBrowser)
    /\ stream = "open" => Unsealed
    /\ stream = "none" => said = 0 /\ held = <<>> /\ toBroker = <<>>

\* What was received, at both ends.
Received ==
    /\ (local => toLocal = <<>>) /\ (~local => relay = <<>>)
    /\ Rising(relay) /\ Rising(toLocal) /\ Rising(got)
    /\ \A i \in DOMAIN relay : relay[i] <= highest + 1
    /\ \A i \in DOMAIN toLocal : toLocal[i] <= highest + 1
    /\ \A i \in DOMAIN got : got[i] <= seen

-----------------------------------------------------------------------------
(***************************************************************************)
(* Through a faithful broker.  The frames not yet accepted are consecutive *)
(* from the receiver's counter to the sender's.                            *)
(***************************************************************************)
Expected == IF bound = None THEN 0
            ELSE IF pc \in {"admit", "flush"} THEN highest ELSE highest + 1

\* Frames up to `mid` have reached the agent, frames up to `end` the broker.
Forward(mid, end) ==
    /\ Expected <= mid /\ mid <= end
    /\ NumsRise(chain) /\ Nums(chain) = Expected .. (mid - 1)
    /\ NumsRise(toAgent) /\ Nums(toAgent) = mid .. (end - 1)
    /\ ~detached => \/ sealing = {} /\ sealed = end
                    \/ \E f \in sealing : sealing = {f} /\ f.n = end /\ sealed = end + 1

Backward(end) ==
    /\ seen <= end
    /\ NumsRise(toBrowser) /\ Nums(toBrowser) = seen .. (end - 1)
    /\ stream # "closed" => end = replied

Faithful ==
    faults = 0 =>
      /\ why # "auth" /\ bwhy # "auth"
      /\ Exactly(relay) /\ Exactly(toLocal) /\ Exactly(got)
      /\ Len(got) = seen
      /\ stream = "open" => Len(relay) + Len(toLocal) =
                              IF bound = None \/ pc = "admit" THEN 0 ELSE highest + 1
      /\ stream # "closed" => \E mid, end \in Nat : Forward(mid, end)
      /\ ~detached => \E end \in Nat : Backward(end)

\* The keyring and the pairings that were forgotten.
Keyring ==
    /\ \A i \in DOMAIN keyring : keyring[i] \notin forgotten
    /\ trying \in forgotten => trying \in racing
    /\ ForgottenStaysOut

StreamInv == TypeOK /\ Written /\ Running /\ Gate /\ Answered /\ Received /\ Faithful /\ Keyring

-----------------------------------------------------------------------------
(***************************************************************************)
(* Queues.                                                                 *)
(***************************************************************************)
\* Append and Tail, seen from an index.
LEMMA AppendIs ==
    ASSUME NEW S, NEW q \in Seq(S), NEW x \in S
    PROVE  /\ Append(q, x) \in Seq(S)
           /\ Len(q) \in Nat /\ Len(Append(q, x)) = Len(q) + 1
           /\ DOMAIN q = 1 .. Len(q) /\ DOMAIN Append(q, x) = 1 .. (Len(q) + 1)
           /\ \A i \in 1 .. Len(q) : Append(q, x)[i] = q[i]
           /\ Append(q, x)[Len(q) + 1] = x
           /\ Append(q, x) # <<>>
           /\ q # <<>> => Head(Append(q, x)) = Head(q)
           /\ q = <<>> => Head(Append(q, x)) = x
  OBVIOUS

\* The same for what is left when the first is taken.
LEMMA TailIs ==
    ASSUME NEW S, NEW q \in Seq(S), q # <<>>
    PROVE  /\ Tail(q) \in Seq(S) /\ Head(q) \in S /\ Head(q) = q[1]
           /\ Len(q) \in Nat /\ Len(q) >= 1 /\ Len(Tail(q)) = Len(q) - 1
           /\ DOMAIN q = 1 .. Len(q) /\ DOMAIN Tail(q) = 1 .. (Len(q) - 1)
           /\ \A i \in 1 .. (Len(q) - 1) : Tail(q)[i] = q[i + 1]
  OBVIOUS

\* One more message at the end of a queue.
LEMMA QueueAppend ==
    ASSUME NEW S, NEW q \in Seq(S), NEW x \in S
    PROVE  /\ Numbered(q) /\ (IsFrame(x) => x.line = x.n + 1) => Numbered(Append(q, x))
           /\ IsFrame(x) => /\ Nums(Append(q, x)) = Nums(q) \cup {x.n}
                            /\ LineNums(Append(q, x)) = LineNums(q)
                            /\ LinesRise(q) => LinesRise(Append(q, x))
           /\ ~IsFrame(x) => /\ Nums(Append(q, x)) = Nums(q)
                             /\ LineNums(Append(q, x)) = LineNums(q) \cup {x.line}
                             /\ NumsRise(q) => NumsRise(Append(q, x))
           /\ IsFrame(x) /\ NumsRise(q) /\ (\A k \in Nums(q) : k < x.n)
                => NumsRise(Append(q, x))
           /\ ~IsFrame(x) /\ LinesRise(q) /\ (\A k \in LineNums(q) : k < x.line)
                => LinesRise(Append(q, x))
  <1> DEFINE r == Append(q, x)
  <1>1. /\ Len(q) \in Nat
        /\ DOMAIN q = 1 .. Len(q) /\ DOMAIN r = 1 .. (Len(q) + 1)
        /\ \A i \in 1 .. Len(q) : r[i] = q[i]
        /\ r[Len(q) + 1] = x
    BY AppendIs
  <1>2. \A i \in DOMAIN r : i \in DOMAIN q \/ i = Len(q) + 1
    BY <1>1
  <1>3. \A i, j \in DOMAIN r : i < j => i \in DOMAIN q
    BY <1>1
  <1> HIDE DEF r
  <1>4. Numbered(q) /\ (IsFrame(x) => x.line = x.n + 1) => Numbered(r)
    BY <1>1, <1>2 DEF Numbered
  <1>5. IsFrame(x) => Nums(r) = Nums(q) \cup {x.n} /\ LineNums(r) = LineNums(q)
    <2>1. SUFFICES ASSUME IsFrame(x)
                   PROVE  Nums(r) = Nums(q) \cup {x.n} /\ LineNums(r) = LineNums(q)
      OBVIOUS
    <2>2. Nums(r) = Nums(q) \cup {x.n} BY <1>1, <1>2, <2>1 DEF Nums
    <2>3. LineNums(r) = LineNums(q) BY <1>1, <1>2, <2>1 DEF LineNums
    <2> QED BY <2>2, <2>3
  <1>6. ~IsFrame(x) => Nums(r) = Nums(q) /\ LineNums(r) = LineNums(q) \cup {x.line}
    <2>1. SUFFICES ASSUME ~IsFrame(x)
                   PROVE  Nums(r) = Nums(q) /\ LineNums(r) = LineNums(q) \cup {x.line}
      OBVIOUS
    <2>2. Nums(r) = Nums(q) BY <1>1, <1>2, <2>1 DEF Nums
    <2>3. LineNums(r) = LineNums(q) \cup {x.line} BY <1>1, <1>2, <2>1 DEF LineNums
    <2> QED BY <2>2, <2>3
  <1>7. IsFrame(x) /\ LinesRise(q) => LinesRise(r)
    BY <1>1, <1>2, <1>3 DEF LinesRise
  <1>8. ~IsFrame(x) /\ NumsRise(q) => NumsRise(r)
    BY <1>1, <1>2, <1>3 DEF NumsRise
  <1>9. IsFrame(x) /\ NumsRise(q) /\ (\A k \in Nums(q) : k < x.n) => NumsRise(r)
    BY <1>1, <1>2, <1>3 DEF NumsRise, Nums
  <1>10. ~IsFrame(x) /\ LinesRise(q) /\ (\A k \in LineNums(q) : k < x.line) => LinesRise(r)
    BY <1>1, <1>2, <1>3 DEF LinesRise, LineNums
  <1> QED BY <1>4, <1>5, <1>6, <1>7, <1>8, <1>9, <1>10 DEF r

\* The first message leaves a queue.
LEMMA QueueTail ==
    ASSUME NEW S, NEW q \in Seq(S), q # <<>>
    PROVE  /\ Numbered(q) => Numbered(Tail(q))
           /\ NumsRise(q) => NumsRise(Tail(q))
           /\ LinesRise(q) => LinesRise(Tail(q))
           /\ Nums(Tail(q)) \subseteq Nums(q)
           /\ ~IsFrame(Head(q)) => /\ Nums(Tail(q)) = Nums(q)
                                   /\ Head(q).line \in LineNums(q)
           /\ IsFrame(Head(q)) => /\ LineNums(Tail(q)) = LineNums(q)
                                  /\ Head(q).n \in Nums(q)
  <1> DEFINE r == Tail(q)
  <1>1. /\ Len(q) \in Nat /\ Len(q) >= 1 /\ Head(q) = q[1]
        /\ DOMAIN q = 1 .. Len(q) /\ DOMAIN r = 1 .. (Len(q) - 1)
        /\ \A i \in 1 .. (Len(q) - 1) : r[i] = q[i + 1]
    BY TailIs
  <1>2. \A i \in DOMAIN r : r[i] = q[i + 1] /\ i + 1 \in DOMAIN q /\ i \in Nat
    BY <1>1
  <1>3. \A i \in DOMAIN q : i = 1 \/ (i - 1 \in DOMAIN r /\ r[i - 1] = q[i])
    BY <1>1
  <1>4. 1 \in DOMAIN q BY <1>1
  <1> HIDE DEF r
  <1>5. Numbered(q) => Numbered(r)
    BY <1>2 DEF Numbered
  <1>6. NumsRise(q) => NumsRise(r)
    BY <1>2 DEF NumsRise
  <1>7. LinesRise(q) => LinesRise(r)
    BY <1>2 DEF LinesRise
  <1>8. Nums(r) \subseteq Nums(q)
    BY <1>2 DEF Nums
  <1>9. ~IsFrame(Head(q)) => Nums(r) = Nums(q) /\ Head(q).line \in LineNums(q)
    <2> SUFFICES ASSUME ~IsFrame(Head(q))
                 PROVE  Nums(r) = Nums(q) /\ Head(q).line \in LineNums(q)
      OBVIOUS
    <2>1. Nums(q) \subseteq Nums(r) BY <1>1, <1>3 DEF Nums
    <2>2. Head(q).line \in LineNums(q) BY <1>1, <1>4 DEF LineNums
    <2> QED BY <2>1, <2>2, <1>8
  <1>10. IsFrame(Head(q)) => LineNums(r) = LineNums(q) /\ Head(q).n \in Nums(q)
    <2> SUFFICES ASSUME IsFrame(Head(q))
                 PROVE  LineNums(r) = LineNums(q) /\ Head(q).n \in Nums(q)
      OBVIOUS
    <2>1. LineNums(q) \subseteq LineNums(r) BY <1>1, <1>3 DEF LineNums
    <2>2. LineNums(r) \subseteq LineNums(q) BY <1>2 DEF LineNums
    <2>3. Head(q).n \in Nums(q) BY <1>1, <1>4 DEF Nums
    <2> QED BY <2>1, <2>2, <2>3
  <1> QED BY <1>5, <1>6, <1>7, <1>8, <1>9, <1>10 DEF r

\* The first frame of a rising queue has the least counter, the first line the
\* least number; without it the others are left.
LEMMA FirstFrame ==
    ASSUME NEW S, NEW q \in Seq(S), q # <<>>, NumsRise(q), IsFrame(Head(q)),
           NEW lo \in Nat, NEW hi \in Nat, Nums(q) = lo .. (hi - 1)
    PROVE  /\ Head(q).n = lo /\ lo < hi
           /\ Nums(Tail(q)) = (lo + 1) .. (hi - 1)
  <1> DEFINE r == Tail(q)
  <1>1. /\ Len(q) \in Nat /\ Len(q) >= 1 /\ Head(q) = q[1]
        /\ DOMAIN q = 1 .. Len(q) /\ DOMAIN r = 1 .. (Len(q) - 1)
        /\ \A i \in 1 .. (Len(q) - 1) : r[i] = q[i + 1]
    BY TailIs
  <1>2. \A i \in DOMAIN r : r[i] = q[i + 1] /\ i + 1 \in DOMAIN q /\ 1 < i + 1
    BY <1>1
  <1>3. \A i \in DOMAIN q : i = 1 \/ (i - 1 \in DOMAIN r /\ r[i - 1] = q[i] /\ 1 < i)
    BY <1>1
  <1>4. 1 \in DOMAIN q /\ q[1].n \in Nums(q) BY <1>1 DEF Nums
  <1>5. \A k \in Nums(q) : k = q[1].n \/ q[1].n < k
    BY <1>1, <1>3, <1>4 DEF Nums, NumsRise
  <1>6. q[1].n = lo /\ lo < hi
    <2>1. q[1].n \in lo .. (hi - 1) BY <1>4
    <2>2. lo \in Nums(q) /\ lo < hi BY <2>1
    <2> QED BY <1>5, <2>1, <2>2
  <1> HIDE DEF r
  <1>7. \A k \in Nums(r) : k \in Nums(q) /\ lo < k
    BY <1>1, <1>2, <1>4, <1>6 DEF Nums, NumsRise
  <1>8. \A k \in Nums(q) : k # lo => k \in Nums(r)
    BY <1>1, <1>3, <1>6 DEF Nums
  <1>9. Nums(r) = (lo + 1) .. (hi - 1)
    <2>1. \A k \in Nums(r) : k \in (lo + 1) .. (hi - 1) BY <1>7
    <2>2. \A k \in (lo + 1) .. (hi - 1) : k \in Nums(q) /\ k # lo OBVIOUS
    <2> QED BY <2>1, <2>2, <1>8
  <1> QED BY <1>1, <1>6, <1>9 DEF r

\* The same for the lines of the relay.
LEMMA FirstLine ==
    ASSUME NEW S, NEW q \in Seq(S), q # <<>>, LinesRise(q), ~IsFrame(Head(q)),
           NEW lo \in Nat, NEW hi \in Nat, LineNums(q) = lo .. hi
    PROVE  /\ Head(q).line = lo /\ lo <= hi
           /\ LineNums(Tail(q)) = (lo + 1) .. hi
  <1> DEFINE r == Tail(q)
  <1>1. /\ Len(q) \in Nat /\ Len(q) >= 1 /\ Head(q) = q[1]
        /\ DOMAIN q = 1 .. Len(q) /\ DOMAIN r = 1 .. (Len(q) - 1)
        /\ \A i \in 1 .. (Len(q) - 1) : r[i] = q[i + 1]
    BY TailIs
  <1>2. \A i \in DOMAIN r : r[i] = q[i + 1] /\ i + 1 \in DOMAIN q /\ 1 < i + 1
    BY <1>1
  <1>3. \A i \in DOMAIN q : i = 1 \/ (i - 1 \in DOMAIN r /\ r[i - 1] = q[i] /\ 1 < i)
    BY <1>1
  <1>4. 1 \in DOMAIN q /\ q[1].line \in LineNums(q) BY <1>1 DEF LineNums
  <1>5. \A k \in LineNums(q) : k = q[1].line \/ q[1].line < k
    BY <1>1, <1>3, <1>4 DEF LineNums, LinesRise
  <1>6. q[1].line = lo /\ lo <= hi
    <2>1. q[1].line \in lo .. hi BY <1>4
    <2>2. lo \in LineNums(q) /\ lo <= hi BY <2>1
    <2> QED BY <1>5, <2>1, <2>2
  <1> HIDE DEF r
  <1>7. \A k \in LineNums(r) : k \in LineNums(q) /\ lo < k
    BY <1>1, <1>2, <1>4, <1>6 DEF LineNums, LinesRise
  <1>8. \A k \in LineNums(q) : k # lo => k \in LineNums(r)
    BY <1>1, <1>3, <1>6 DEF LineNums
  <1>9. LineNums(r) = (lo + 1) .. hi
    <2>1. \A k \in LineNums(r) : k \in (lo + 1) .. hi BY <1>7
    <2>2. \A k \in (lo + 1) .. hi : k \in LineNums(q) /\ k # lo OBVIOUS
    <2> QED BY <2>1, <2>2, <1>8
  <1> QED BY <1>1, <1>6, <1>9 DEF r

\* An empty queue has every property.
LEMMA EmptyQueue ==
    /\ Numbered(<<>>) /\ NumsRise(<<>>) /\ LinesRise(<<>>)
    /\ Nums(<<>>) = {} /\ LineNums(<<>>) = {}
    /\ Rising(<<>>) /\ Exactly(<<>>) /\ \A n \in Nat : Follows(<<>>, n)
  BY DEF Numbered, NumsRise, LinesRise, Nums, LineNums, Rising, Exactly, Follows

\* Lines that are queued, taken or received one after the other.
LEMMA LinesAppend ==
    ASSUME NEW q \in Seq(Nat), NEW x \in Nat
    PROVE  /\ Rising(q) /\ (\A i \in DOMAIN q : q[i] < x) => Rising(Append(q, x))
           /\ Exactly(q) /\ x = Len(q) + 1 => Exactly(Append(q, x))
           /\ \A n \in Nat : Follows(q, n) /\ x = n + Len(q) + 1 => Follows(Append(q, x), n)
           /\ \A n \in Nat : (\A i \in DOMAIN q : q[i] <= n) /\ x <= n
                               => \A i \in DOMAIN Append(q, x) : Append(q, x)[i] <= n
  <1> DEFINE r == Append(q, x)
  <1>1. /\ Len(q) \in Nat /\ Len(r) = Len(q) + 1
        /\ DOMAIN q = 1 .. Len(q) /\ DOMAIN r = 1 .. (Len(q) + 1)
        /\ \A i \in 1 .. Len(q) : r[i] = q[i] /\ q[i] \in Nat
        /\ r[Len(q) + 1] = x
    BY AppendIs
  <1> HIDE DEF r
  <1>2. Rising(q) /\ (\A i \in DOMAIN q : q[i] < x) => Rising(r)
    <2> SUFFICES ASSUME Rising(q), \A i \in DOMAIN q : q[i] < x, NEW i \in 1 .. Len(r) - 1
                 PROVE  r[i] < r[i + 1]
      BY DEF Rising
    <2>1. CASE i < Len(q) BY <1>1, <2>1 DEF Rising
    <2>2. CASE i = Len(q) BY <1>1, <2>2
    <2>3. Len(r) - 1 = Len(q) /\ Len(q) \in Nat BY <1>1
    <2>4. i < Len(q) \/ i = Len(q) BY <2>3
    <2> QED BY <2>1, <2>2, <2>4
  <1>3. Exactly(q) /\ x = Len(q) + 1 => Exactly(r)
    BY <1>1 DEF Exactly
  <1>4. \A n \in Nat : Follows(q, n) /\ x = n + Len(q) + 1 => Follows(r, n)
    BY <1>1 DEF Follows
  <1>5. \A n \in Nat : (\A i \in DOMAIN q : q[i] <= n) /\ x <= n => \A i \in DOMAIN r : r[i] <= n
    BY <1>1
  <1> QED BY <1>2, <1>3, <1>4, <1>5 DEF r

\* The first of the lines that continue after line n is taken.
LEMMA LinesTail ==
    ASSUME NEW q \in Seq(Nat), q # <<>>, NEW n \in Nat, Follows(q, n)
    PROVE  /\ Head(q) = n + 1 /\ Len(Tail(q)) = Len(q) - 1 /\ Len(q) \in Nat /\ Len(q) >= 1
           /\ Follows(Tail(q), n + 1)
  <1> DEFINE r == Tail(q)
  <1>1. /\ Len(q) \in Nat /\ Len(q) >= 1 /\ Head(q) = q[1] /\ Len(r) = Len(q) - 1
        /\ DOMAIN q = 1 .. Len(q) /\ DOMAIN r = 1 .. (Len(q) - 1)
        /\ \A i \in 1 .. (Len(q) - 1) : r[i] = q[i + 1]
    BY TailIs
  <1> HIDE DEF r
  <1>2. Head(q) = n + 1 BY <1>1 DEF Follows
  <1>3. ASSUME NEW i \in DOMAIN r PROVE r[i] = (n + 1) + i
    <2>1. i \in Nat /\ i + 1 \in DOMAIN q /\ r[i] = q[i + 1] BY <1>1
    <2>2. q[i + 1] = n + (i + 1) BY <2>1 DEF Follows
    <2> QED BY <2>1, <2>2
  <1> QED BY <1>1, <1>2, <1>3 DEF r, Follows

-----------------------------------------------------------------------------
\* removeSessionKeys() leaves entries of the keyring, and none of the device.
LEMMA WithoutIs ==
    ASSUME keyring \in Seq(Keys), NEW d
    PROVE  /\ Without(d) \in Seq(Keys) /\ Len(Without(d)) <= Len(keyring)
           /\ \A j \in DOMAIN Without(d) : \E i \in DOMAIN keyring :
                 Without(d)[j] = keyring[i] /\ Owner[keyring[i]] # d
  <1> DEFINE stay == {i \in DOMAIN keyring : Owner[keyring[i]] # d}
             upto(i) == {h \in stay : h <= i}
             n == Cardinality(stay)
             rank == [i \in stay |-> Cardinality(upto(i))]
             Nth(j) == CHOOSE i \in stay : Cardinality(upto(i)) = j
  <1>1. /\ stay \subseteq 1 .. Len(keyring) /\ Len(keyring) \in Nat
        /\ \A i \in DOMAIN keyring : keyring[i] \in Keys
    OBVIOUS
  <1>2. IsFiniteSet(1 .. Len(keyring)) /\ Cardinality(1 .. Len(keyring)) = Len(keyring)
    <2>1. 1 \in Int /\ Len(keyring) \in Int /\ Len(keyring) - 1 + 1 = Len(keyring) BY <1>1
    <2>2. IsFiniteSet(1 .. Len(keyring)) BY <2>1, FS_Interval
    <2>3. CASE Len(keyring) = 0
      <3>1. 1 .. Len(keyring) = {} BY <2>3
      <3> QED BY <2>3, <3>1, FS_EmptySet
    <2>4. CASE Len(keyring) # 0
      <3>1. ~(1 > Len(keyring)) BY <1>1, <2>4
      <3> QED BY <2>1, <2>2, <3>1, FS_Interval
    <2> QED BY <2>3, <2>4
  <1>3. IsFiniteSet(stay) /\ n \in Nat /\ n <= Len(keyring)
    <2> HIDE DEF stay
    <2>1. IsFiniteSet(stay) /\ Cardinality(stay) <= Cardinality(1 .. Len(keyring))
      BY <1>1, <1>2, FS_Subset
    <2>2. Cardinality(stay) \in Nat
      BY <2>1, FS_CardinalityType
    <2> QED BY <1>2, <2>1, <2>2
  <1>4. ASSUME NEW i \in stay
        PROVE  /\ IsFiniteSet(upto(i)) /\ Cardinality(upto(i)) \in 1 .. n
               /\ i \in upto(i)
    <2>1. upto(i) \subseteq stay /\ i \in upto(i) BY <1>1
    <2>2. IsFiniteSet(upto(i)) /\ Cardinality(upto(i)) <= n /\ Cardinality(upto(i)) \in Nat
      BY <1>3, <2>1, FS_Subset, FS_CardinalityType
    <2>3. Cardinality(upto(i)) # 0
      BY <2>1, <2>2, FS_EmptySet
    <2> QED BY <1>3, <2>1, <2>2, <2>3
  <1>5. ASSUME NEW i \in stay, NEW k \in stay, i < k
        PROVE  Cardinality(upto(i)) # Cardinality(upto(k))
    <2>1. upto(i) \subseteq upto(k) /\ k \in upto(k) /\ k \notin upto(i)
      BY <1>1, <1>5
    <2>2. IsFiniteSet(upto(k)) BY <1>4
    <2>3. upto(i) # upto(k) BY <2>1
    <2> HIDE DEF upto
    <2> QED BY <2>1, <2>2, <2>3, FS_Subset
  <1> HIDE DEF upto, n, stay
  <1>6. rank \in Injection(stay, 1 .. n)
    <2>1. rank \in [stay -> 1 .. n] BY <1>4
    <2>2. \A i, k \in stay : rank[i] = rank[k] => i = k
      BY <1>1, <1>5
    <2> QED BY <2>1, <2>2 DEF Injection, IsInjective
  <1>7. rank \in Surjection(stay, 1 .. n)
    <2>1. IsFiniteSet(1 .. n) /\ Cardinality(1 .. n) = n
      BY <1>3, FS_Interval
    <2> QED BY <1>6, <2>1, FS_Injection DEF n
  <1>8. ASSUME NEW j \in 1 .. n PROVE Nth(j) \in stay
    <2>1. \E i \in stay : rank[i] = j
      BY <1>7 DEF Surjection
    <2>2. \E i \in stay : Cardinality(upto(i)) = j
      BY <2>1
    <2> QED BY <2>2
  <1>9. Without(d) = [j \in 1 .. n |-> keyring[Nth(j)]]
    BY DEF Without, stay, n, upto
  <1> HIDE DEF Nth
  <1>10. /\ Without(d) \in Seq(Keys) /\ Len(Without(d)) = n /\ DOMAIN Without(d) = 1 .. n
         /\ \A j \in 1 .. n : Without(d)[j] = keyring[Nth(j)]
    BY <1>1, <1>3, <1>8, <1>9 DEF stay
  <1> QED BY <1>3, <1>8, <1>10 DEF stay

\* A broker that loses, repeats or reorders frames invents none.
LEMMA MishandledIs ==
    ASSUME NEW S, NEW q \in Seq(S), q # <<>>, NEW r \in Mishandled(q)
    PROVE  /\ r \in Seq(S)
           /\ \A i \in DOMAIN r : \E j \in DOMAIN q : r[i] = q[j]
  <1>1. Len(q) \in Nat /\ Len(q) >= 1 /\ DOMAIN q = 1 .. Len(q) /\ Last(q) = q[Len(q)]
    BY DEF Last
  <1>2. CASE r = Front(q)
    BY <1>1, <1>2 DEF Front
  <1>3. CASE r = Append(q, Last(q))
    <2>1. Last(q) \in S BY <1>1
    <2>2. /\ r \in Seq(S) /\ DOMAIN r = 1 .. (Len(q) + 1)
          /\ \A i \in 1 .. Len(q) : r[i] = q[i]
          /\ r[Len(q) + 1] = q[Len(q)]
      BY <1>1, <1>3, <2>1, AppendIs
    <2> QED BY <1>1, <2>2
  <1>4. CASE r = SwapLast(q)
    BY <1>1, <1>4 DEF SwapLast
  <1> QED BY <1>2, <1>3, <1>4 DEF Mishandled

-----------------------------------------------------------------------------
(***************************************************************************)
(* Types.                                                                  *)
(***************************************************************************)
Messages == {Open, Close} \cup Frames
Tasks == Frames \cup [type : {"line"}, line : Nat]

\* What travels: a message is a frame or a notice, a task a frame or a line.
LEMMA Kinds ==
    /\ \A n, l \in Nat : /\ Frame(n, l) \in Frames /\ IsFrame(Frame(n, l))
                         /\ Frame(n, l).n = n /\ Frame(n, l).line = l
    /\ \A l \in Nat : Line(l) \in Tasks /\ ~IsFrame(Line(l)) /\ Line(l).line = l
    /\ \A f \in Frames : /\ f.n \in Nat /\ f.line \in Nat /\ IsFrame(f)
                         /\ f \in Messages /\ f \in Tasks /\ f # Open /\ f # Close
    /\ \A m \in Messages : IsFrame(m) => m \in Frames
    /\ \A m \in Tasks : /\ IsFrame(m) => m \in Frames
                        /\ m.line \in Nat
                        /\ m.type = "line" <=> ~IsFrame(m)
    /\ Open \in Messages /\ Close \in Messages
    /\ ~IsFrame(Open) /\ ~IsFrame(Close) /\ Open # Close
  BY DEF Frame, Line, Frames, Messages, Tasks, IsFrame, Open, Close

\* Where a queue's type is used: it can grow at its end and lose its first.
LEMMA QueueTypes ==
    ASSUME TypeOK
    PROVE  /\ toAgent \in Seq(Messages) /\ toBrowser \in Seq(Messages)
           /\ chain \in Seq(Tasks)
           /\ \A m \in Messages : /\ Append(toAgent, m) \in Seq(Messages)
                                  /\ Append(toBrowser, m) \in Seq(Messages)
           /\ \A m \in Tasks : Append(chain, m) \in Seq(Tasks)
           /\ toAgent # <<>> => Tail(toAgent) \in Seq(Messages) /\ Head(toAgent) \in Messages
           /\ toBrowser # <<>> => Tail(toBrowser) \in Seq(Messages) /\ Head(toBrowser) \in Messages
           /\ chain # <<>> => Tail(chain) \in Seq(Tasks) /\ Head(chain) \in Tasks
  <1>1. /\ toAgent \in Seq(Messages) /\ toBrowser \in Seq(Messages)
        /\ chain \in Seq(Tasks)
    BY DEF TypeOK, Messages, Tasks
  <1>2. \A S : \A q \in Seq(S) : /\ \A m \in S : Append(q, m) \in Seq(S)
                                 /\ q # <<>> => Tail(q) \in Seq(S) /\ Head(q) \in S
    BY AppendIs, TailIs
  <1> QED BY <1>1, <1>2

\* The initial state has its types: the restored keyring fits.
LEMMA TypeInit ==
    ASSUME SealedStreamAssumption, Init
    PROVE  TypeOK
  <1>1. keyring \in Seq(Keys) /\ Len(keyring) <= MaxKeyring
    <2>1. PICK n \in 0 .. MaxKeyring : keyring \in [1 .. n -> Keys] BY DEF Init
    <2>2. n \in Nat /\ n <= MaxKeyring BY <2>1 DEF SealedStreamAssumption
    <2> QED BY <2>1, <2>2
  <1>2. toAgent \in Seq(Messages) /\ toBrowser \in Seq(Messages)
    BY Kinds DEF Init
  <1>3. /\ \A S : <<>> \in Seq(S)
        /\ chain \in Seq(Frames \cup [type : {"line"}, line : Nat])
    BY DEF Init
  <1>4. 0 \in 0 .. MaxLines /\ 0 \in 0 .. MaxFaults /\ 0 \in 0 .. MaxKeyring
    BY DEF SealedStreamAssumption
  <1>5. /\ sealing \subseteq Frames /\ forgotten \subseteq Keys /\ racing \subseteq Keys
        /\ TRUE \in BOOLEAN /\ FALSE \in BOOLEAN
    BY DEF Init
  <1> QED BY <1>1, <1>2, <1>3, <1>4, <1>5, Zenon DEF Init, TypeOK, Messages

\* Who ends a stream, and which tasks the promise chain runs.
Task ==
    \/ SealToBroker \/ OpenFromBroker
    \/ StartTrial \/ TrialFails \/ TrialSucceeds
    \/ \E ok \in BOOLEAN : AdmitRefused(ok) \/ AdmitAllowed(ok)
    \/ FlushHeld

\* A task that is running is the head of the chain; it stays there or is done.
LEMMA TaskMoves ==
    ASSUME TypeOK, Running, Task
    PROVE  /\ chain # <<>> /\ (chain' = chain \/ chain' = Tail(chain))
           /\ UNCHANGED <<browserVars, toAgent, faults, keyVars, localVars>>
  <1>1. CASE SealToBroker BY <1>1 DEF SealToBroker
  <1>2. CASE OpenFromBroker BY <1>2 DEF OpenFromBroker
  <1>3. CASE StartTrial BY <1>3 DEF StartTrial, Try
  <1>4. CASE TrialFails BY <1>4 DEF TrialFails, Try, Running
  <1>5. CASE TrialSucceeds BY <1>5 DEF TrialSucceeds, Running, wireVars
  <1>6. ASSUME NEW ok \in BOOLEAN, AdmitRefused(ok)
        PROVE  /\ chain # <<>> /\ (chain' = chain \/ chain' = Tail(chain))
               /\ UNCHANGED <<browserVars, toAgent, faults, keyVars, localVars>>
    BY <1>6 DEF AdmitRefused, Running
  <1>7. ASSUME NEW ok \in BOOLEAN, AdmitAllowed(ok)
        PROVE  /\ chain # <<>> /\ (chain' = chain \/ chain' = Tail(chain))
               /\ UNCHANGED <<browserVars, toAgent, faults, keyVars, localVars>>
    BY <1>7 DEF AdmitAllowed, Running, wireVars
  <1>8. CASE FlushHeld BY <1>8 DEF FlushHeld, Running
  <1> QED BY <1>1, <1>2, <1>3, <1>4, <1>5, <1>6, <1>7, <1>8 DEF Task

\* dropStream() and the browser's detaching only add a notice.
LEMMA DropTypes ==
    ASSUME TypeOK, NEW cause \in {"auth", "unmatched", "refused", "revoked", "local", "remote"},
           NEW tell \in BOOLEAN, DropStream(cause, tell)
    PROVE  /\ stream' = "closed"
           /\ why' \in {"none", "auth", "unmatched", "refused", "revoked", "local", "remote"}
           /\ toBrowser' \in Seq(Messages)
  <1>1. toBrowser \in Seq(Messages) /\ Append(toBrowser, Close) \in Seq(Messages)
    BY QueueTypes, Kinds
  <1>2. why \in {"none", "auth", "unmatched", "refused", "revoked", "local", "remote"}
    BY DEF TypeOK
  <1> QED BY <1>1, <1>2 DEF DropStream

\* The type invariant, by who writes the variables.
BrowserFlags == /\ key \in Keys \cup {None}
                /\ streamId \in BOOLEAN /\ detached \in BOOLEAN
                /\ bwhy \in {"none", "auth", "remote", "left"}
BrowserLines == /\ queued \in Seq(Nat) /\ outbound \in Seq(Nat)
                /\ sealing \subseteq Frames
                /\ sealed \in Nat /\ wrote \in 0 .. MaxLines
BrowserTakes == seen \in Nat /\ got \in Seq(Nat)
ToAgentType == toAgent \in Seq(Messages)
ToBrowserType == toBrowser \in Seq(Messages)
FaultsType == faults \in 0 .. MaxFaults
KeyTypes == /\ keyring \in Seq(Keys) /\ Len(keyring) <= MaxKeyring
            /\ forgotten \subseteq Keys /\ racing \subseteq Keys
StreamTypes ==
    /\ stream \in {"none", "open", "closed"}
    /\ why \in {"none", "auth", "unmatched", "refused", "revoked", "local", "remote"}
ChainTypes == /\ chain \in Seq(Tasks)
              /\ pc \in {"idle", "trial", "admit", "flush"}
              /\ at \in 0 .. MaxKeyring /\ trying \in Keys \cup {None}
              /\ bound \in Keys \cup {None} /\ highest \in Nat
PipeTypes == /\ replied \in Nat
             /\ toLocal \in Seq(Nat) /\ toBroker \in Seq(Nat) /\ held \in Seq(Nat)
             /\ relay \in Seq(Nat)
LocalTypes == local \in BOOLEAN /\ said \in 0 .. MaxLines
TypeParts == /\ BrowserFlags /\ BrowserLines /\ BrowserTakes
             /\ ToAgentType /\ ToBrowserType /\ FaultsType /\ KeyTypes /\ StreamTypes
             /\ ChainTypes /\ PipeTypes /\ LocalTypes /\ admitted \in BOOLEAN

\* The parts together are the type invariant.
LEMMA TypeSplit ==
    /\ TypeOK <=> TypeParts
    /\ TypeOK' <=> TypeParts'
  <1>1. TypeOK <=> TypeParts
    BY Zenon DEF TypeOK, TypeParts, BrowserFlags, BrowserLines, BrowserTakes, ToAgentType,
       ToBrowserType, FaultsType, KeyTypes, StreamTypes, ChainTypes, PipeTypes, LocalTypes,
       Messages, Tasks
  <1>2. TypeOK' <=> TypeParts'
    BY Zenon DEF TypeOK, TypeParts, BrowserFlags, BrowserLines, BrowserTakes, ToAgentType,
       ToBrowserType, FaultsType, KeyTypes, StreamTypes, ChainTypes, PipeTypes, LocalTypes,
       Messages, Tasks
  <1> QED BY <1>1, <1>2

\* What an action does not write keeps its type.
LEMMA TypesKept ==
    ASSUME TypeOK
    PROVE  /\ UNCHANGED <<key, streamId, detached, bwhy>> => BrowserFlags'
           /\ UNCHANGED <<queued, outbound, sealing, sealed, wrote>> => BrowserLines'
           /\ UNCHANGED <<seen, got>> => BrowserTakes'
           /\ UNCHANGED toAgent => ToAgentType'
           /\ UNCHANGED toBrowser => ToBrowserType'
           /\ UNCHANGED faults => FaultsType'
           /\ UNCHANGED keyVars => KeyTypes'
           /\ UNCHANGED <<stream, why>> => StreamTypes'
           /\ UNCHANGED <<bound, highest, chain, pc, at, trying>> => ChainTypes'
           /\ UNCHANGED <<replied, toLocal, toBroker, held, relay>> => PipeTypes'
           /\ UNCHANGED localVars => LocalTypes'
           /\ UNCHANGED admitted => (admitted \in BOOLEAN)'
  <1>1. TypeParts BY TypeSplit
  <1>2. /\ UNCHANGED <<key, streamId, detached, bwhy>> => BrowserFlags'
        /\ UNCHANGED <<queued, outbound, sealing, sealed, wrote>> => BrowserLines'
        /\ UNCHANGED <<seen, got>> => BrowserTakes'
        /\ UNCHANGED toAgent => ToAgentType'
    BY <1>1 DEF TypeParts, BrowserFlags, BrowserLines, BrowserTakes, ToAgentType
  <1>3. /\ UNCHANGED toBrowser => ToBrowserType'
        /\ UNCHANGED faults => FaultsType'
        /\ UNCHANGED keyVars => KeyTypes'
        /\ UNCHANGED <<stream, why>> => StreamTypes'
    BY <1>1 DEF TypeParts, ToBrowserType, FaultsType, KeyTypes, StreamTypes, keyVars
  <1>4. /\ UNCHANGED <<bound, highest, chain, pc, at, trying>> => ChainTypes'
        /\ UNCHANGED <<replied, toLocal, toBroker, held, relay>> => PipeTypes'
    BY <1>1 DEF TypeParts, ChainTypes, PipeTypes
  <1>5. /\ UNCHANGED localVars => LocalTypes'
        /\ UNCHANGED admitted => (admitted \in BOOLEAN)'
    BY <1>1, Zenon DEF TypeParts, LocalTypes, localVars
  <1> QED BY <1>2, <1>3, <1>4, <1>5

\* The browser and the broker.
LEMMA BrowserTypes ==
    ASSUME SealedStreamAssumption, StreamInv, BrowserNext \/ BrowserLeaves \/ BrokerFault
    PROVE  TypeOK'
  <1>1. TypeOK BY DEF StreamInv
  <1>2. CASE Send
    <2>1. /\ BrowserFlags' /\ BrowserTakes' /\ ToAgentType'
          /\ ToBrowserType' /\ FaultsType' /\ KeyTypes' /\ StreamTypes'
          /\ ChainTypes' /\ PipeTypes' /\ LocalTypes'
          /\ (admitted \in BOOLEAN)'
      BY <1>1, <1>2, TypesKept, Zenon DEF Send, wireVars, keyVars, pipeVars, localVars
    <2>2. BrowserLines'
      <3>1. /\ wrote \in 0 .. MaxLines /\ MaxLines \in Nat /\ wrote < MaxLines /\ wrote' = wrote + 1
            /\ outbound \in Seq(Nat) /\ queued \in Seq(Nat)
            /\ sealing \subseteq Frames /\ sealed \in Nat
        BY <1>1, <1>2 DEF TypeOK, Send, SealedStreamAssumption
      <3>2. wrote' \in 0 .. MaxLines /\ wrote + 1 \in Nat BY <3>1
      <3>3. Append(outbound, wrote + 1) \in Seq(Nat) /\ Append(queued, wrote + 1) \in Seq(Nat)
        BY <3>1, <3>2, AppendIs
      <3>4. \/ outbound' = Append(outbound, wrote + 1) /\ queued' = queued
            \/ outbound' = outbound /\ queued' = Append(queued, wrote + 1)
        BY <1>2, Zenon DEF Send
      <3>5. outbound' \in Seq(Nat) /\ queued' \in Seq(Nat) BY <3>1, <3>3, <3>4
      <3>6. sealing' = sealing /\ sealed' = sealed BY <1>2, Zenon DEF Send
      <3> QED BY <3>1, <3>2, <3>5, <3>6 DEF BrowserLines
    <2> QED BY <2>1, <2>2, TypeSplit DEF TypeParts
  <1>3. CASE StartSeal
    <2>1. /\ BrowserFlags' /\ BrowserTakes' /\ ToAgentType'
          /\ ToBrowserType' /\ FaultsType' /\ KeyTypes' /\ StreamTypes'
          /\ ChainTypes' /\ PipeTypes' /\ LocalTypes'
          /\ (admitted \in BOOLEAN)'
      BY <1>1, <1>3, TypesKept, Zenon DEF StartSeal, wireVars, keyVars, pipeVars, localVars
    <2>2. BrowserLines'
      <3>1. /\ outbound \in Seq(Nat) /\ outbound # <<>> /\ sealing \subseteq Frames /\ sealed \in Nat
            /\ outbound' = Tail(outbound) /\ sealed' = sealed + 1
            /\ sealing' = sealing \cup {Frame(sealed, Head(outbound))}
            /\ queued' \in Seq(Nat) /\ wrote' \in 0 .. MaxLines
        BY <1>1, <1>3 DEF TypeOK, StartSeal
      <3>2. Tail(outbound) \in Seq(Nat) /\ Head(outbound) \in Nat BY <3>1, TailIs
      <3>3. Frame(sealed, Head(outbound)) \in Frames BY <3>1, <3>2, Kinds
      <3> QED BY <3>1, <3>2, <3>3 DEF BrowserLines
    <2> QED BY <2>1, <2>2, TypeSplit DEF TypeParts
  <1>4. ASSUME NEW f \in sealing, FinishSeal(f) PROVE TypeOK'
    <2>1. /\ BrowserFlags' /\ BrowserTakes' /\ ToBrowserType'
          /\ FaultsType' /\ KeyTypes' /\ StreamTypes' /\ ChainTypes'
          /\ PipeTypes' /\ LocalTypes' /\ (admitted \in BOOLEAN)'
      BY <1>1, <1>4, TypesKept, Zenon DEF FinishSeal, wireVars, keyVars, pipeVars, localVars
    <2>2. BrowserLines'
      BY <1>1, <1>4 DEF TypeOK, FinishSeal, BrowserLines
    <2>3. ToAgentType'
      <3>1. f \in Messages BY <1>1, Kinds DEF TypeOK
      <3>2. toAgent' = toAgent \/ toAgent' = Append(toAgent, f) BY <1>4, Zenon DEF FinishSeal
      <3> QED BY <1>1, <3>1, <3>2, QueueTypes DEF ToAgentType
    <2> QED BY <2>1, <2>2, <2>3, TypeSplit DEF TypeParts
  <1>5. CASE BrowserStreamOpen
    <2>1. /\ BrowserTakes' /\ ToAgentType' /\ FaultsType' /\ KeyTypes'
          /\ StreamTypes' /\ ChainTypes' /\ PipeTypes' /\ LocalTypes'
          /\ (admitted \in BOOLEAN)'
      BY <1>1, <1>5, TypesKept, Zenon DEF BrowserStreamOpen, keyVars, pipeVars, localVars
    <2>2. BrowserFlags'
      BY <1>1, <1>5, Zenon DEF TypeOK, BrowserStreamOpen, BrowserFlags
    <2>3. BrowserLines'
      BY <1>1, <1>5 DEF TypeOK, BrowserStreamOpen, BrowserLines, Flushed
    <2>4. ToBrowserType'
      BY <1>1, <1>5, QueueTypes DEF BrowserStreamOpen, ToBrowserType
    <2> QED BY <2>1, <2>2, <2>3, <2>4, TypeSplit DEF TypeParts
  <1>6. CASE BrowserFrame
    <2>1. /\ BrowserLines' /\ FaultsType' /\ KeyTypes' /\ StreamTypes'
          /\ ChainTypes' /\ PipeTypes' /\ LocalTypes'
          /\ (admitted \in BOOLEAN)'
      BY <1>1, <1>6, TypesKept, Zenon DEF BrowserFrame, keyVars, pipeVars, localVars
    <2>2. BrowserFlags'
      BY <1>1, <1>6, Zenon DEF TypeOK, BrowserFrame, BrowserFlags, Detach
    <2>3. BrowserTakes'
      <3> DEFINE f == Head(toBrowser)
      <3>1. seen \in Nat /\ got \in Seq(Nat) BY <1>1 DEF TypeOK
      <3>2. f \in Messages /\ IsFrame(f) BY <1>1, <1>6, QueueTypes DEF BrowserFrame, IsFrame
      <3>3. f.n \in Nat /\ f.line \in Nat BY <3>2, Kinds
      <3>4. \/ seen' = f.n + 1 /\ got' = Append(got, f.line)
            \/ seen' = seen /\ got' = got
        BY <1>6, Zenon DEF BrowserFrame
      <3> HIDE DEF f
      <3>5. Append(got, f.line) \in Seq(Nat) BY <3>1, <3>3, AppendIs
      <3> QED BY <3>1, <3>3, <3>4, <3>5 DEF BrowserTakes
    <2>4. ToAgentType'
      <3>1. toAgent' = toAgent \/ toAgent' = Append(toAgent, Close)
        BY <1>6, Zenon DEF BrowserFrame, Detach
      <3>2. toAgent \in Seq(Messages) /\ Append(toAgent, Close) \in Seq(Messages)
        BY <1>1, QueueTypes, Kinds
      <3> QED BY <3>1, <3>2, Zenon DEF ToAgentType
    <2>5. ToBrowserType'
      BY <1>1, <1>6, QueueTypes DEF BrowserFrame, ToBrowserType
    <2> QED BY <2>1, <2>2, <2>3, <2>4, <2>5, TypeSplit DEF TypeParts
  <1>7. CASE BrowserStreamClose
    <2>1. /\ BrowserLines' /\ BrowserTakes' /\ FaultsType' /\ KeyTypes'
          /\ StreamTypes' /\ ChainTypes' /\ PipeTypes' /\ LocalTypes'
          /\ ToBrowserType' /\ (admitted \in BOOLEAN)'
      BY <1>1, <1>7, TypesKept, Zenon DEF BrowserStreamClose, keyVars, pipeVars, localVars
    <2>2. BrowserFlags'
      BY <1>1, <1>7, Zenon DEF TypeOK, BrowserStreamClose, BrowserFlags, Detach
    <2>3. ToAgentType'
      BY <1>1, <1>7, QueueTypes, Kinds DEF BrowserStreamClose, Detach, ToAgentType
    <2> QED BY <2>1, <2>2, <2>3, TypeSplit DEF TypeParts
  <1>8. CASE BrowserLeaves
    <2>1. /\ BrowserLines' /\ BrowserTakes' /\ ToBrowserType'
          /\ FaultsType' /\ KeyTypes' /\ StreamTypes' /\ ChainTypes'
          /\ PipeTypes' /\ LocalTypes' /\ (admitted \in BOOLEAN)'
      BY <1>1, <1>8, TypesKept, Zenon DEF BrowserLeaves, keyVars, pipeVars, localVars
    <2>2. BrowserFlags'
      BY <1>1, <1>8, Zenon DEF TypeOK, BrowserLeaves, BrowserFlags, Detach
    <2>3. ToAgentType'
      BY <1>1, <1>8, QueueTypes, Kinds DEF BrowserLeaves, Detach, ToAgentType
    <2> QED BY <2>1, <2>2, <2>3, TypeSplit DEF TypeParts
  <1>9. CASE BrokerFault
    <2>1. /\ BrowserFlags' /\ BrowserLines' /\ BrowserTakes'
          /\ KeyTypes' /\ StreamTypes' /\ ChainTypes' /\ PipeTypes'
          /\ LocalTypes' /\ (admitted \in BOOLEAN)'
      BY <1>1, <1>9, TypesKept, Zenon DEF BrokerFault, browserVars, keyVars, pipeVars, localVars
    <2>2. ToAgentType'
      BY <1>1, <1>9, QueueTypes, MishandledIs DEF BrokerFault, ToAgentType
    <2>3. ToBrowserType'
      BY <1>1, <1>9, QueueTypes, MishandledIs DEF BrokerFault, ToBrowserType
    <2>4. FaultsType'
      <3>1. /\ faults \in 0 .. MaxFaults /\ MaxFaults \in Nat
            /\ faults < MaxFaults /\ faults' = faults + 1
        BY <1>1, <1>9 DEF TypeOK, BrokerFault, SealedStreamAssumption
      <3> QED BY <3>1 DEF FaultsType
    <2> QED BY <2>1, <2>2, <2>3, <2>4, TypeSplit DEF TypeParts
  <1> QED BY <1>2, <1>3, <1>4, <1>5, <1>6, <1>7, <1>8, <1>9 DEF BrowserNext

\* The agent's messages, its loopback socket and its keyring.
LEMMA AgentTypes ==
    ASSUME SealedStreamAssumption, StreamInv,
           \/ AgentStreamOpen \/ AgentStreamFrame \/ AgentStreamClose \/ LocalOpens
           \/ RelaySpeaks \/ TeardownStreams \/ LocalCloses
           \/ \E k \in Keys : AddSessionKeys(k)
           \/ \E d \in Range(Owner) : RemoveSessionKeys(d)
    PROVE  TypeOK'
  <1>1. TypeOK BY DEF StreamInv
  <1>2. CASE AgentStreamOpen
    <2>1. /\ BrowserFlags' /\ BrowserLines' /\ BrowserTakes'
          /\ ToBrowserType' /\ FaultsType' /\ KeyTypes' /\ ChainTypes'
          /\ PipeTypes' /\ LocalTypes' /\ (admitted \in BOOLEAN)'
      BY <1>1, <1>2, TypesKept, Zenon DEF AgentStreamOpen, browserVars, keyVars, pipeVars, localVars
    <2>2. ToAgentType'
      BY <1>1, <1>2, QueueTypes DEF AgentStreamOpen, ToAgentType
    <2>3. StreamTypes'
      BY <1>1, <1>2 DEF AgentStreamOpen, StreamTypes, TypeOK
    <2> QED BY <2>1, <2>2, <2>3, TypeSplit DEF TypeParts
  <1>3. CASE AgentStreamFrame
    <2>1. /\ BrowserFlags' /\ BrowserLines' /\ BrowserTakes'
          /\ ToBrowserType' /\ FaultsType' /\ KeyTypes' /\ StreamTypes'
          /\ PipeTypes' /\ LocalTypes' /\ (admitted \in BOOLEAN)'
      BY <1>1, <1>3, TypesKept, Zenon DEF AgentStreamFrame, browserVars, keyVars, localVars
    <2>2. ToAgentType'
      BY <1>1, <1>3, QueueTypes DEF AgentStreamFrame, ToAgentType
    <2>3. ChainTypes'
      <3>1. Head(toAgent) \in Tasks BY <1>1, <1>3, QueueTypes, Kinds DEF AgentStreamFrame, IsFrame
      <3>2. chain' \in Seq(Tasks) BY <1>1, <1>3, <3>1, QueueTypes DEF AgentStreamFrame
      <3> QED BY <1>1, <1>3, <3>2 DEF ChainTypes, TypeOK, AgentStreamFrame
    <2> QED BY <2>1, <2>2, <2>3, TypeSplit DEF TypeParts
  <1>4. CASE AgentStreamClose
    <2>1. /\ BrowserFlags' /\ BrowserLines' /\ BrowserTakes'
          /\ FaultsType' /\ KeyTypes' /\ ChainTypes' /\ PipeTypes'
          /\ LocalTypes' /\ (admitted \in BOOLEAN)'
      BY <1>1, <1>4, TypesKept, Zenon DEF AgentStreamClose, browserVars, keyVars, pipeVars, localVars
    <2>2. ToAgentType'
      BY <1>1, <1>4, QueueTypes DEF AgentStreamClose, ToAgentType
    <2>3. ToBrowserType'
      BY <1>1, <1>4, DropTypes DEF AgentStreamClose, ToBrowserType
    <2>4. StreamTypes'
      BY <1>1, <1>4, DropTypes DEF AgentStreamClose, StreamTypes
    <2> QED BY <2>1, <2>2, <2>3, <2>4, TypeSplit DEF TypeParts
  <1>5. CASE LocalOpens
    <2>1. /\ BrowserFlags' /\ BrowserLines' /\ BrowserTakes'
          /\ ToAgentType' /\ ToBrowserType' /\ FaultsType' /\ KeyTypes'
          /\ StreamTypes' /\ ChainTypes' /\ (admitted \in BOOLEAN)'
      BY <1>1, <1>5, TypesKept, Zenon DEF LocalOpens, browserVars, wireVars, keyVars
    <2>2. PipeTypes'
      BY <1>1, <1>5 DEF LocalOpens, LocalFlush, PipeTypes, TypeOK
    <2>3. LocalTypes'
      BY <1>1, <1>5, Zenon DEF LocalOpens, LocalTypes, TypeOK
    <2> QED BY <2>1, <2>2, <2>3, TypeSplit DEF TypeParts
  <1>6. CASE RelaySpeaks
    <2>1. /\ BrowserFlags' /\ BrowserLines' /\ BrowserTakes'
          /\ ToAgentType' /\ ToBrowserType' /\ FaultsType' /\ KeyTypes'
          /\ StreamTypes' /\ PipeTypes' /\ (admitted \in BOOLEAN)'
      BY <1>1, <1>6, TypesKept, Zenon DEF RelaySpeaks, browserVars, wireVars, keyVars
    <2>2. ChainTypes'
      <3>1. said + 1 \in Nat /\ chain' = Append(chain, Line(said + 1))
        BY <1>1, <1>6 DEF RelaySpeaks, TypeOK
      <3>2. chain' \in Seq(Tasks) BY <1>1, <3>1, QueueTypes, Kinds
      <3> QED BY <1>1, <1>6, <3>2 DEF ChainTypes, TypeOK, RelaySpeaks
    <2>3. LocalTypes'
      <3>1. said \in 0 .. MaxLines /\ MaxLines \in Nat /\ said < MaxLines /\ said' = said + 1
        BY <1>1, <1>6 DEF RelaySpeaks, TypeOK, SealedStreamAssumption
      <3>2. said' \in 0 .. MaxLines BY <3>1
      <3>3. local' \in BOOLEAN BY <1>1, <1>6, Zenon DEF RelaySpeaks, TypeOK
      <3> QED BY <3>2, <3>3 DEF LocalTypes
    <2> QED BY <2>1, <2>2, <2>3, TypeSplit DEF TypeParts
  <1>7. CASE TeardownStreams
    <2>1. /\ BrowserFlags' /\ BrowserLines' /\ BrowserTakes'
          /\ ToAgentType' /\ FaultsType' /\ KeyTypes' /\ ChainTypes'
          /\ PipeTypes' /\ LocalTypes' /\ (admitted \in BOOLEAN)'
      BY <1>1, <1>7, TypesKept, Zenon DEF TeardownStreams, browserVars, keyVars, pipeVars, localVars
    <2>2. ToBrowserType'
      BY <1>1, <1>7, DropTypes DEF TeardownStreams, ToBrowserType
    <2>3. StreamTypes'
      BY <1>1, <1>7, DropTypes DEF TeardownStreams, StreamTypes
    <2> QED BY <2>1, <2>2, <2>3, TypeSplit DEF TypeParts
  <1>8. CASE LocalCloses
    <2>1. /\ BrowserFlags' /\ BrowserLines' /\ BrowserTakes'
          /\ ToAgentType' /\ FaultsType' /\ KeyTypes' /\ ChainTypes'
          /\ PipeTypes' /\ LocalTypes' /\ (admitted \in BOOLEAN)'
      BY <1>1, <1>8, TypesKept, Zenon DEF LocalCloses, browserVars, keyVars, pipeVars, localVars
    <2>2. ToBrowserType'
      BY <1>1, <1>8, DropTypes DEF LocalCloses, ToBrowserType
    <2>3. StreamTypes'
      BY <1>1, <1>8, DropTypes DEF LocalCloses, StreamTypes
    <2> QED BY <2>1, <2>2, <2>3, TypeSplit DEF TypeParts
  <1>9. ASSUME NEW k \in Keys, AddSessionKeys(k) PROVE TypeOK'
    <2>1. /\ BrowserFlags' /\ BrowserLines' /\ BrowserTakes'
          /\ ToAgentType' /\ ToBrowserType' /\ FaultsType'
          /\ StreamTypes' /\ ChainTypes' /\ PipeTypes' /\ LocalTypes'
          /\ (admitted \in BOOLEAN)'
      BY <1>1, <1>9, TypesKept, Zenon DEF AddSessionKeys, browserVars, wireVars, pipeVars, localVars
    <2>2. KeyTypes'
      <3> DEFINE s == Append(keyring, k)
      <3>1. keyring \in Seq(Keys) /\ Len(keyring) <= MaxKeyring /\ MaxKeyring \in Nat
        BY <1>1 DEF TypeOK, SealedStreamAssumption
      <3>2. /\ s \in Seq(Keys) /\ s # <<>> /\ Len(s) = Len(keyring) + 1 /\ Len(keyring) \in Nat
        BY <3>1, AppendIs
      <3>3. keyring' = IF Len(s) > MaxKeyring THEN Tail(s) ELSE s
        BY <1>9 DEF AddSessionKeys, Trimmed
      <3> HIDE DEF s
      <3>4. Tail(s) \in Seq(Keys) /\ Len(Tail(s)) = Len(s) - 1 BY <3>2, TailIs
      <3>5. keyring' \in Seq(Keys) /\ Len(keyring') <= MaxKeyring
        <4>1. CASE Len(s) > MaxKeyring BY <3>1, <3>2, <3>3, <3>4, <4>1
        <4>2. CASE ~(Len(s) > MaxKeyring) BY <3>1, <3>2, <3>3, <4>2
        <4> QED BY <4>1, <4>2
      <3> QED BY <1>1, <1>9, <3>5 DEF KeyTypes, TypeOK, AddSessionKeys
    <2> QED BY <2>1, <2>2, TypeSplit DEF TypeParts
  <1>10. ASSUME NEW d \in Range(Owner), RemoveSessionKeys(d) PROVE TypeOK'
    <2>1. /\ BrowserFlags' /\ BrowserLines' /\ BrowserTakes'
          /\ ToAgentType' /\ FaultsType' /\ ChainTypes' /\ PipeTypes'
          /\ LocalTypes' /\ (admitted \in BOOLEAN)'
      BY <1>1, <1>10, TypesKept, Zenon DEF RemoveSessionKeys, browserVars, pipeVars, localVars
    <2>2. KeyTypes'
      <3>1. /\ keyring \in Seq(Keys) /\ Len(keyring) <= MaxKeyring
            /\ keyring' = Without(d) /\ MaxKeyring \in Nat
        BY <1>1, <1>10 DEF TypeOK, RemoveSessionKeys, SealedStreamAssumption
      <3>2. Without(d) \in Seq(Keys) /\ Len(Without(d)) <= Len(keyring) BY <3>1, WithoutIs
      <3>3. keyring' \in Seq(Keys) /\ Len(keyring') <= MaxKeyring
        <4>1. Len(Without(d)) \in Nat /\ Len(keyring) \in Nat BY <3>1, <3>2
        <4> QED BY <3>1, <3>2, <4>1
      <3>4. forgotten' \subseteq Keys /\ racing' \subseteq Keys
        BY <1>1, <1>10 DEF RemoveSessionKeys, TypeOK, Range
      <3> QED BY <3>3, <3>4 DEF KeyTypes
    <2>3. ToBrowserType'
      BY <1>1, <1>10, DropTypes, QueueTypes DEF RemoveSessionKeys, ToBrowserType
    <2>4. StreamTypes'
      <3>1. DropStream("revoked", TRUE) \/ UNCHANGED <<stream, why>>
        BY <1>10, Zenon DEF RemoveSessionKeys
      <3> QED BY <1>1, <3>1, DropTypes DEF StreamTypes, TypeOK
    <2> QED BY <2>1, <2>2, <2>3, <2>4, TypeSplit DEF TypeParts
  <1> QED BY <1>2, <1>3, <1>4, <1>5, <1>6, <1>7, <1>8, <1>9, <1>10

\* The line of a task is a number, and so is the counter of a frame.
LEMMA HeadTask ==
    ASSUME TypeOK, chain # <<>>
    PROVE  /\ Head(chain) \in Tasks /\ Tail(chain) \in Seq(Tasks) /\ chain \in Seq(Tasks)
           /\ Head(chain).line \in Nat
           /\ Head(chain).type = "line" <=> ~IsFrame(Head(chain))
           /\ IsFrame(Head(chain)) => Head(chain).n \in Nat /\ Head(chain) \in Frames
  BY QueueTypes, Kinds

\* A loop over the keyring stays inside it.
LEMMA TryTypes ==
    ASSUME SealedStreamAssumption, TypeOK, chain # <<>>, NEW i \in 1 .. (MaxKeyring + 1), Try(i),
           UNCHANGED <<bound, highest>>
    PROVE  ChainTypes' /\ ToBrowserType' /\ StreamTypes'
  <1>1. /\ keyring \in Seq(Keys) /\ Len(keyring) \in Nat /\ Len(keyring) <= MaxKeyring
        /\ MaxKeyring \in Nat /\ bound' \in Keys \cup {None} /\ highest' \in Nat
    BY DEF TypeOK, SealedStreamAssumption
  <1>2. CASE i <= Len(keyring)
    <2>1. keyring[i] \in Keys /\ i \in 0 .. MaxKeyring BY <1>1, <1>2
    <2>2. /\ pc' = "trial" /\ at' = i /\ trying' = keyring[i]
          /\ UNCHANGED <<chain, stream, why, toBrowser>>
      BY <1>2 DEF Try
    <2> QED BY <1>1, <2>1, <2>2, TypesKept, QueueTypes DEF ChainTypes
  <1>3. CASE ~(i <= Len(keyring))
    <2>1. /\ pc' = "idle" /\ at' = 0 /\ trying' = None
          /\ chain' = Tail(chain) /\ DropStream("unmatched", TRUE)
      BY <1>3 DEF Try
    <2>2. ToBrowserType' /\ StreamTypes' BY <2>1, DropTypes DEF ToBrowserType, StreamTypes
    <2>3. 0 \in 0 .. MaxKeyring /\ chain' \in Seq(Tasks) BY <1>1, <2>1, HeadTask
    <2> QED BY <1>1, <2>1, <2>2, <2>3 DEF ChainTypes
  <1> QED BY <1>2, <1>3

\* The agent's promise chain.
LEMMA TaskTypes ==
    ASSUME SealedStreamAssumption, StreamInv, Task
    PROVE  TypeOK'
  <1>1. TypeOK /\ Running BY DEF StreamInv
  <1> DEFINE h == Head(chain)
  <1>2. /\ chain # <<>> /\ h \in Tasks /\ Tail(chain) \in Seq(Tasks) /\ chain \in Seq(Tasks)
        /\ h.line \in Nat /\ (IsFrame(h) => h.n \in Nat)
        /\ chain' \in Seq(Tasks)
    BY <1>1, TaskMoves, HeadTask
  <1>3. /\ replied \in Nat /\ replied + 1 \in Nat /\ highest \in Nat /\ 0 \in 0 .. MaxKeyring
        /\ toLocal \in Seq(Nat) /\ toBroker \in Seq(Nat) /\ held \in Seq(Nat) /\ relay \in Seq(Nat)
        /\ pc \in {"idle", "trial", "admit", "flush"} /\ at \in 0 .. MaxKeyring
        /\ trying \in Keys \cup {None} /\ bound \in Keys \cup {None}
        /\ toBrowser \in Seq(Messages)
    BY <1>1 DEF TypeOK, Messages, SealedStreamAssumption
  <1>4. /\ \A q \in Seq(Nat) : Append(q, h.line) \in Seq(Nat)
        /\ Append(toBrowser, Frame(replied, h.line)) \in Seq(Messages)
        /\ held # <<>> => /\ Head(held) \in Nat /\ Tail(held) \in Seq(Nat)
                          /\ Append(toBrowser, Frame(replied, Head(held))) \in Seq(Messages)
    BY <1>1, <1>2, <1>3, AppendIs, TailIs, QueueTypes, Kinds
  <1> HIDE DEF h
  <1>5. CASE SealToBroker
    <2>1. /\ BrowserFlags' /\ BrowserLines' /\ BrowserTakes'
          /\ ToAgentType' /\ FaultsType' /\ KeyTypes' /\ StreamTypes'
          /\ LocalTypes' /\ (admitted \in BOOLEAN)'
      BY <1>1, <1>5, TypesKept, Zenon DEF SealToBroker, browserVars, wireVars, keyVars, localVars
    <2>2. ChainTypes'
      BY <1>2, <1>3, <1>5 DEF SealToBroker, ChainTypes
    <2>3. PipeTypes'
      <3>1. \/ toBroker' = Append(toBroker, h.line) /\ replied' = replied
            \/ toBroker' = toBroker /\ replied' = replied + 1
        BY <1>5, Zenon DEF SealToBroker, h
      <3>2. toBroker' \in Seq(Nat) /\ replied' \in Nat BY <1>3, <1>4, <3>1
      <3>3. toLocal' = toLocal /\ held' = held /\ relay' = relay BY <1>5, Zenon DEF SealToBroker
      <3> QED BY <1>3, <3>2, <3>3 DEF PipeTypes
    <2>4. ToBrowserType'
      <3>1. toBrowser' = toBrowser \/ toBrowser' = Append(toBrowser, Frame(replied, h.line))
        BY <1>5, Zenon DEF SealToBroker, h
      <3> QED BY <1>3, <1>4, <3>1, Zenon DEF ToBrowserType
    <2> QED BY <2>1, <2>2, <2>3, <2>4, TypeSplit DEF TypeParts
  <1>6. CASE OpenFromBroker
    <2>1. /\ BrowserFlags' /\ BrowserLines' /\ BrowserTakes'
          /\ ToAgentType' /\ FaultsType' /\ KeyTypes' /\ LocalTypes'
          /\ (admitted \in BOOLEAN)'
      BY <1>1, <1>6, TypesKept, Zenon DEF OpenFromBroker, browserVars, wireVars, keyVars, localVars
    <2>2. ChainTypes'
      <3>1. IsFrame(h) /\ (highest' = h.n \/ highest' = highest)
        BY <1>6, Zenon DEF OpenFromBroker, IsFrame, h
      <3>2. bound' = bound /\ pc' = pc /\ at' = at /\ trying' = trying BY <1>6, Zenon DEF OpenFromBroker
      <3>3. highest' \in Nat BY <1>2, <1>3, <3>1
      <3> QED BY <1>2, <1>3, <3>2, <3>3 DEF ChainTypes
    <2>3. PipeTypes'
      <3>1. \/ relay' = relay /\ toLocal' = toLocal
            \/ relay' = Append(relay, h.line) /\ toLocal' = toLocal
            \/ relay' = relay /\ toLocal' = Append(toLocal, h.line)
        BY <1>6, Zenon DEF OpenFromBroker, WriteLocal, h
      <3>2. relay' \in Seq(Nat) /\ toLocal' \in Seq(Nat) BY <1>3, <1>4, <3>1
      <3>3. replied' = replied /\ toBroker' = toBroker /\ held' = held BY <1>6, Zenon DEF OpenFromBroker
      <3> QED BY <1>3, <3>2, <3>3 DEF PipeTypes
    <2>4. ToBrowserType'
      <3>1. UNCHANGED toBrowser \/ DropStream("auth", TRUE)
        BY <1>6, Zenon DEF OpenFromBroker
      <3> QED BY <1>1, <3>1, DropTypes, TypesKept DEF ToBrowserType
    <2>5. StreamTypes'
      <3>1. UNCHANGED <<stream, why>> \/ DropStream("auth", TRUE)
        BY <1>6, Zenon DEF OpenFromBroker
      <3>2. CASE UNCHANGED <<stream, why>> BY <1>1, <3>2, TypesKept
      <3>3. CASE DropStream("auth", TRUE) BY <1>1, <3>3, DropTypes DEF StreamTypes
      <3> QED BY <3>1, <3>2, <3>3
    <2> QED BY <2>1, <2>2, <2>3, <2>4, <2>5, TypeSplit DEF TypeParts
  <1>7. CASE StartTrial
    <2>1. /\ BrowserFlags' /\ BrowserLines' /\ BrowserTakes'
          /\ ToAgentType' /\ FaultsType' /\ KeyTypes' /\ PipeTypes'
          /\ LocalTypes' /\ (admitted \in BOOLEAN)'
      BY <1>1, <1>7, TypesKept, Zenon DEF StartTrial, browserVars, keyVars, localVars
    <2>2. 1 \in 1 .. (MaxKeyring + 1) BY <1>3 DEF SealedStreamAssumption
    <2>3. Try(1) /\ UNCHANGED <<bound, highest>> BY <1>7 DEF StartTrial
    <2>4. ChainTypes' /\ ToBrowserType' /\ StreamTypes' BY <1>1, <1>2, <2>2, <2>3, TryTypes
    <2> QED BY <2>1, <2>4, TypeSplit DEF TypeParts
  <1>8. CASE TrialFails
    <2>1. /\ BrowserFlags' /\ BrowserLines' /\ BrowserTakes'
          /\ ToAgentType' /\ FaultsType' /\ KeyTypes' /\ PipeTypes'
          /\ LocalTypes' /\ (admitted \in BOOLEAN)'
      BY <1>1, <1>8, TypesKept, Zenon DEF TrialFails, browserVars, keyVars, localVars
    <2>2. at + 1 \in 1 .. (MaxKeyring + 1) BY <1>3 DEF SealedStreamAssumption
    <2>3. Try(at + 1) /\ UNCHANGED <<bound, highest>> BY <1>8 DEF TrialFails
    <2>4. ChainTypes' /\ ToBrowserType' /\ StreamTypes' BY <1>1, <1>2, <2>2, <2>3, TryTypes
    <2> QED BY <2>1, <2>4, TypeSplit DEF TypeParts
  <1>9. CASE TrialSucceeds
    <2>1. /\ BrowserFlags' /\ BrowserLines' /\ BrowserTakes'
          /\ ToAgentType' /\ ToBrowserType' /\ FaultsType' /\ KeyTypes'
          /\ StreamTypes' /\ PipeTypes' /\ LocalTypes'
          /\ (admitted \in BOOLEAN)'
      BY <1>1, <1>9, TypesKept, Zenon DEF TrialSucceeds, browserVars, wireVars, keyVars, localVars
    <2>2. ChainTypes'
      <3>1. IsFrame(h) BY <1>1, <1>9 DEF TrialSucceeds, Running, h
      <3>2. /\ highest' = highest \/ highest' = h.n
            /\ bound' = bound \/ bound' = trying
            /\ pc' \in {"idle", "admit"} /\ at' = 0 /\ trying' = None
        BY <1>9, Zenon DEF TrialSucceeds, h
      <3>3. highest' \in Nat /\ bound' \in Keys \cup {None} BY <1>2, <1>3, <3>1, <3>2
      <3> QED BY <1>2, <1>3, <3>2, <3>3 DEF ChainTypes
    <2> QED BY <2>1, <2>2, TypeSplit DEF TypeParts
  <1>10. ASSUME NEW ok \in BOOLEAN, AdmitRefused(ok) PROVE TypeOK'
    <2>1. /\ BrowserFlags' /\ BrowserLines' /\ BrowserTakes'
          /\ ToAgentType' /\ FaultsType' /\ KeyTypes' /\ PipeTypes'
          /\ LocalTypes' /\ (admitted \in BOOLEAN)'
      BY <1>1, <1>10, TypesKept, Zenon DEF AdmitRefused, browserVars, wireVars, keyVars, localVars
    <2>2. ChainTypes'
      BY <1>2, <1>3, <1>10 DEF AdmitRefused, ChainTypes
    <2>3. ToBrowserType'
      BY <1>1, <1>10, DropTypes DEF AdmitRefused, ToBrowserType
    <2>4. StreamTypes'
      BY <1>1, <1>10, DropTypes DEF AdmitRefused, StreamTypes
    <2> QED BY <2>1, <2>2, <2>3, <2>4, TypeSplit DEF TypeParts
  <1>11. ASSUME NEW ok \in BOOLEAN, AdmitAllowed(ok) PROVE TypeOK'
    <2>1. /\ BrowserFlags' /\ BrowserLines' /\ BrowserTakes'
          /\ ToAgentType' /\ ToBrowserType' /\ FaultsType' /\ KeyTypes'
          /\ StreamTypes' /\ LocalTypes'
      BY <1>1, <1>11, TypesKept, Zenon DEF AdmitAllowed, browserVars, wireVars, keyVars, localVars
    <2>2. ChainTypes'
      <3>1. /\ bound' = bound /\ highest' = highest /\ at' = at /\ trying' = trying
            /\ pc' \in {"idle", "flush"}
        BY <1>11, Zenon DEF AdmitAllowed
      <3> QED BY <1>2, <1>3, <3>1 DEF ChainTypes
    <2>3. PipeTypes'
      <3>1. \/ relay' = relay /\ toLocal' = toLocal
            \/ relay' = Append(relay, h.line) /\ toLocal' = toLocal
            \/ relay' = relay /\ toLocal' = Append(toLocal, h.line)
        BY <1>11, Zenon DEF AdmitAllowed, WriteLocal, h
      <3>2. relay' \in Seq(Nat) /\ toLocal' \in Seq(Nat) BY <1>3, <1>4, <3>1
      <3>3. \/ held' = toBroker /\ toBroker' = <<>>
            \/ held' = held /\ toBroker' = toBroker
        BY <1>11, Zenon DEF AdmitAllowed
      <3>4. held' \in Seq(Nat) /\ toBroker' \in Seq(Nat)
        <4>1. <<>> \in Seq(Nat) OBVIOUS
        <4> QED BY <1>3, <3>3, <4>1, Zenon
      <3>5. replied' = replied BY <1>11, Zenon DEF AdmitAllowed
      <3> QED BY <1>3, <3>2, <3>4, <3>5 DEF PipeTypes
    <2>4. (admitted \in BOOLEAN)'
      BY <1>1, <1>11, Zenon DEF AdmitAllowed, TypeOK
    <2> QED BY <2>1, <2>2, <2>3, <2>4, TypeSplit DEF TypeParts
  <1>12. CASE FlushHeld
    <2>1. /\ BrowserFlags' /\ BrowserLines' /\ BrowserTakes'
          /\ ToAgentType' /\ FaultsType' /\ KeyTypes' /\ StreamTypes'
          /\ LocalTypes' /\ (admitted \in BOOLEAN)'
      BY <1>1, <1>12, TypesKept, Zenon DEF FlushHeld, browserVars, wireVars, keyVars, localVars
    <2>2. ChainTypes'
      <3>1. /\ bound' = bound /\ highest' = highest /\ at' = at /\ trying' = trying
            /\ pc' \in {"idle", "flush"}
        BY <1>12, Zenon DEF FlushHeld
      <3> QED BY <1>2, <1>3, <3>1 DEF ChainTypes
    <2>3. PipeTypes'
      <3>1. \/ held' = held /\ replied' = replied
            \/ held # <<>> /\ held' = Tail(held) /\ replied' = replied + 1
        BY <1>12, Zenon DEF FlushHeld
      <3>2. held' \in Seq(Nat) /\ replied' \in Nat BY <1>3, <1>4, <3>1
      <3>3. toLocal' = toLocal /\ toBroker' = toBroker /\ relay' = relay BY <1>12, Zenon DEF FlushHeld
      <3> QED BY <1>3, <3>2, <3>3 DEF PipeTypes
    <2>4. ToBrowserType'
      <3>1. \/ toBrowser' = toBrowser
            \/ held # <<>> /\ toBrowser' = Append(toBrowser, Frame(replied, Head(held)))
        BY <1>12, Zenon DEF FlushHeld
      <3> QED BY <1>3, <1>4, <3>1, Zenon DEF ToBrowserType
    <2> QED BY <2>1, <2>2, <2>3, <2>4, TypeSplit DEF TypeParts
  <1> QED BY <1>5, <1>6, <1>7, <1>8, <1>9, <1>10, <1>11, <1>12 DEF Task

\* Every step keeps the types.
LEMMA TypeStep ==
    ASSUME SealedStreamAssumption, StreamInv, [Next]_vars
    PROVE  TypeOK'
  <1>1. CASE UNCHANGED vars
    <2>1. TypeOK BY DEF StreamInv
    <2> QED BY <1>1, <2>1, TypesKept, TypeSplit, Zenon
        DEF TypeParts, vars, browserVars, wireVars, pipeVars
  <1>2. CASE Next
    BY <1>2, BrowserTypes, AgentTypes, TaskTypes DEF Next, PipeNext, GateAnswers, Task
  <1> QED BY <1>1, <1>2

-----------------------------------------------------------------------------
(***************************************************************************)
(* Who moves.  The agent's other steps leave the browser alone.            *)
(***************************************************************************)
\* The agent's steps outside the chain that leave the frames alone.
Quiet == \/ LocalOpens \/ TeardownStreams \/ LocalCloses
         \/ \E k \in Keys : AddSessionKeys(k)
         \/ \E d \in Range(Owner) : RemoveSessionKeys(d)

\* Such a step leaves the browser, the chain and what was said alone.
LEMMA QuietMoves ==
    ASSUME Quiet
    PROVE  UNCHANGED <<browserVars, toAgent, faults, chain, pc, at, trying, bound, highest,
                       replied, toBroker, held, admitted, said>>
  BY DEF Quiet, LocalOpens, TeardownStreams, LocalCloses, AddSessionKeys, RemoveSessionKeys,
         wireVars, pipeVars, localVars

\* Every step is one of these.
LEMMA NextMoves ==
    ASSUME Next
    PROVE  \/ Send \/ StartSeal \/ (\E f \in sealing : FinishSeal(f))
           \/ BrowserStreamOpen \/ BrowserFrame \/ BrowserStreamClose \/ BrowserLeaves
           \/ BrokerFault
           \/ AgentStreamOpen \/ AgentStreamFrame \/ AgentStreamClose \/ RelaySpeaks
           \/ Task \/ Quiet
  BY DEF Next, BrowserNext, PipeNext, GateAnswers, Task, Quiet

\* The browser's end closes on a bad frame, a notice, or by itself.
LEMMA DetachMoves ==
    ASSUME BrowserStreamClose \/ BrowserLeaves \/ (BrowserFrame /\ ~Accepts(seen, Head(toBrowser).n))
    PROVE  \E cause \in {"auth", "remote", "left"} :
             /\ Detach(cause)
             /\ UNCHANGED <<key, queued, outbound, sealing, sealed, seen, wrote, got, faults,
                            keyVars, pipeVars, localVars, stream, why>>
             /\ toBrowser' = toBrowser \/ (toBrowser # <<>> /\ toBrowser' = Tail(toBrowser))
             /\ cause = "auth" => BrowserFrame
  <1>1. CASE BrowserStreamClose BY <1>1 DEF BrowserStreamClose
  <1>2. CASE BrowserLeaves BY <1>2 DEF BrowserLeaves
  <1>3. CASE BrowserFrame /\ ~Accepts(seen, Head(toBrowser).n) BY <1>3 DEF BrowserFrame
  <1> QED BY <1>1, <1>2, <1>3

\* The browser takes a frame.
LEMMA TakeMoves ==
    ASSUME BrowserFrame, Accepts(seen, Head(toBrowser).n)
    PROVE  /\ toBrowser # <<>> /\ IsFrame(Head(toBrowser)) /\ toBrowser' = Tail(toBrowser)
           /\ seen' = Head(toBrowser).n + 1 /\ got' = Append(got, Head(toBrowser).line)
           /\ UNCHANGED <<key, streamId, detached, queued, outbound, sealing, sealed, wrote, bwhy,
                          toAgent, faults, keyVars, pipeVars, localVars, stream, why>>
  BY DEF BrowserFrame, IsFrame

-----------------------------------------------------------------------------
\* No step of either end breaks the numbering of what the browser wrote.
LEMMA WrittenStep ==
    ASSUME SealedStreamAssumption, StreamInv, [Next]_vars
    PROVE  Written'
  <1>1. TypeOK /\ Running /\ Written BY DEF StreamInv
  <1>2. /\ toAgent \in Seq(Messages) /\ chain \in Seq(Tasks) /\ outbound \in Seq(Nat)
        /\ queued \in Seq(Nat) /\ sealed \in Nat /\ wrote \in Nat /\ sealing \subseteq Frames
    BY <1>1, QueueTypes DEF TypeOK
  <1>3. CASE UNCHANGED <<toAgent, chain, sealing, sealed, outbound, detached, streamId, queued, wrote>>
    BY <1>1, <1>3 DEF Written
  <1>4. CASE Send
    <2>1. \/ /\ streamId /\ queued' = queued /\ outbound' = Append(outbound, wrote + 1)
          \/ /\ ~streamId /\ outbound' = outbound /\ queued' = Append(queued, wrote + 1)
      BY <1>4, Zenon DEF Send
    <2>2. /\ ~detached /\ wrote' = wrote + 1 
          /\ UNCHANGED <<toAgent, chain, sealing, sealed, detached, streamId>>
      BY <1>4, Zenon DEF Send, wireVars, pipeVars
    <2>3. /\ (streamId => queued = <<>>) /\ (~streamId => outbound = <<>>)
          /\ Follows(queued, sealed) /\ Follows(outbound, sealed)
          /\ wrote = sealed + Len(outbound) + Len(queued)
      BY <1>1, <2>2 DEF Written
    <2>4. Len(outbound) \in Nat /\ Len(queued) \in Nat /\ wrote + 1 \in Nat BY <1>2
    <2>5. CASE /\ streamId /\ queued' = queued /\ outbound' = Append(outbound, wrote + 1)
      <3>1. wrote + 1 = sealed + Len(outbound) + 1 BY <1>2, <2>3, <2>4, <2>5
      <3>2. Follows(outbound', sealed) /\ Len(outbound') = Len(outbound) + 1
        BY <1>2, <2>3, <2>4, <2>5, <3>1, LinesAppend, AppendIs
      <3>3. wrote' = sealed' + Len(outbound') + Len(queued')
        BY <1>2, <2>2, <2>3, <2>4, <2>5, <3>2
      <3> QED BY <1>1, <2>2, <2>3, <2>5, <3>2, <3>3, Zenon DEF Written
    <2>6. CASE /\ ~streamId /\ outbound' = outbound /\ queued' = Append(queued, wrote + 1)
      <3>1. wrote + 1 = sealed + Len(queued) + 1 BY <1>2, <2>3, <2>4, <2>6
      <3>2. Follows(queued', sealed) /\ Len(queued') = Len(queued) + 1
        BY <1>2, <2>3, <2>4, <2>6, <3>1, LinesAppend, AppendIs
      <3>3. wrote' = sealed' + Len(outbound') + Len(queued')
        BY <1>2, <2>2, <2>3, <2>4, <2>6, <3>2
      <3> QED BY <1>1, <2>2, <2>3, <2>6, <3>2, <3>3, Zenon DEF Written
    <2> QED BY <2>1, <2>5, <2>6
  <1>5. CASE StartSeal
    <2> DEFINE g == Frame(sealed, Head(outbound))
    <2>1. /\ outbound # <<>> /\ outbound' = Tail(outbound) /\ sealed' = sealed + 1
          /\ sealing' = sealing \cup {g}
          /\ UNCHANGED <<toAgent, chain, detached, streamId, queued, wrote>>
      BY <1>5 DEF StartSeal, wireVars, pipeVars
    <2>2. /\ Head(outbound) = sealed + 1 /\ Len(outbound') = Len(outbound) - 1
          /\ Len(outbound) \in Nat /\ Len(outbound) >= 1 /\ Follows(outbound', sealed + 1)
      BY <1>1, <1>2, <2>1, LinesTail DEF Written
    <2>3. g.line = g.n + 1 BY <1>2, <2>2, Kinds
    <2>4. ~detached => queued = <<>> /\ wrote = sealed + Len(outbound) + Len(queued)
      BY <1>1, <2>1 DEF Written
    <2>5. ~detached => /\ Follows(queued', sealed')
                       /\ wrote' = sealed' + Len(outbound') + Len(queued')
      <3> SUFFICES ASSUME ~detached
                   PROVE  /\ Follows(queued', sealed')
                          /\ wrote' = sealed' + Len(outbound') + Len(queued')
        OBVIOUS
      <3>1. queued' = <<>> /\ Len(queued') = 0 /\ Len(queued) = 0 BY <2>1, <2>4
      <3>2. Follows(queued', sealed') BY <1>2, <2>1, <3>1, EmptyQueue
      <3> QED BY <1>2, <2>1, <2>2, <2>4, <3>1, <3>2
    <2>6. /\ Follows(outbound', sealed') /\ \A f \in sealing' : f.line = f.n + 1
          /\ Numbered(toAgent') /\ Numbered(chain')
      BY <1>1, <2>1, <2>2, <2>3 DEF Written
    <2>7. ~detached' => (streamId' => queued' = <<>>) /\ (~streamId' => outbound' = <<>>)
      BY <1>1, <2>1, Zenon DEF Written
    <2> QED BY <2>1, <2>5, <2>6, <2>7 DEF Written
  <1>6. ASSUME NEW f \in sealing, FinishSeal(f) PROVE Written'
    <2>1. /\ sealing' = sealing \ {f} /\ (toAgent' = toAgent \/ toAgent' = Append(toAgent, f))
          /\ UNCHANGED <<chain, sealed, outbound, detached, streamId, queued, wrote>>
      BY <1>6, Zenon DEF FinishSeal, pipeVars
    <2>2. Numbered(toAgent')
      <3>1. f \in Messages /\ f.line = f.n + 1 /\ Numbered(toAgent)
        BY <1>1, <1>2, Kinds DEF Written
      <3>2. Numbered(Append(toAgent, f)) BY <1>2, <3>1, QueueAppend
      <3> QED BY <2>1, <3>1, <3>2
    <2> QED BY <1>1, <2>1, <2>2 DEF Written
  <1>7. CASE BrowserStreamOpen
    <2>1. /\ ~detached /\ streamId' = TRUE /\ outbound' = outbound \o queued /\ queued' = <<>>
          /\ UNCHANGED <<toAgent, chain, sealing, sealed, detached, wrote>>
      BY <1>7 DEF BrowserStreamOpen, Flushed, pipeVars
    <2>2. /\ queued = <<>> \/ outbound = <<>>
          /\ Follows(queued, sealed) /\ Follows(outbound, sealed)
          /\ wrote = sealed + Len(outbound) + Len(queued)
      BY <1>1, <2>1 DEF Written
    <2>3. Len(queued) \in Nat /\ Len(outbound) \in Nat /\ Len(queued') = 0 BY <1>2, <2>1
    <2>4. /\ queued = <<>> => outbound \o queued = outbound /\ Len(queued) = 0
          /\ outbound = <<>> => outbound \o queued = queued /\ Len(outbound) = 0
      BY <1>2, ConcatEmptySeq
    <2>5. Follows(outbound', sealed') /\ Len(outbound') = Len(outbound) + Len(queued)
      <3>1. CASE queued = <<>> BY <2>1, <2>2, <2>3, <2>4, <3>1
      <3>2. CASE outbound = <<>> BY <2>1, <2>2, <2>3, <2>4, <3>2
      <3> QED BY <2>2, <3>1, <3>2
    <2>6. Follows(queued', sealed') BY <1>2, <2>1, EmptyQueue
    <2>7. wrote' = sealed' + Len(outbound') + Len(queued')
      BY <1>2, <2>1, <2>2, <2>3, <2>5
    <2> QED BY <1>1, <2>1, <2>5, <2>6, <2>7, Zenon DEF Written
  <1>8. CASE BrowserStreamClose \/ BrowserLeaves \/ (BrowserFrame /\ ~Accepts(seen, Head(toBrowser).n))
    <2>1. /\ detached' /\ toAgent' = Append(toAgent, Close)
          /\ UNCHANGED <<chain, sealing, sealed, outbound, queued, wrote>>
      BY <1>8, DetachMoves, Zenon DEF Detach, pipeVars
    <2>2. Numbered(toAgent')
      BY <1>1, <1>2, <2>1, QueueAppend, Kinds DEF Written
    <2> QED BY <1>1, <2>1, <2>2 DEF Written
  <1>9. CASE BrowserFrame /\ Accepts(seen, Head(toBrowser).n)
    BY <1>3, <1>9, TakeMoves DEF pipeVars
  <1>10. CASE BrokerFault
    <2>1. /\ UNCHANGED <<chain, sealing, sealed, outbound, detached, streamId, queued, wrote>>
          /\ toAgent' = toAgent \/ (toAgent # <<>> /\ toAgent' \in Mishandled(toAgent))
      BY <1>10 DEF BrokerFault, browserVars, pipeVars
    <2>2. CASE toAgent # <<>> /\ toAgent' \in Mishandled(toAgent)
      <3>1. \A i \in DOMAIN toAgent' : \E j \in DOMAIN toAgent : toAgent'[i] = toAgent[j]
        BY <1>2, <2>2, MishandledIs
      <3>2. Numbered(toAgent') BY <1>1, <3>1 DEF Written, Numbered
      <3> QED BY <1>1, <2>1, <3>2 DEF Written
    <2> QED BY <1>3, <2>1, <2>2
  <1>11. CASE AgentStreamOpen \/ AgentStreamFrame \/ AgentStreamClose
    <2>1. /\ UNCHANGED <<sealing, sealed, outbound, detached, streamId, queued, wrote>>
          /\ toAgent # <<>> /\ toAgent' = Tail(toAgent)
          /\ chain' = chain \/ (chain' = Append(chain, Head(toAgent)) /\ IsFrame(Head(toAgent)))
      BY <1>11 DEF AgentStreamOpen, AgentStreamFrame, AgentStreamClose, browserVars, pipeVars, IsFrame
    <2>2. Numbered(toAgent) /\ Numbered(chain) BY <1>1 DEF Written
    <2>3. Numbered(toAgent') BY <1>2, <2>1, <2>2, QueueTail
    <2>4. Head(toAgent) \in Messages /\ (IsFrame(Head(toAgent)) => Head(toAgent).line = Head(toAgent).n + 1)
      <3>1. Head(toAgent) = toAgent[1] /\ 1 \in DOMAIN toAgent /\ Head(toAgent) \in Messages
        BY <1>2, <2>1, TailIs
      <3> QED BY <2>2, <3>1 DEF Numbered
    <2>5. Numbered(chain')
      <3>1. ASSUME IsFrame(Head(toAgent)) PROVE Numbered(Append(chain, Head(toAgent)))
        <4>1. Head(toAgent) \in Tasks BY <2>4, <3>1, Kinds
        <4> QED BY <1>2, <2>2, <2>4, <4>1, QueueAppend
      <3> QED BY <2>1, <2>2, <3>1
    <2> QED BY <1>1, <2>1, <2>3, <2>5 DEF Written
  <1>12. CASE RelaySpeaks
    <2>1. /\ UNCHANGED <<toAgent, sealing, sealed, outbound, detached, streamId, queued, wrote>>
          /\ chain' = Append(chain, Line(said + 1))
      BY <1>12 DEF RelaySpeaks, browserVars, wireVars
    <2>2. said + 1 \in Nat BY <1>1 DEF TypeOK
    <2>3. Numbered(chain') BY <1>1, <1>2, <2>1, <2>2, QueueAppend, Kinds DEF Written
    <2> QED BY <1>1, <2>1, <2>3 DEF Written
  <1>13. CASE Task
    <2>1. /\ chain # <<>> /\ (chain' = chain \/ chain' = Tail(chain))
          /\ UNCHANGED <<toAgent, sealing, sealed, outbound, detached, streamId, queued, wrote>>
      BY <1>1, <1>13, TaskMoves DEF browserVars
    <2>2. Numbered(chain') BY <1>1, <1>2, <2>1, QueueTail DEF Written
    <2> QED BY <1>1, <2>1, <2>2 DEF Written
  <1>14. CASE Quiet
    BY <1>3, <1>14, QuietMoves DEF browserVars
  <1>15. CASE UNCHANGED vars
    BY <1>3, <1>15 DEF vars, browserVars, wireVars, pipeVars
  <1> QED BY <1>4, <1>5, <1>6, <1>7, <1>8, <1>9, <1>10, <1>11, <1>12, <1>13, <1>14, <1>15, NextMoves

\* The chain runs one task at a time, whatever arrives meanwhile.
LEMMA RunningStep ==
    ASSUME SealedStreamAssumption, StreamInv, [Next]_vars
    PROVE  Running'
  <1>1. TypeOK /\ Running BY DEF StreamInv
  <1>2. toAgent \in Seq(Messages) /\ chain \in Seq(Tasks) BY <1>1, QueueTypes
  <1> DEFINE pipe == <<stream, chain, pc, bound, key, highest, trying, relay, toLocal, replied>>
  <1>3. CASE /\ UNCHANGED pipe
             /\ \/ UNCHANGED toAgent
                \/ toAgent # <<>> => toAgent' # <<>> /\ Head(toAgent') = Head(toAgent)
                \/ stream # "none"
    BY <1>1, <1>3 DEF Running
  <1>4. CASE Send \/ StartSeal \/ BrowserStreamOpen \/ UNCHANGED vars
    <2>1. UNCHANGED pipe /\ UNCHANGED toAgent
      BY <1>4 DEF Send, StartSeal, BrowserStreamOpen, wireVars, pipeVars, vars, browserVars
    <2> QED BY <1>3, <2>1
  <1>5. ASSUME NEW f \in sealing, FinishSeal(f) PROVE Running'
    <2>1. UNCHANGED pipe /\ (toAgent' = toAgent \/ toAgent' = Append(toAgent, f))
      BY <1>5, Zenon DEF FinishSeal, pipeVars
    <2>2. f \in Messages BY <1>1, Kinds DEF TypeOK
    <2> QED BY <1>2, <1>3, <2>1, <2>2, AppendIs
  <1>6. CASE BrowserStreamClose \/ BrowserLeaves \/ (BrowserFrame /\ ~Accepts(seen, Head(toBrowser).n))
    <2>1. UNCHANGED pipe /\ toAgent' = Append(toAgent, Close)
      BY <1>6, DetachMoves, Zenon DEF Detach, pipeVars
    <2> QED BY <1>2, <1>3, <2>1, AppendIs, Kinds
  <1>7. CASE BrowserFrame /\ Accepts(seen, Head(toBrowser).n)
    <2>1. UNCHANGED pipe /\ UNCHANGED toAgent BY <1>7, TakeMoves DEF pipeVars
    <2> QED BY <1>3, <2>1
  <1>8. CASE BrokerFault
    <2>1. /\ UNCHANGED pipe
          /\ toAgent' = toAgent \/ (toAgent # <<>> /\ \A i \in DOMAIN toAgent : toAgent[i].type = "frame")
      BY <1>8 DEF BrokerFault, browserVars, pipeVars
    <2>2. CASE toAgent # <<>> /\ \A i \in DOMAIN toAgent : toAgent[i].type = "frame"
      <3>1. Head(toAgent) = toAgent[1] /\ 1 \in DOMAIN toAgent BY <1>2, <2>2, TailIs
      <3>2. Head(toAgent) # Open BY <2>2, <3>1, Kinds DEF IsFrame
      <3> QED BY <1>1, <1>3, <2>1, <3>2 DEF Running
    <2> QED BY <1>3, <2>1, <2>2
  <1>9. CASE AgentStreamOpen \/ AgentStreamClose
    <2>1. /\ stream' # "none"
          /\ UNCHANGED <<chain, pc, bound, key, highest, trying, relay, toLocal, replied>>
      BY <1>9 DEF AgentStreamOpen, AgentStreamClose, DropStream, browserVars, pipeVars
    <2> QED BY <1>1, <2>1 DEF Running
  <1>10. CASE AgentStreamFrame \/ RelaySpeaks
    <2>1. /\ UNCHANGED <<stream, pc, bound, key, highest, trying, relay, toLocal, replied>>
          /\ stream # "none"
          /\ chain' = chain \/ \E m \in Tasks : chain' = Append(chain, m)
      <3>1. CASE AgentStreamFrame
        <4>1. Head(toAgent) \in Tasks /\ Head(toAgent) # Open
          BY <1>1, <3>1, QueueTypes, Kinds DEF AgentStreamFrame, IsFrame
        <4> QED BY <1>1, <3>1, <4>1 DEF AgentStreamFrame, browserVars, Running
      <3>2. CASE RelaySpeaks
        <4>1. Line(said + 1) \in Tasks BY <1>1, Kinds DEF TypeOK
        <4> QED BY <3>2, <4>1 DEF RelaySpeaks, browserVars
      <3> QED BY <1>10, <3>1, <3>2
    <2>2. chain # <<>> => chain' # <<>> /\ Head(chain') = Head(chain)
      BY <1>2, <2>1, AppendIs
    <2> QED BY <1>1, <2>1, <2>2 DEF Running
  <1>11. CASE Quiet
    <2>1. UNCHANGED <<toAgent, chain, pc, bound, key, highest, trying, replied>>
      BY <1>11, QuietMoves DEF browserVars
    <2>2. stream' = "none" => stream = "none" /\ UNCHANGED <<relay, toLocal>>
      BY <1>11 DEF Quiet, LocalOpens, TeardownStreams, LocalCloses, AddSessionKeys, RemoveSessionKeys,
                   DropStream, pipeVars
    <2>3. \/ UNCHANGED <<relay, toLocal>>
          \/ relay' = relay \o toLocal /\ toLocal' = <<>>
      BY <1>11 DEF Quiet, LocalOpens, TeardownStreams, LocalCloses, AddSessionKeys, RemoveSessionKeys,
                   pipeVars, LocalFlush
    <2>4. <<>> \o <<>> = <<>> OBVIOUS
    <2>5. bound = None => relay' = <<>> /\ toLocal' = <<>>
      BY <1>1, <2>3, <2>4 DEF Running
    <2> QED BY <1>1, <2>1, <2>2, <2>5 DEF Running
  <1>12. CASE Task
    <2>1. /\ chain # <<>> /\ stream # "none" /\ key' = key /\ Head(chain) \in Tasks
          /\ Head(chain).type = "line" <=> ~IsFrame(Head(chain))
      BY <1>1, <1>12, TaskMoves, HeadTask DEF Running, browserVars
    <2>2. stream' # "none"
      BY <1>12, <2>1 DEF Task, SealToBroker, OpenFromBroker, StartTrial, TrialFails, TrialSucceeds,
                  AdmitRefused, AdmitAllowed, FlushHeld, Try, DropStream
    <2>3. CASE SealToBroker
      BY <1>1, <2>1, <2>2, <2>3 DEF SealToBroker, Running
    <2>4. CASE OpenFromBroker
      <3>1. pc' = "idle" /\ bound' = bound /\ bound # None /\ trying' = trying /\ pc = "idle"
        BY <2>4 DEF OpenFromBroker
      <3> QED BY <1>1, <2>1, <2>2, <3>1 DEF Running
    <2>5. CASE StartTrial \/ TrialFails
      <3>1. /\ bound = None /\ UNCHANGED <<bound, relay, toLocal, replied>>
            /\ IsFrame(Head(chain))
        BY <1>1, <2>1, <2>5 DEF StartTrial, TrialFails, Running, IsFrame
      <3>2. PICK i \in 1 .. (MaxKeyring + 1) : Try(i)
        BY <1>1, <2>5 DEF StartTrial, TrialFails, TypeOK, SealedStreamAssumption
      <3>3. \/ pc' = "trial" /\ trying' \in Keys /\ chain' = chain
            \/ pc' = "idle" /\ trying' = None
        <4>1. CASE i <= Len(keyring)
          <5>1. keyring[i] \in Keys
            <6>1. keyring \in Seq(Keys) BY <1>1 DEF TypeOK
            <6>2. i \in 1 .. Len(keyring) BY <4>1, <6>1 DEF SealedStreamAssumption
            <6> QED BY <6>1, <6>2
          <5> QED BY <3>2, <4>1, <5>1 DEF Try
        <4>2. CASE ~(i <= Len(keyring)) BY <3>2, <4>2 DEF Try
        <4> QED BY <4>1, <4>2
      <3> QED BY <1>1, <2>1, <2>2, <3>1, <3>3 DEF Running, SealedStreamAssumption
    <2>6. CASE TrialSucceeds
      <3>1. /\ pc = "trial" /\ trying # None /\ trying = key /\ bound = None /\ IsFrame(Head(chain))
            /\ trying' = None /\ relay = <<>> /\ toLocal = <<>> /\ replied = 0
            /\ UNCHANGED <<relay, toLocal, replied>>
        BY <1>1, <2>6 DEF TrialSucceeds, Running, Binds
      <3>2. \/ pc' = "idle" /\ bound' = bound
            \/ pc' = "admit" /\ bound' = trying /\ highest' = Head(chain).n /\ chain' = chain
        BY <2>6 DEF TrialSucceeds
      <3>3. Head(chain).n = 0 BY <2>6 DEF TrialSucceeds, Binds, Accepts
      <3> QED BY <2>1, <2>2, <3>1, <3>2, <3>3 DEF Running
    <2>7. ASSUME NEW ok \in BOOLEAN, AdmitRefused(ok) \/ AdmitAllowed(ok) PROVE Running'
      <3>1. /\ pc = "admit" /\ UNCHANGED <<bound, highest, trying, replied>>
            /\ pc' = "idle" \/ (pc' = "flush" /\ chain' = chain)
        BY <2>7 DEF AdmitRefused, AdmitAllowed
      <3> QED BY <1>1, <2>1, <2>2, <3>1 DEF Running
    <2>8. CASE FlushHeld
      <3>1. /\ pc = "flush" /\ UNCHANGED <<bound, highest, trying>>
            /\ pc' = "idle" \/ (pc' = "flush" /\ chain' = chain)
        BY <2>8 DEF FlushHeld
      <3> QED BY <1>1, <2>1, <2>2, <3>1 DEF Running
    <2> QED BY <1>12, <2>3, <2>4, <2>5, <2>6, <2>7, <2>8 DEF Task
  <1> QED BY <1>4, <1>5, <1>6, <1>7, <1>8, <1>9, <1>10, <1>11, <1>12, NextMoves

\* A notice at the end of a queue changes no number.
LEMMA NoticeAdded ==
    ASSUME NEW q \in Seq(Messages), NEW r, r = q \/ r = Append(q, Close)
    PROVE  /\ Nums(r) = Nums(q) /\ (Numbered(q) => Numbered(r)) /\ (NumsRise(q) => NumsRise(r))
  <1>1. Close \in Messages /\ ~IsFrame(Close) BY Kinds
  <1>2. CASE r = Append(q, Close) BY <1>1, <1>2, QueueAppend
  <1> QED BY <1>2

\* So a tampered queue has no new counters.
LEMMA MishandledNums ==
    ASSUME NEW q \in Seq(Messages), q # <<>>, NEW r \in Mishandled(q)
    PROVE  Nums(r) \subseteq Nums(q) /\ (Numbered(q) => Numbered(r))
  <1>1. \A i \in DOMAIN r : \E j \in DOMAIN q : r[i] = q[j] BY MishandledIs
  <1>2. Nums(r) \subseteq Nums(q) BY <1>1 DEF Nums
  <1>3. Numbered(q) => Numbered(r) BY <1>1 DEF Numbered
  <1> QED BY <1>2, <1>3

\* What the other steps do to the messages for the browser: nothing, or a notice.
LEMMA DropMoves ==
    ASSUME NEW cause, NEW tell, DropStream(cause, tell)
    PROVE  stream' = "closed" /\ (toBrowser' = toBrowser \/ toBrowser' = Append(toBrowser, Close))
  BY DEF DropStream

\* Nothing passes the gate but behind an admission.
LEMMA GateStep ==
    ASSUME SealedStreamAssumption, StreamInv, [Next]_vars
    PROVE  Gate'
  <1>1. TypeOK /\ Running /\ Gate BY DEF StreamInv
  <1>2. /\ toBrowser \in Seq(Messages) /\ chain \in Seq(Tasks)
        /\ relay \in Seq(Nat) /\ toLocal \in Seq(Nat) /\ got \in Seq(Nat)
    BY <1>1, QueueTypes DEF TypeOK
  <1> DEFINE gate == <<bound, pc, admitted, relay, toLocal>>
  <1>3. CASE /\ UNCHANGED gate /\ (stream' = "open" => stream = "open")
             /\ got' # <<>> => got # <<>> \/ Nums(toBrowser) # {}
             /\ Nums(toBrowser') \subseteq Nums(toBrowser)
    BY <1>1, <1>3 DEF Gate
  <1>4. CASE \/ Send \/ StartSeal \/ (\E f \in sealing : FinishSeal(f)) \/ AgentStreamFrame
             \/ RelaySpeaks \/ UNCHANGED vars
    <2>1. UNCHANGED gate /\ UNCHANGED <<stream, got, toBrowser>>
      BY <1>4 DEF Send, StartSeal, FinishSeal, AgentStreamFrame, RelaySpeaks, wireVars, pipeVars, vars,
                  browserVars
    <2> QED BY <1>3, <2>1
  <1>5. CASE BrowserStreamOpen
    <2>1. UNCHANGED gate /\ UNCHANGED <<stream, got>> /\ toBrowser # <<>> /\ toBrowser' = Tail(toBrowser)
      BY <1>5 DEF BrowserStreamOpen, pipeVars
    <2> QED BY <1>2, <1>3, <2>1, QueueTail
  <1>6. CASE BrowserStreamClose \/ BrowserLeaves \/ (BrowserFrame /\ ~Accepts(seen, Head(toBrowser).n))
    <2>1. /\ UNCHANGED gate /\ UNCHANGED <<stream, got>>
          /\ toBrowser' = toBrowser \/ (toBrowser # <<>> /\ toBrowser' = Tail(toBrowser))
      BY <1>6, DetachMoves DEF pipeVars
    <2> QED BY <1>2, <1>3, <2>1, QueueTail
  <1>7. CASE BrowserFrame /\ Accepts(seen, Head(toBrowser).n)
    <2>1. /\ UNCHANGED gate /\ UNCHANGED stream /\ toBrowser # <<>> /\ toBrowser' = Tail(toBrowser)
          /\ IsFrame(Head(toBrowser))
      BY <1>7, TakeMoves DEF pipeVars
    <2>2. Nums(toBrowser) # {} /\ Nums(toBrowser') \subseteq Nums(toBrowser)
      BY <1>2, <2>1, QueueTail
    <2> QED BY <1>3, <2>1, <2>2
  <1>8. CASE BrokerFault
    <2>1. /\ UNCHANGED gate /\ UNCHANGED <<stream, got>>
          /\ toBrowser' = toBrowser \/ (toBrowser # <<>> /\ toBrowser' \in Mishandled(toBrowser))
      BY <1>8 DEF BrokerFault, browserVars, pipeVars
    <2> QED BY <1>2, <1>3, <2>1, MishandledNums
  <1>9. CASE AgentStreamOpen
    <2>1. UNCHANGED gate /\ UNCHANGED <<got, toBrowser>> /\ stream = "none"
      BY <1>9 DEF AgentStreamOpen, browserVars, pipeVars
    <2>2. bound = None /\ pc = "idle" BY <1>1, <2>1 DEF Running
    <2> QED BY <1>1, <2>1, <2>2 DEF Gate
  <1>10. CASE AgentStreamClose
    <2>1. UNCHANGED gate /\ UNCHANGED got /\ DropStream("remote", FALSE)
      BY <1>10 DEF AgentStreamClose, browserVars, pipeVars
    <2> QED BY <1>2, <1>3, <2>1, DropMoves, NoticeAdded
  <1>11. CASE Quiet
    <2>1. UNCHANGED <<bound, pc, admitted, got>>
      BY <1>11, QuietMoves DEF browserVars
    <2>2. \/ UNCHANGED <<relay, toLocal>>
          \/ relay' = relay \o toLocal /\ toLocal' = <<>>
      BY <1>11 DEF Quiet, LocalOpens, TeardownStreams, LocalCloses, AddSessionKeys, RemoveSessionKeys,
                   pipeVars, LocalFlush
    <2>3. /\ stream' = "open" => stream = "open"
          /\ toBrowser' = toBrowser \/ toBrowser' = Append(toBrowser, Close)
      BY <1>11 DEF Quiet, LocalOpens, TeardownStreams, LocalCloses, AddSessionKeys, RemoveSessionKeys,
                   DropStream, wireVars
    <2>4. Nums(toBrowser') = Nums(toBrowser) BY <1>2, <2>3, NoticeAdded
    <2>5. /\ relay' # <<>> \/ toLocal' # <<>> => relay # <<>> \/ toLocal # <<>>
          /\ relay = <<>> /\ toLocal = <<>> => relay' = <<>> /\ toLocal' = <<>>
      <3>1. <<>> \o <<>> = <<>> OBVIOUS
      <3> QED BY <2>2, <3>1
    <2> QED BY <1>1, <2>1, <2>3, <2>4, <2>5 DEF Gate
  <1>12. CASE Task
    <2>1. chain # <<>> /\ stream # "none" /\ got' = got /\ stream \in {"none", "open", "closed"}
      BY <1>1, <1>12, TaskMoves DEF Running, browserVars, TypeOK
    <2>3. CASE SealToBroker
      <3>1. UNCHANGED gate /\ UNCHANGED stream /\ pc = "idle" BY <2>3 DEF SealToBroker
      <3>2. \/ toBrowser' = toBrowser
            \/ bound # None /\ stream # "closed"
        BY <2>3 DEF SealToBroker
      <3>3. toBrowser' = toBrowser \/ admitted BY <1>1, <2>1, <3>1, <3>2 DEF Gate
      <3> QED BY <1>1, <2>1, <3>1, <3>3 DEF Gate
    <2>4. CASE OpenFromBroker
      <3>1. /\ UNCHANGED <<bound, pc, admitted>> /\ pc = "idle" /\ bound # None
            /\ stream' = stream \/ stream' = "closed"
            /\ toBrowser' = toBrowser \/ toBrowser' = Append(toBrowser, Close)
            /\ UNCHANGED <<relay, toLocal>> \/ stream # "closed"
        BY <2>4 DEF OpenFromBroker, DropStream
      <3>2. UNCHANGED <<relay, toLocal>> \/ admitted BY <1>1, <2>1, <3>1 DEF Gate
      <3>3. Nums(toBrowser') = Nums(toBrowser) BY <1>2, <3>1, NoticeAdded
      <3> QED BY <1>1, <2>1, <3>1, <3>2, <3>3 DEF Gate
    <2>5. CASE StartTrial \/ TrialFails
      <3>1. bound = None /\ UNCHANGED <<bound, relay, toLocal, admitted>>
        BY <1>1, <2>5 DEF StartTrial, TrialFails, Running
      <3>2. /\ pc' \in {"trial", "idle"}
            /\ toBrowser' = toBrowser \/ toBrowser' = Append(toBrowser, Close)
        BY <2>5 DEF StartTrial, TrialFails, Try, DropStream
      <3>3. Nums(toBrowser') = Nums(toBrowser) BY <1>2, <3>2, NoticeAdded
      <3> QED BY <1>1, <2>1, <3>1, <3>2, <3>3 DEF Gate
    <2>6. CASE TrialSucceeds
      <3>1. /\ bound = None /\ relay = <<>> /\ toLocal = <<>> /\ ~admitted
            /\ UNCHANGED <<relay, toLocal, admitted, toBrowser, stream>>
        BY <1>1, <2>6 DEF TrialSucceeds, Running, Gate, wireVars
      <3>2. (pc' = "idle" /\ bound' = bound) \/ pc' = "admit" BY <2>6 DEF TrialSucceeds
      <3> QED BY <1>1, <2>1, <3>1, <3>2 DEF Gate
    <2>7. ASSUME NEW ok \in BOOLEAN, AdmitRefused(ok) PROVE Gate'
      <3>1. /\ pc' = "idle" /\ UNCHANGED <<bound, admitted, relay, toLocal>>
            /\ DropStream("refused", TRUE)
        BY <2>7 DEF AdmitRefused
      <3>2. stream' = "closed" /\ Nums(toBrowser') = Nums(toBrowser)
        BY <1>2, <3>1, DropMoves, NoticeAdded
      <3> QED BY <1>1, <2>1, <3>1, <3>2 DEF Gate
    <2>8. ASSUME NEW ok \in BOOLEAN, AdmitAllowed(ok) PROVE Gate'
      <3>1. pc = "admit" /\ bound # None /\ bound' = bound /\ stream' = stream /\ toBrowser' = toBrowser
        BY <1>1, <2>8 DEF AdmitAllowed, Running, wireVars
      <3>2. \/ stream = "closed" /\ pc' = "idle" /\ UNCHANGED <<admitted, relay, toLocal>>
            \/ pc' = "flush" /\ admitted'
        BY <2>8, Zenon DEF AdmitAllowed, PassesGate
      <3> QED BY <1>1, <2>1, <3>1, <3>2 DEF Gate
    <2>9. CASE FlushHeld
      <3>1. /\ pc = "flush" /\ admitted /\ bound # None /\ UNCHANGED <<bound, relay, toLocal>>
            /\ pc' \in {"flush", "idle"} /\ admitted' = admitted
        BY <1>1, <2>9 DEF FlushHeld, Gate, Running
      <3> QED BY <1>1, <2>1, <3>1 DEF Gate
    <2> QED BY <1>12, <2>3, <2>4, <2>5, <2>6, <2>7, <2>8, <2>9 DEF Task
  <1> QED BY <1>4, <1>5, <1>6, <1>7, <1>8, <1>9, <1>10, <1>11, <1>12, NextMoves

\* The relay's lines leave in the order they were said.
LEMMA AnsweredStep ==
    ASSUME SealedStreamAssumption, StreamInv, [Next]_vars
    PROVE  Answered'
  <1>1. TypeOK /\ Running /\ Answered BY DEF StreamInv
  <1>2. /\ toBrowser \in Seq(Messages) /\ chain \in Seq(Tasks) /\ replied \in Nat /\ said \in Nat
        /\ held \in Seq(Nat) /\ toBroker \in Seq(Nat)
        /\ stream \in {"none", "open", "closed"}
    BY <1>1, QueueTypes DEF TypeOK
  <1>3. Len(held) \in Nat /\ Len(toBroker) \in Nat /\ Sent \in Nat /\ Numbered(toBrowser)
    BY <1>1, <1>2 DEF Sent, Answered
  <1> DEFINE rest == <<bound, pc, replied, held, toBroker, chain, said>>
  <1>4. CASE UNCHANGED rest /\ (stream' = stream \/ stream' = "closed") /\ Numbered(toBrowser')
    BY <1>1, <1>4 DEF Answered, Unsealed, Sent
  <1>5. CASE \/ Send \/ StartSeal \/ (\E f \in sealing : FinishSeal(f)) \/ UNCHANGED vars
    <2>1. UNCHANGED rest /\ UNCHANGED <<stream, toBrowser>>
      BY <1>5 DEF Send, StartSeal, FinishSeal, wireVars, pipeVars, localVars, vars
    <2> QED BY <1>3, <1>4, <2>1
  <1>6. CASE BrowserStreamOpen \/ BrowserFrame \/ BrowserStreamClose \/ BrowserLeaves
    <2>1. /\ UNCHANGED rest /\ UNCHANGED stream
          /\ toBrowser' = toBrowser \/ (toBrowser # <<>> /\ toBrowser' = Tail(toBrowser))
      BY <1>6 DEF BrowserStreamOpen, BrowserFrame, BrowserStreamClose, BrowserLeaves, pipeVars, localVars
    <2>2. Numbered(toBrowser') BY <1>2, <1>3, <2>1, QueueTail
    <2> QED BY <1>4, <2>1, <2>2
  <1>7. CASE BrokerFault
    <2>1. /\ UNCHANGED rest /\ UNCHANGED stream
          /\ toBrowser' = toBrowser \/ (toBrowser # <<>> /\ toBrowser' \in Mishandled(toBrowser))
      BY <1>7 DEF BrokerFault, pipeVars, localVars
    <2> QED BY <1>2, <1>3, <1>4, <2>1, MishandledNums
  <1>8. CASE AgentStreamOpen
    <2>1. /\ UNCHANGED rest /\ stream = "none" /\ stream' = "open" /\ toBrowser' = toBrowser
      BY <1>8 DEF AgentStreamOpen, pipeVars, localVars
    <2>2. /\ chain = <<>> /\ pc = "idle" /\ bound = None /\ replied = 0 /\ said = 0
          /\ held = <<>> /\ toBroker = <<>>
      BY <1>1, <2>1 DEF Running, Answered
    <2>3. Len(<<>>) = 0 OBVIOUS
    <2>4. Sent = 0 /\ (0 + 1) .. 0 = {} BY <2>2, <2>3 DEF Sent
    <2>5. Unsealed
      BY <2>2, <2>4, EmptyQueue DEF Unsealed
    <2>6. Unsealed' BY <2>1, <2>5 DEF Unsealed, Sent
    <2> QED BY <1>3, <2>1, <2>6 DEF Answered
  <1>9. CASE AgentStreamFrame
    <2>1. /\ UNCHANGED <<bound, pc, replied, held, toBroker, said, stream, toBrowser>>
          /\ chain' = chain \/ (stream = "open" /\ chain' = Append(chain, Head(toAgent)))
      BY <1>9 DEF AgentStreamFrame, localVars
    <2>2. Head(toAgent) \in Tasks /\ IsFrame(Head(toAgent))
      BY <1>1, <1>9, QueueTypes, Kinds DEF AgentStreamFrame, IsFrame
    <2>3. LineNums(chain') = LineNums(chain) /\ (LinesRise(chain) => LinesRise(chain'))
      <3> DEFINE f == Head(toAgent)
      <3> HIDE DEF f
      <3>1. f \in Tasks /\ IsFrame(f) BY <2>2 DEF f
      <3>2. LineNums(Append(chain, f)) = LineNums(chain) /\ (LinesRise(chain) => LinesRise(Append(chain, f)))
        BY <1>2, <3>1, QueueAppend
      <3> QED BY <2>1, <3>2 DEF f
    <2>4. Sent' = Sent BY <2>1 DEF Sent
    <2>5. stream = "open" => Unsealed'
      BY <1>1, <2>1, <2>3, <2>4 DEF Answered, Unsealed
    <2> QED BY <1>1, <2>1, <2>5 DEF Answered
  <1>10. CASE AgentStreamClose
    <2>1. UNCHANGED rest /\ DropStream("remote", FALSE)
      BY <1>10 DEF AgentStreamClose, pipeVars, localVars
    <2> QED BY <1>2, <1>3, <1>4, <2>1, DropMoves, NoticeAdded
  <1>11. CASE RelaySpeaks
    <2>1. /\ UNCHANGED <<bound, pc, replied, held, toBroker, stream, toBrowser>>
          /\ chain' = Append(chain, Line(said + 1)) /\ said' = said + 1 /\ stream = "open"
      BY <1>11 DEF RelaySpeaks, wireVars
    <2>2. /\ Line(said + 1) \in Tasks /\ ~IsFrame(Line(said + 1)) /\ Line(said + 1).line = said + 1
      BY <1>2, Kinds
    <2>3. LinesRise(chain) /\ LineNums(chain) = (Sent + 1) .. said /\ Sent <= said
      BY <1>1, <2>1 DEF Answered, Unsealed
    <2>4. \A k \in LineNums(chain) : k < said + 1 BY <1>2, <1>3, <2>3
    <2>5. LinesRise(chain') /\ LineNums(chain') = LineNums(chain) \cup {said + 1}
      <3> DEFINE x == Line(said + 1)
      <3> HIDE DEF x
      <3>1. x \in Tasks /\ ~IsFrame(x) /\ x.line = said + 1 BY <2>2 DEF x
      <3>2. LinesRise(Append(chain, x)) /\ LineNums(Append(chain, x)) = LineNums(chain) \cup {x.line}
        <4>1. LinesRise(chain) /\ \A k \in LineNums(chain) : k < x.line BY <2>3, <2>4, <3>1
        <4> QED BY <1>2, <3>1, <4>1, QueueAppend
      <3> QED BY <2>1, <3>1, <3>2 DEF x
    <2>6. /\ ((Sent + 1) .. said) \cup {said + 1} = (Sent + 1) .. (said + 1)
          /\ Sent <= said + 1
      BY <1>2, <1>3, <2>3
    <2>7. LineNums(chain') = (Sent + 1) .. said' BY <2>1, <2>3, <2>5, <2>6
    <2>8. Sent' = Sent BY <2>1 DEF Sent
    <2>9. Unsealed'
      BY <1>1, <2>1, <2>5, <2>6, <2>7, <2>8 DEF Answered, Unsealed
    <2> QED BY <1>3, <2>1, <2>9 DEF Answered
  <1>12. CASE Quiet
    <2>1. UNCHANGED rest BY <1>12, QuietMoves
    <2>2. /\ stream' = stream \/ stream' = "closed"
          /\ toBrowser' = toBrowser \/ toBrowser' = Append(toBrowser, Close)
      BY <1>12 DEF Quiet, LocalOpens, TeardownStreams, LocalCloses, AddSessionKeys, RemoveSessionKeys,
                   DropStream, wireVars
    <2> QED BY <1>2, <1>3, <1>4, <2>1, <2>2, NoticeAdded
  <1>13. CASE Task
    <2> DEFINE h == Head(chain)
    <2>1. chain # <<>> /\ stream # "none" /\ said' = said
      BY <1>1, <1>13, TaskMoves DEF Running, localVars
    <2>2. /\ h \in Tasks /\ h.line \in Nat /\ (h.type = "line" <=> ~IsFrame(h))
          /\ stream = "open" \/ stream = "closed"
      BY <1>1, <1>2, <2>1, HeadTask
    <2>3. IsFrame(h) => LineNums(Tail(chain)) = LineNums(chain)
      BY <1>2, <2>1, QueueTail
    <2>4. LinesRise(chain) => LinesRise(Tail(chain))
      BY <1>2, <2>1, QueueTail
    <2> HIDE DEF h
    <2>5. CASE SealToBroker
      <3>1. /\ pc = "idle" /\ ~IsFrame(h) /\ chain' = Tail(chain)
            /\ UNCHANGED <<bound, pc, held, said, stream>>
        BY <2>2, <2>5 DEF SealToBroker, localVars, h
      <3>2. \/ bound = None /\ toBroker' = Append(toBroker, h.line) /\ UNCHANGED <<replied, toBrowser>>
            \/ /\ bound # None /\ replied' = replied + 1 /\ UNCHANGED toBroker
               /\ stream = "closed" => toBrowser' = toBrowser
               /\ stream # "closed" => toBrowser' = Append(toBrowser, Frame(replied, h.line))
        BY <2>5 DEF SealToBroker, h
      <3>3. CASE stream = "closed"
        BY <1>3, <3>1, <3>2, <3>3 DEF Answered
      <3>4. CASE stream = "open"
        <4>1. /\ held = <<>> /\ (bound # None => toBroker = <<>>) /\ Follows(held, replied)
              /\ Follows(toBroker, replied) /\ LinesRise(chain)
              /\ LineNums(chain) = (Sent + 1) .. said
          BY <1>1, <3>1, <3>4 DEF Answered, Unsealed
        <4>2. h.line = Sent + 1 /\ Sent + 1 <= said /\ LineNums(chain') = (Sent + 1 + 1) .. said
          <5>1. Sent + 1 \in Nat /\ said \in Nat BY <1>2, <1>3
          <5> QED BY <1>2, <2>1, <3>1, <4>1, <5>1, FirstLine DEF h
        <4>3. Len(held) = 0 /\ (bound # None => Len(toBroker) = 0) BY <4>1
        <4>4. CASE bound = None
          <5>1. toBroker' = Append(toBroker, h.line) /\ UNCHANGED <<replied, toBrowser>>
            BY <3>2, <4>4
          <5>2. h.line = replied + Len(toBroker) + 1 BY <1>2, <1>3, <4>2, <4>3 DEF Sent
          <5>3. Follows(toBroker', replied) /\ Len(toBroker') = Len(toBroker) + 1
            BY <1>2, <2>2, <4>1, <5>1, <5>2, LinesAppend, AppendIs
          <5>4. Sent' = Sent + 1 BY <1>2, <1>3, <3>1, <5>1, <5>3 DEF Sent
          <5>5. Unsealed'
            BY <2>4, <3>1, <4>1, <4>2, <4>4, <5>1, <5>3, <5>4 DEF Unsealed
          <5> QED BY <1>3, <3>1, <3>4, <5>1, <5>5 DEF Answered
        <4>5. CASE bound # None
          <5>1. /\ replied' = replied + 1 /\ toBroker' = toBroker
                /\ toBrowser' = Append(toBrowser, Frame(replied, h.line))
            BY <3>2, <3>4, <4>5
          <5>2. h.line = replied + 1 BY <1>2, <1>3, <4>2, <4>3, <4>5 DEF Sent
          <5>3. Numbered(toBrowser')
            <6>1. Frame(replied, h.line) \in Messages
                  /\ Frame(replied, h.line).line = Frame(replied, h.line).n + 1
              BY <1>2, <2>2, <5>2, Kinds
            <6> QED BY <1>2, <1>3, <5>1, <6>1, QueueAppend
          <5>4. Sent' = Sent + 1 BY <1>2, <1>3, <3>1, <5>1 DEF Sent
          <5>5. Follows(held', replied') /\ Follows(toBroker', replied')
            BY <1>2, <3>1, <4>1, <4>5, <5>1, EmptyQueue
          <5>6. Unsealed'
            BY <2>4, <3>1, <4>1, <4>2, <4>5, <5>1, <5>4, <5>5 DEF Unsealed
          <5> QED BY <3>1, <3>4, <5>3, <5>6 DEF Answered
        <4> QED BY <4>4, <4>5
      <3> QED BY <2>2, <3>3, <3>4
    <2>6. CASE OpenFromBroker
      <3>1. /\ IsFrame(h) /\ chain' = Tail(chain)
            /\ UNCHANGED <<bound, pc, replied, held, toBroker, said>>
            /\ stream' = stream \/ stream' = "closed"
            /\ toBrowser' = toBrowser \/ toBrowser' = Append(toBrowser, Close)
        BY <2>6 DEF OpenFromBroker, localVars, h, IsFrame, DropStream
      <3>2. Numbered(toBrowser') BY <1>2, <1>3, <3>1, NoticeAdded
      <3>3. Sent' = Sent BY <3>1 DEF Sent
      <3>4. stream = "open" => Unsealed'
        BY <1>1, <2>3, <2>4, <3>1, <3>3 DEF Unsealed, Answered
      <3> QED BY <2>1, <3>1, <3>2, <3>4 DEF Answered
    <2>7. CASE StartTrial \/ TrialFails
      <3>1. /\ bound = None /\ UNCHANGED <<bound, replied, held, toBroker, said>>
        BY <1>1, <2>7 DEF StartTrial, TrialFails, Running, localVars
      <3>2. /\ toBrowser' = toBrowser \/ toBrowser' = Append(toBrowser, Close)
            /\ stream' = "closed" \/ (stream' = stream /\ pc' = "trial" /\ chain' = chain)
        BY <2>7 DEF StartTrial, TrialFails, Try, DropStream
      <3>3. Numbered(toBrowser') BY <1>2, <1>3, <3>2, NoticeAdded
      <3>4. Sent' = Sent BY <3>1 DEF Sent
      <3>5. stream' = "open" => Unsealed'
        BY <1>1, <3>1, <3>2, <3>4 DEF Unsealed, Answered
      <3> QED BY <2>1, <3>2, <3>3, <3>5 DEF Answered
    <2>8. CASE TrialSucceeds
      <3>1. /\ bound = None /\ UNCHANGED <<replied, held, toBroker, said, toBrowser, stream>>
            /\ stream = "closed" \/ (pc' = "admit" /\ chain' = chain)
        BY <1>1, <2>8 DEF TrialSucceeds, Running, localVars, wireVars
      <3>2. Sent' = Sent BY <3>1 DEF Sent
      <3>3. stream' = "open" => Unsealed'
        BY <1>1, <3>1, <3>2 DEF Unsealed, Answered
      <3> QED BY <1>3, <2>1, <3>1, <3>3 DEF Answered
    <2>9. ASSUME NEW ok \in BOOLEAN, AdmitRefused(ok) PROVE Answered'
      <3>1. DropStream("refused", TRUE) BY <2>9 DEF AdmitRefused
      <3>2. stream' = "closed" /\ Numbered(toBrowser')
        BY <1>2, <1>3, <3>1, DropMoves, NoticeAdded
      <3> QED BY <3>2 DEF Answered
    <2>10. ASSUME NEW ok \in BOOLEAN, AdmitAllowed(ok) PROVE Answered'
      <3>1. /\ pc = "admit" /\ bound # None /\ UNCHANGED <<bound, replied, said, toBrowser, stream>>
            /\ \/ stream = "closed"
               \/ held' = toBroker /\ toBroker' = <<>> /\ pc' = "flush" /\ chain' = chain
        BY <1>1, <2>10 DEF AdmitAllowed, Running, localVars, wireVars
      <3>2. CASE stream = "closed" BY <1>3, <3>1, <3>2 DEF Answered
      <3>3. CASE stream = "open"
        <4>1. held = <<>> /\ held' = toBroker /\ toBroker' = <<>> /\ pc' = "flush" /\ chain' = chain
          BY <1>1, <3>1, <3>3 DEF Answered, Unsealed
        <4>2. Len(held) = 0 /\ Len(toBroker') = 0 /\ Len(held') = Len(toBroker) BY <4>1
        <4>3. Sent' = Sent BY <1>2, <1>3, <3>1, <4>2 DEF Sent
        <4>4. Follows(toBroker', replied') BY <1>2, <3>1, <4>1, EmptyQueue
        <4>5. Unsealed'
          BY <1>1, <3>1, <3>3, <4>1, <4>3, <4>4 DEF Unsealed, Answered
        <4> QED BY <1>3, <3>1, <3>3, <4>5 DEF Answered
      <3> QED BY <2>2, <3>2, <3>3
    <2>11. CASE FlushHeld
      <3>1. /\ pc = "flush" /\ bound # None /\ IsFrame(h)
            /\ UNCHANGED <<bound, toBroker, said, stream>>
        BY <1>1, <2>11 DEF FlushHeld, Running, localVars, h
      <3>2. \/ /\ held = <<>> /\ pc' = "idle" /\ chain' = Tail(chain)
               /\ UNCHANGED <<held, replied, toBrowser>>
            \/ /\ held # <<>> /\ held' = Tail(held) /\ replied' = replied + 1
               /\ UNCHANGED <<pc, chain>>
               /\ stream = "closed" => toBrowser' = toBrowser
               /\ stream # "closed" => toBrowser' = Append(toBrowser, Frame(replied, Head(held)))
        BY <2>11 DEF FlushHeld
      <3>3. CASE stream = "closed" BY <1>3, <3>1, <3>2, <3>3 DEF Answered
      <3>4. CASE stream = "open" /\ held = <<>>
        <4>1. pc' = "idle" /\ chain' = Tail(chain) /\ UNCHANGED <<held, replied, toBrowser>>
          BY <3>2, <3>4
        <4>2. Sent' = Sent BY <3>1, <4>1 DEF Sent
        <4>3. Unsealed'
          BY <1>1, <2>3, <2>4, <3>1, <3>4, <4>1, <4>2 DEF Unsealed, Answered
        <4> QED BY <1>3, <3>1, <3>4, <4>1, <4>3 DEF Answered
      <3>5. CASE stream = "open" /\ held # <<>>
        <4>1. /\ held' = Tail(held) /\ replied' = replied + 1 /\ UNCHANGED <<pc, chain>>
              /\ toBrowser' = Append(toBrowser, Frame(replied, Head(held)))
          BY <3>2, <3>5
        <4>2. toBroker = <<>> /\ Follows(held, replied) BY <1>1, <3>1, <3>5 DEF Answered, Unsealed
        <4>3. /\ Head(held) = replied + 1 /\ Len(held') = Len(held) - 1
              /\ Follows(held', replied')
          BY <1>2, <3>5, <4>1, <4>2, LinesTail
        <4>4. Sent' = Sent
          <5>1. Sent' = replied' + Len(held') + Len(toBroker') /\ Len(toBroker') = Len(toBroker)
            BY <3>1 DEF Sent
          <5>2. replied' = replied + 1 BY <4>1
          <5>3. Len(held') = Len(held) - 1 BY <4>3
          <5> QED BY <1>2, <1>3, <5>1, <5>2, <5>3 DEF Sent
        <4>5. Follows(toBroker', replied') BY <1>2, <3>1, <4>1, <4>2, EmptyQueue
        <4>6. Numbered(toBrowser')
          <5>1. Frame(replied, Head(held)) \in Messages
                /\ Frame(replied, Head(held)).line = Frame(replied, Head(held)).n + 1
            BY <1>2, <4>3, Kinds
          <5> QED BY <1>2, <1>3, <4>1, <5>1, QueueAppend
        <4>7. Unsealed'
          BY <1>1, <3>1, <3>5, <4>1, <4>2, <4>3, <4>4, <4>5 DEF Unsealed, Answered
        <4> QED BY <3>1, <3>5, <4>6, <4>7 DEF Answered
      <3> QED BY <2>2, <3>3, <3>4, <3>5
    <2> QED BY <1>13, <2>5, <2>6, <2>7, <2>8, <2>9, <2>10, <2>11 DEF Task
  <1> QED BY <1>5, <1>6, <1>7, <1>8, <1>9, <1>10, <1>11, <1>12, <1>13, NextMoves

\* The head of a numbered queue.
LEMMA HeadNumbered ==
    ASSUME NEW S, NEW q \in Seq(S), q # <<>>, Numbered(q), IsFrame(Head(q))
    PROVE  Head(q).line = Head(q).n + 1
  <1>1. Head(q) = q[1] /\ 1 \in DOMAIN q BY TailIs
  <1> QED BY <1>1 DEF Numbered

\* One more line at an end that has received lines up to `top`.
LEMMA TakesLine ==
    ASSUME NEW q \in Seq(Nat), NEW top \in Nat, NEW new \in Nat, top < new,
           Rising(q), \A i \in DOMAIN q : q[i] <= top
    PROVE  /\ Rising(Append(q, new))
           /\ \A i \in DOMAIN Append(q, new) : Append(q, new)[i] <= new
           /\ \A i \in DOMAIN q : q[i] <= new
  <1>1. \A i \in DOMAIN q : q[i] \in Nat OBVIOUS
  <1>2. \A i \in DOMAIN q : q[i] < new /\ q[i] <= new BY <1>1
  <1> QED BY <1>2, LinesAppend

\* What either end accepts is later than all it accepted before.
LEMMA ReceivedStep ==
    ASSUME SealedStreamAssumption, StreamInv, [Next]_vars
    PROVE  Received'
  <1>1. TypeOK /\ Running /\ Gate /\ Written /\ Answered /\ Received BY DEF StreamInv
  <1>2. /\ relay \in Seq(Nat) /\ toLocal \in Seq(Nat) /\ got \in Seq(Nat)
        /\ highest \in Nat /\ seen \in Nat /\ chain \in Seq(Tasks) /\ toBrowser \in Seq(Messages)
        /\ highest + 1 \in Nat
    BY <1>1, QueueTypes DEF TypeOK
  <1>3. CASE UNCHANGED <<local, relay, toLocal, got, highest, seen>>
    BY <1>1, <1>3 DEF Received
  <1>4. CASE \/ Send \/ StartSeal \/ (\E f \in sealing : FinishSeal(f)) \/ BrowserStreamOpen
             \/ BrokerFault \/ AgentStreamOpen \/ AgentStreamFrame \/ AgentStreamClose \/ RelaySpeaks
             \/ UNCHANGED vars
    BY <1>3, <1>4 DEF Send, StartSeal, FinishSeal, BrowserStreamOpen, BrokerFault, AgentStreamOpen,
       AgentStreamFrame, AgentStreamClose, RelaySpeaks, vars, browserVars, pipeVars, localVars
  <1>5. CASE BrowserStreamClose \/ BrowserLeaves \/ (BrowserFrame /\ ~Accepts(seen, Head(toBrowser).n))
    BY <1>3, <1>5, DetachMoves DEF pipeVars, localVars
  <1>6. CASE BrowserFrame /\ Accepts(seen, Head(toBrowser).n)
    <2> DEFINE f == Head(toBrowser)
    <2>1. /\ toBrowser # <<>> /\ IsFrame(f) /\ seen' = f.n + 1 /\ got' = Append(got, f.line)
          /\ UNCHANGED <<local, relay, toLocal, highest>>
      BY <1>6, TakeMoves DEF pipeVars, localVars
    <2>2. f.n \in Nat /\ f.line \in Nat BY <1>1, <2>1, QueueTypes, Kinds
    <2>3. f.line = f.n + 1 BY <1>1, <1>2, <2>1, HeadNumbered DEF Answered
    <2>4. f.n >= seen BY <1>2, <1>6, <2>2 DEF Accepts
    <2> HIDE DEF f
    <2>5. seen < f.line /\ f.line = seen' BY <1>2, <2>1, <2>2, <2>3, <2>4
    <2>6. Rising(got) /\ \A i \in DOMAIN got : got[i] <= seen BY <1>1 DEF Received
    <2>7. Rising(Append(got, f.line)) /\ \A i \in DOMAIN Append(got, f.line) : Append(got, f.line)[i] <= f.line
      BY <1>2, <2>2, <2>5, <2>6, TakesLine
    <2>8. Rising(got') /\ \A i \in DOMAIN got' : got'[i] <= seen' BY <2>1, <2>5, <2>7
    <2> QED BY <1>1, <2>1, <2>8 DEF Received
  <1>7. CASE Quiet
    <2>1. CASE LocalOpens
      <3>1. /\ ~local /\ local' = TRUE /\ relay' = relay \o toLocal /\ toLocal' = <<>>
            /\ UNCHANGED <<got, highest, seen>>
        BY <2>1 DEF LocalOpens, LocalFlush, browserVars
      <3>2. relay = <<>> BY <1>1, <3>1 DEF Received
      <3>3. relay' = toLocal BY <1>2, <3>1, <3>2, ConcatEmptySeq
      <3>4. Rising(toLocal') /\ \A i \in DOMAIN toLocal' : FALSE BY <3>1, EmptyQueue
      <3> QED BY <1>1, <3>1, <3>3, <3>4, Zenon DEF Received
    <2>2. CASE ~LocalOpens
      BY <1>3, <1>7, <2>2 DEF Quiet, TeardownStreams, LocalCloses, AddSessionKeys, RemoveSessionKeys,
         browserVars, pipeVars, localVars
    <2> QED BY <2>1, <2>2
  <1>8. CASE Task
    <2> DEFINE h == Head(chain)
    <2>1. chain # <<>> /\ UNCHANGED <<local, got, seen>> /\ stream # "none"
      BY <1>1, <1>8, TaskMoves DEF browserVars, localVars, Running
    <2>2. /\ h.line \in Nat /\ (IsFrame(h) => h.n \in Nat)
          /\ IsFrame(h) => h.line = h.n + 1
      BY <1>1, <1>2, <2>1, HeadTask, HeadNumbered DEF Written
    <2>3. /\ Rising(relay) /\ Rising(toLocal) /\ (local => toLocal = <<>>) /\ (~local => relay = <<>>)
          /\ \A i \in DOMAIN relay : relay[i] <= highest + 1
          /\ \A i \in DOMAIN toLocal : toLocal[i] <= highest + 1
      BY <1>1 DEF Received
    <2> HIDE DEF h
    <2>4. CASE SealToBroker \/ StartTrial \/ TrialFails \/ FlushHeld
      BY <1>3, <2>1, <2>4 DEF SealToBroker, StartTrial, TrialFails, FlushHeld
    <2>5. ASSUME NEW ok \in BOOLEAN, AdmitRefused(ok) PROVE Received'
      BY <1>3, <2>1, <2>5 DEF AdmitRefused
    <2>6. CASE OpenFromBroker
      <3>1. CASE UNCHANGED <<relay, toLocal, highest>> BY <1>3, <2>1, <3>1
      <3>2. CASE ~UNCHANGED <<relay, toLocal, highest>>
        <4>1. /\ IsFrame(h) /\ Accepts(highest + 1, h.n) /\ highest' = h.n
              /\ \/ UNCHANGED <<relay, toLocal>>
                 \/ local /\ relay' = Append(relay, h.line) /\ toLocal' = toLocal
                 \/ ~local /\ toLocal' = Append(toLocal, h.line) /\ relay' = relay
          BY <2>6, <3>2, Zenon DEF OpenFromBroker, WriteLocal, h, IsFrame
        <4>2. h.n >= highest + 1 BY <1>2, <2>2, <4>1 DEF Accepts
        <4>3. highest + 1 < h.line /\ h.line = highest' + 1 BY <1>2, <2>2, <4>1, <4>2
        <4>4. /\ Rising(Append(relay, h.line)) /\ Rising(Append(toLocal, h.line))
              /\ \A i \in DOMAIN Append(relay, h.line) : Append(relay, h.line)[i] <= h.line
              /\ \A i \in DOMAIN Append(toLocal, h.line) : Append(toLocal, h.line)[i] <= h.line
              /\ \A i \in DOMAIN relay : relay[i] <= h.line
              /\ \A i \in DOMAIN toLocal : toLocal[i] <= h.line
          BY <1>2, <2>2, <2>3, <4>3, TakesLine
        <4>5. /\ Rising(relay') /\ Rising(toLocal')
              /\ \A i \in DOMAIN relay' : relay'[i] <= h.line
              /\ \A i \in DOMAIN toLocal' : toLocal'[i] <= h.line
          BY <2>3, <4>1, <4>4, Zenon
        <4>6. (local' => toLocal' = <<>>) /\ (~local' => relay' = <<>>)
          BY <2>1, <2>3, <4>1, Zenon
        <4> QED BY <1>1, <2>1, <4>3, <4>5, <4>6 DEF Received
      <3> QED BY <3>1, <3>2
    <2>7. CASE TrialSucceeds
      <3>1. relay = <<>> /\ toLocal = <<>> /\ UNCHANGED <<relay, toLocal>>
        BY <1>1, <2>7 DEF TrialSucceeds, Running
      <3>2. \A i \in DOMAIN <<>> : FALSE OBVIOUS
      <3> QED BY <1>1, <2>1, <3>1, <3>2 DEF Received
    <2>8. ASSUME NEW ok \in BOOLEAN, AdmitAllowed(ok) PROVE Received'
      <3>1. CASE UNCHANGED <<relay, toLocal>>
        BY <1>3, <2>1, <2>8, <3>1 DEF AdmitAllowed
      <3>2. CASE ~UNCHANGED <<relay, toLocal>>
        <4>1. /\ highest' = highest /\ pc = "admit"
              /\ \/ local /\ relay' = Append(relay, h.line) /\ toLocal' = toLocal
                 \/ ~local /\ toLocal' = Append(toLocal, h.line) /\ relay' = relay
          BY <2>8, <3>2, Zenon DEF AdmitAllowed, WriteLocal, h
        <4>2. relay = <<>> /\ toLocal = <<>> /\ IsFrame(h) /\ h.n = highest
          BY <1>1, <4>1 DEF Gate, Running, h
        <4>3. 0 < h.line /\ h.line = highest' + 1 BY <1>2, <2>2, <4>1, <4>2
        <4>4. \A i \in DOMAIN <<>> : FALSE OBVIOUS
        <4>5. /\ Rising(Append(<<>>, h.line))
              /\ \A i \in DOMAIN Append(<<>>, h.line) : Append(<<>>, h.line)[i] <= h.line
          <5>1. <<>> \in Seq(Nat) /\ Rising(<<>>) /\ \A i \in DOMAIN <<>> : <<>>[i] <= 0
            BY <4>4, EmptyQueue
          <5> QED BY <2>2, <4>3, <5>1, TakesLine
        <4>6. /\ Rising(relay') /\ Rising(toLocal')
              /\ \A i \in DOMAIN relay' : relay'[i] <= h.line
              /\ \A i \in DOMAIN toLocal' : toLocal'[i] <= h.line
          BY <2>3, <4>1, <4>2, <4>4, <4>5, Zenon
        <4>7. (local' => toLocal' = <<>>) /\ (~local' => relay' = <<>>)
          BY <2>1, <2>3, <4>1, Zenon
        <4> QED BY <1>1, <2>1, <4>3, <4>6, <4>7 DEF Received
      <3> QED BY <3>1, <3>2
    <2> QED BY <1>8, <2>4, <2>5, <2>6, <2>7, <2>8 DEF Task
  <1> QED BY <1>4, <1>5, <1>6, <1>7, <1>8, NextMoves

\* A forgotten pairing comes back neither to the keyring nor to a stream.
LEMMA KeyringStep ==
    ASSUME SealedStreamAssumption, StreamInv, [Next]_vars
    PROVE  Keyring'
  <1>1. TypeOK /\ Running /\ Keyring BY DEF StreamInv
  <1>2. /\ keyring \in Seq(Keys) /\ forgotten \subseteq Keys /\ trying \in Keys \cup {None}
        /\ \A i \in DOMAIN keyring : keyring[i] \in Keys
        /\ None \notin Keys
    BY <1>1 DEF TypeOK, SealedStreamAssumption
  <1>3. /\ \A i \in DOMAIN keyring : keyring[i] \notin forgotten
        /\ trying \in forgotten => trying \in racing
        /\ bound \in forgotten /\ stream = "open" => bound \in racing
    BY <1>1 DEF Keyring, ForgottenStaysOut
  <1>4. CASE UNCHANGED keyVars /\ UNCHANGED <<trying, bound>> /\ (stream' = "open" => stream = "open")
    BY <1>1, <1>4 DEF Keyring, ForgottenStaysOut, keyVars
  <1>5. CASE \/ Send \/ StartSeal \/ (\E f \in sealing : FinishSeal(f)) \/ BrowserStreamOpen
             \/ BrowserFrame \/ BrowserStreamClose \/ BrowserLeaves
             \/ BrokerFault \/ AgentStreamFrame \/ RelaySpeaks \/ UNCHANGED vars
    <2>1. UNCHANGED keyVars /\ UNCHANGED <<trying, bound, stream>>
      BY <1>5 DEF Send, StartSeal, FinishSeal, BrowserStreamOpen, BrowserFrame, BrowserStreamClose,
         BrowserLeaves, BrokerFault, AgentStreamFrame, RelaySpeaks, vars, pipeVars
    <2> QED BY <1>4, <2>1
  <1>6. CASE AgentStreamOpen
    <2>1. UNCHANGED keyVars /\ UNCHANGED <<trying, bound>> /\ stream = "none"
      BY <1>6 DEF AgentStreamOpen, pipeVars
    <2>2. bound \notin forgotten BY <1>1, <1>2, <2>1 DEF Running
    <2> QED BY <1>1, <2>1, <2>2 DEF Keyring, ForgottenStaysOut, keyVars
  <1>7. CASE AgentStreamClose
    BY <1>4, <1>7 DEF AgentStreamClose, DropStream, pipeVars
  <1>8. CASE LocalOpens \/ TeardownStreams \/ LocalCloses
    BY <1>4, <1>8 DEF LocalOpens, TeardownStreams, LocalCloses, DropStream, pipeVars
  <1>9. ASSUME NEW k \in Keys, AddSessionKeys(k) PROVE Keyring'
    <2> DEFINE s == Append(keyring, k)
    <2>1. /\ k \notin forgotten /\ keyring' = Trimmed(s)
          /\ UNCHANGED <<forgotten, racing, trying, bound, stream>>
      BY <1>9 DEF AddSessionKeys, pipeVars
    <2>2. /\ s \in Seq(Keys) /\ s # <<>> /\ \A i \in DOMAIN s : s[i] \notin forgotten
      <3>1. /\ s \in Seq(Keys) /\ s # <<>> /\ DOMAIN s = 1 .. (Len(keyring) + 1) /\ Len(keyring) \in Nat
            /\ DOMAIN keyring = 1 .. Len(keyring)
            /\ (\A i \in 1 .. Len(keyring) : s[i] = keyring[i]) /\ s[Len(keyring) + 1] = k
        BY <1>2, AppendIs
      <3> HIDE DEF s
      <3>2. \A i \in DOMAIN s : i \in DOMAIN keyring \/ i = Len(keyring) + 1 BY <3>1
      <3> QED BY <1>3, <2>1, <3>1, <3>2
    <2> HIDE DEF s
    <2>3. \A i \in DOMAIN Tail(s) : Tail(s)[i] \notin forgotten
      <3>1. \A i \in DOMAIN Tail(s) : i + 1 \in DOMAIN s /\ Tail(s)[i] = s[i + 1] BY <2>2, TailIs
      <3> QED BY <2>2, <3>1
    <2>4. \A i \in DOMAIN keyring' : keyring'[i] \notin forgotten
      BY <2>1, <2>2, <2>3 DEF Trimmed
    <2> QED BY <1>3, <2>1, <2>4 DEF Keyring, ForgottenStaysOut
  <1>10. ASSUME NEW d \in Range(Owner), RemoveSessionKeys(d) PROVE Keyring'
    <2> DEFINE gone == {k \in Range(keyring) : Owner[k] = d}
    <2>1. /\ keyring' = Without(d) /\ forgotten' = forgotten \cup gone
          /\ racing' = racing \cup (gone \cap {trying})
          /\ UNCHANGED <<trying, bound>>
          /\ \/ bound # None /\ Owner[bound] = d /\ stream' = "closed"
             \/ ~(bound # None /\ Owner[bound] = d) /\ stream' = stream
      BY <1>10 DEF RemoveSessionKeys, DropStream, pipeVars
    <2>2. \A k \in gone : k \in Keys /\ k # None /\ Owner[k] = d BY <1>2 DEF Range
    <2>3. \A j \in DOMAIN Without(d) : \E i \in DOMAIN keyring :
             Without(d)[j] = keyring[i] /\ Owner[keyring[i]] # d
      BY <1>2, WithoutIs
    <2> HIDE DEF gone
    <2>4. \A j \in DOMAIN Without(d) : Without(d)[j] \notin forgotten \cup gone
      BY <1>3, <2>2, <2>3
    <2>5. trying' \in forgotten' => trying' \in racing' BY <1>3, <2>1
    <2>6. bound' \in forgotten' /\ stream' = "open" => bound' \in racing' BY <1>3, <2>1, <2>2
    <2>7. \A j \in DOMAIN keyring' : keyring'[j] \notin forgotten' BY <2>1, <2>4
    <2> QED BY <2>5, <2>6, <2>7 DEF Keyring, ForgottenStaysOut
  <1>11. CASE Task
    <2>1. UNCHANGED keyVars BY <1>1, <1>11, TaskMoves
    <2>2. CASE SealToBroker \/ OpenFromBroker \/ FlushHeld
      BY <1>4, <2>1, <2>2 DEF SealToBroker, OpenFromBroker, FlushHeld, DropStream
    <2>3. ASSUME NEW ok \in BOOLEAN, AdmitRefused(ok) \/ AdmitAllowed(ok) PROVE Keyring'
      BY <1>4, <2>1, <2>3 DEF AdmitRefused, AdmitAllowed, DropStream
    <2>4. CASE StartTrial \/ TrialFails
      <3>1. bound' = bound /\ (stream' = "open" => stream = "open")
        BY <2>4 DEF StartTrial, TrialFails, Try, DropStream
      <3>2. PICK i \in 1 .. (MaxKeyring + 1) : Try(i)
        BY <1>1, <2>4 DEF StartTrial, TrialFails, TypeOK, SealedStreamAssumption
      <3>3. trying' \notin forgotten
        <4>1. CASE i <= Len(keyring)
          <5>1. i \in DOMAIN keyring BY <1>2, <4>1 DEF SealedStreamAssumption
          <5> QED BY <1>3, <3>2, <4>1, <5>1 DEF Try
        <4>2. CASE ~(i <= Len(keyring)) BY <1>2, <3>2, <4>2 DEF Try
        <4> QED BY <4>1, <4>2
      <3> QED BY <1>3, <2>1, <3>1, <3>3 DEF Keyring, ForgottenStaysOut, keyVars
    <2>5. CASE TrialSucceeds
      <3>1. trying' = None /\ (bound' = bound \/ bound' = trying) /\ stream' = stream
        BY <2>5 DEF TrialSucceeds
      <3> QED BY <1>2, <1>3, <2>1, <3>1 DEF Keyring, ForgottenStaysOut, keyVars
    <2> QED BY <1>11, <2>2, <2>3, <2>4, <2>5 DEF Task
  <1> QED BY <1>5, <1>6, <1>7, <1>8, <1>9, <1>10, <1>11, NextMoves DEF Quiet

-----------------------------------------------------------------------------
(***************************************************************************)
(* The faithful broker.                                                    *)
(***************************************************************************)
\* No fault yet: none before, and this step is none.
LEMMA StillFaithful ==
    ASSUME TypeOK, [Next]_vars, faults' = 0
    PROVE  faults = 0 /\ ~BrokerFault
  <1>1. faults \in Nat BY DEF TypeOK
  <1>2. ~BrokerFault BY <1>1 DEF BrokerFault
  <1>3. faults' = faults
    BY <1>2 DEF Next, BrowserNext, PipeNext, GateAnswers, Send, StartSeal, FinishSeal, BrowserStreamOpen, BrowserFrame,
       BrowserStreamClose, BrowserLeaves, AgentStreamOpen, AgentStreamFrame, AgentStreamClose, LocalOpens,
       SealToBroker, OpenFromBroker, StartTrial, TrialFails, TrialSucceeds, AdmitRefused, AdmitAllowed,
       FlushHeld, RelaySpeaks, TeardownStreams, LocalCloses, AddSessionKeys, RemoveSessionKeys,
       vars, wireVars
  <1> QED BY <1>2, <1>3

\* The next frame a task sees has the counter the agent expects.
LEMMA NextFrame ==
    ASSUME StreamInv, faults = 0, stream # "closed", chain # <<>>, IsFrame(Head(chain))
    PROVE  /\ Head(chain).n = Expected
           /\ \E mid, end \in Nat : /\ Forward(mid, end) /\ Expected + 1 <= mid
                                    /\ Nums(Tail(chain)) = (Expected + 1) .. (mid - 1)
  <1>1. TypeOK /\ chain \in Seq(Tasks) /\ highest \in Nat BY QueueTypes DEF StreamInv, TypeOK
  <1>2. Expected \in Nat BY <1>1 DEF Expected
  <1>3. PICK mid \in Nat, end \in Nat : Forward(mid, end) BY DEF StreamInv, Faithful
  <1>4. NumsRise(chain) /\ Nums(chain) = Expected .. (mid - 1) BY <1>3 DEF Forward
  <1>5. /\ Head(chain).n = Expected /\ Expected < mid
        /\ Nums(Tail(chain)) = (Expected + 1) .. (mid - 1)
    BY <1>1, <1>2, <1>4, FirstFrame
  <1> QED BY <1>2, <1>3, <1>5

\* The same at the browser.
LEMMA NextAnswer ==
    ASSUME StreamInv, faults = 0, ~detached, toBrowser # <<>>, IsFrame(Head(toBrowser))
    PROVE  /\ Head(toBrowser).n = seen /\ Accepts(seen, Head(toBrowser).n)
           /\ \E end \in Nat : /\ Backward(end) /\ seen + 1 <= end
                               /\ Nums(Tail(toBrowser)) = (seen + 1) .. (end - 1)
  <1>1. TypeOK /\ toBrowser \in Seq(Messages) /\ seen \in Nat BY QueueTypes DEF StreamInv, TypeOK
  <1>2. PICK end \in Nat : Backward(end) BY DEF StreamInv, Faithful
  <1>3. NumsRise(toBrowser) /\ Nums(toBrowser) = seen .. (end - 1) BY <1>2 DEF Backward
  <1>4. /\ Head(toBrowser).n = seen /\ seen < end
        /\ Nums(Tail(toBrowser)) = (seen + 1) .. (end - 1)
    BY <1>1, <1>3, FirstFrame
  <1>5. Accepts(seen, seen) BY <1>1 DEF Accepts
  <1> QED BY <1>1, <1>2, <1>4, <1>5

\* What a step does to the frames on their way to the agent.
LEMMA ForwardKept ==
    ASSUME NEW mid \in Nat, NEW end \in Nat, Forward(mid, end), Expected' = Expected,
           Nums(chain') = Nums(chain), NumsRise(chain'),
           Nums(toAgent') = Nums(toAgent), NumsRise(toAgent'),
           detached' \/ UNCHANGED <<detached, sealing, sealed>>
    PROVE  Forward(mid, end)'
  <1>1. /\ Expected <= mid /\ mid <= end /\ Nums(chain) = Expected .. (mid - 1)
        /\ Nums(toAgent) = mid .. (end - 1)
    BY DEF Forward
  <1>2. /\ (Expected <= mid)' /\ mid <= end /\ Nums(chain') = (Expected .. (mid - 1))'
        /\ Nums(toAgent') = mid .. (end - 1)
    BY <1>1
  <1>3. ~detached' => \/ sealing' = {} /\ sealed' = end
                      \/ \E f \in sealing' : sealing' = {f} /\ f.n = end /\ sealed' = end + 1
    BY DEF Forward
  <1> QED BY <1>2, <1>3 DEF Forward

\* No step leaves a gap between the browser's counter and the agent's.
LEMMA ForwardStep ==
    ASSUME SealedStreamAssumption, StreamInv, [Next]_vars, faults = 0, ~BrokerFault,
           stream' # "closed"
    PROVE  \E mid, end \in Nat : Forward(mid, end)'
  <1>1. TypeOK /\ Running BY DEF StreamInv
  <1>2. /\ toAgent \in Seq(Messages) /\ chain \in Seq(Tasks) /\ highest \in Nat /\ sealed \in Nat
        /\ Expected \in Nat /\ sealing \subseteq Frames
    <2>1. highest \in Nat BY <1>1 DEF TypeOK
    <2> QED BY <1>1, <2>1, QueueTypes DEF TypeOK, Expected
  <1>3. stream # "closed"
    BY DEF Next, BrowserNext, PipeNext, GateAnswers, Send, StartSeal, FinishSeal, BrowserStreamOpen, BrowserFrame,
       BrowserStreamClose, BrowserLeaves, BrokerFault, AgentStreamOpen, AgentStreamFrame, AgentStreamClose,
       LocalOpens, SealToBroker, OpenFromBroker, StartTrial, TrialFails, TrialSucceeds, AdmitRefused,
       AdmitAllowed, FlushHeld, RelaySpeaks, TeardownStreams, LocalCloses, AddSessionKeys,
       RemoveSessionKeys, Try, DropStream, vars
  <1>4. PICK mid \in Nat, end \in Nat : Forward(mid, end) BY <1>3 DEF StreamInv, Faithful
  <1>5. /\ Expected <= mid /\ mid <= end
        /\ NumsRise(chain) /\ Nums(chain) = Expected .. (mid - 1)
        /\ NumsRise(toAgent) /\ Nums(toAgent) = mid .. (end - 1)
        /\ ~detached => \/ sealing = {} /\ sealed = end
                        \/ \E f \in sealing : sealing = {f} /\ f.n = end /\ sealed = end + 1
    BY <1>4 DEF Forward
  <1> DEFINE pipe == <<chain, bound, pc, highest>>
             ends == <<detached, sealing, sealed>>
  <1>6. UNCHANGED <<bound, pc, highest>> => Expected' = Expected BY DEF Expected
  <1>7. CASE UNCHANGED pipe /\ UNCHANGED ends /\ UNCHANGED toAgent
    <2>1. Expected' = Expected BY <1>6, <1>7
    <2> QED BY <1>4, <1>5, <1>7, <2>1, ForwardKept
  <1>8. CASE Send \/ BrowserStreamOpen \/ UNCHANGED vars
    BY <1>7, <1>8 DEF Send, BrowserStreamOpen, vars, browserVars, wireVars, pipeVars
  <1>9. CASE StartSeal
    <2> DEFINE g == Frame(sealed, Head(outbound))
    <2>1. /\ UNCHANGED pipe /\ UNCHANGED <<detached, toAgent>> /\ sealing = {}
          /\ sealing' = sealing \cup {g} /\ sealed' = sealed + 1 /\ outbound # <<>>
      BY <1>9 DEF StartSeal, MaySeal, wireVars, pipeVars
    <2>2. g.n = sealed
      <3>1. Head(outbound) \in Nat BY <1>1, <2>1, TailIs DEF TypeOK
      <3> QED BY <1>2, <3>1, Kinds
    <2> HIDE DEF g
    <2>3. ~detached' => \E f \in sealing' : sealing' = {f} /\ f.n = end /\ sealed' = end + 1
      <3> SUFFICES ASSUME ~detached' 
                   PROVE \E f \in sealing' : sealing' = {f} /\ f.n = end /\ sealed' = end + 1
        OBVIOUS
      <3>1. sealed = end /\ sealing' = {g} BY <1>5, <2>1
      <3> QED BY <2>1, <2>2, <3>1
    <2>4. Expected' = Expected BY <1>6, <2>1
    <2>5. Forward(mid, end)' BY <1>5, <2>1, <2>3, <2>4 DEF Forward
    <2> QED BY <2>5
  <1>10. ASSUME NEW f \in sealing, FinishSeal(f) PROVE \E m, e \in Nat : Forward(m, e)'
    <2>1. /\ UNCHANGED pipe /\ UNCHANGED <<detached, sealed>> /\ sealing' = sealing \ {f}
          /\ detached => toAgent' = toAgent
          /\ ~detached => toAgent' = Append(toAgent, f)
      BY <1>10 DEF FinishSeal, pipeVars
    <2>2. Expected' = Expected BY <1>6, <2>1
    <2>3. CASE detached
      BY <1>4, <1>5, <2>1, <2>2, <2>3, ForwardKept
    <2>4. CASE ~detached
      <3>1. f.n = end /\ sealed = end + 1 /\ sealing' = {} BY <1>5, <2>1, <2>4
      <3>2. f \in Messages /\ IsFrame(f) BY <1>2, Kinds
      <3>3. \A k \in Nums(toAgent) : k < f.n BY <1>5, <3>1
      <3>4. Nums(Append(toAgent, f)) = Nums(toAgent) \cup {f.n} /\ NumsRise(Append(toAgent, f))
        BY <1>2, <1>5, <3>2, <3>3, QueueAppend
      <3>5. (mid .. (end - 1)) \cup {end} = mid .. ((end + 1) - 1) /\ end + 1 \in Nat /\ mid <= end + 1
        BY <1>5
      <3>6. Nums(toAgent') = mid .. ((end + 1) - 1) /\ NumsRise(toAgent')
        BY <1>5, <2>1, <2>4, <3>1, <3>4, <3>5
      <3>7. Forward(mid, end + 1)' BY <1>5, <2>1, <2>2, <3>1, <3>5, <3>6 DEF Forward
      <3> QED BY <3>5, <3>7
    <2> QED BY <2>3, <2>4
  <1>11. CASE BrowserStreamClose \/ BrowserLeaves \/ (BrowserFrame /\ ~Accepts(seen, Head(toBrowser).n))
    <2>1. UNCHANGED pipe /\ detached' /\ toAgent' = Append(toAgent, Close)
      BY <1>11, DetachMoves, Zenon DEF Detach, pipeVars
    <2>2. Nums(toAgent') = Nums(toAgent) /\ NumsRise(toAgent')
      BY <1>2, <1>5, <2>1, NoticeAdded
    <2>3. Expected' = Expected BY <1>6, <2>1
    <2> QED BY <1>4, <1>5, <2>1, <2>2, <2>3, ForwardKept
  <1>12. CASE BrowserFrame /\ Accepts(seen, Head(toBrowser).n)
    BY <1>7, <1>12, TakeMoves DEF pipeVars
  <1>13. CASE AgentStreamOpen
    <2>1. UNCHANGED pipe /\ UNCHANGED ends /\ toAgent # <<>> /\ Head(toAgent) = Open /\ toAgent' = Tail(toAgent)
      BY <1>13 DEF AgentStreamOpen, browserVars, pipeVars
    <2>2. Nums(toAgent') = Nums(toAgent) /\ NumsRise(toAgent')
      BY <1>2, <1>5, <2>1, QueueTail, Kinds
    <2>3. Expected' = Expected BY <1>6, <2>1
    <2> QED BY <1>4, <1>5, <2>1, <2>2, <2>3, ForwardKept
  <1>14. CASE AgentStreamFrame
    <2> DEFINE f == Head(toAgent)
    <2>1. UNCHANGED <<bound, pc, highest>> /\ UNCHANGED ends /\ toAgent # <<>> /\ IsFrame(f)
          /\ toAgent' = Tail(toAgent) /\ (stream = "open" => chain' = Append(chain, f))
      BY <1>14 DEF AgentStreamFrame, browserVars, IsFrame
    <2>2. f \in Tasks /\ f # Open BY <1>1, <2>1, QueueTypes, Kinds
    <2>3. chain' = Append(chain, f) BY <1>1, <1>3, <2>1, <2>2 DEF Running, TypeOK
    <2>4. f.n = mid /\ mid < end /\ Nums(toAgent') = (mid + 1) .. (end - 1) /\ NumsRise(toAgent')
      BY <1>2, <1>5, <2>1, FirstFrame, QueueTail
    <2>5. \A k \in Nums(chain) : k < f.n BY <1>5, <2>4, <1>2
    <2> HIDE DEF f
    <2>6. Nums(Append(chain, f)) = Nums(chain) \cup {f.n} /\ NumsRise(Append(chain, f))
      BY <1>2, <1>5, <2>1, <2>2, <2>5, QueueAppend
    <2>7. /\ (Expected .. (mid - 1)) \cup {mid} = Expected .. ((mid + 1) - 1)
          /\ mid + 1 \in Nat /\ Expected <= mid + 1 /\ mid + 1 <= end
      BY <1>2, <1>5, <2>4
    <2>8. Nums(chain') = Expected .. ((mid + 1) - 1) /\ NumsRise(chain')
      BY <1>5, <2>3, <2>4, <2>6, <2>7
    <2>9. Expected' = Expected BY <1>6, <2>1
    <2>10. Forward(mid + 1, end)' BY <1>5, <2>1, <2>4, <2>7, <2>8, <2>9 DEF Forward
    <2> QED BY <2>7, <2>10
  <1>15. CASE AgentStreamClose BY <1>15 DEF AgentStreamClose, DropStream
  <1>16. CASE RelaySpeaks
    <2>1. /\ UNCHANGED <<bound, pc, highest, toAgent>> /\ UNCHANGED ends
          /\ chain' = Append(chain, Line(said + 1))
      BY <1>16 DEF RelaySpeaks, browserVars, wireVars
    <2>2. Line(said + 1) \in Tasks /\ ~IsFrame(Line(said + 1)) BY <1>1, Kinds DEF TypeOK
    <2>3. Nums(chain') = Nums(chain) /\ NumsRise(chain')
      BY <1>2, <1>5, <2>1, <2>2, QueueAppend
    <2>4. Expected' = Expected BY <1>6, <2>1
    <2> QED BY <1>4, <1>5, <2>1, <2>3, <2>4, ForwardKept
  <1>17. CASE Quiet
    BY <1>7, <1>17, QuietMoves DEF browserVars
  <1>18. CASE Task
    <2> DEFINE h == Head(chain)
    <2>1. chain # <<>> /\ UNCHANGED ends /\ UNCHANGED toAgent /\ NumsRise(Tail(chain))
      BY <1>1, <1>2, <1>5, <1>18, TaskMoves, QueueTail DEF browserVars
    <2>2. h.type = "line" <=> ~IsFrame(h) BY <1>1, <2>1, HeadTask
    <2>3. ASSUME IsFrame(h), chain' = Tail(chain), Expected' = Expected + 1
          PROVE  \E m, e \in Nat : Forward(m, e)'
      <3>1. PICK m \in Nat, e \in Nat :
                /\ Forward(m, e) /\ Expected + 1 <= m
                /\ Nums(Tail(chain)) = (Expected + 1) .. (m - 1)
        BY <1>3, <2>1, <2>3, NextFrame
      <3>2. Forward(m, e)'
        BY <2>1, <2>3, <3>1 DEF Forward
      <3> QED BY <3>2
    <2>4. CASE SealToBroker
      <3>1. UNCHANGED <<bound, pc, highest>> /\ chain' = Tail(chain) /\ ~IsFrame(h)
        BY <2>2, <2>4 DEF SealToBroker
      <3>2. Nums(chain') = Nums(chain) /\ NumsRise(chain')
        BY <1>2, <1>5, <2>1, <3>1, QueueTail
      <3>3. Expected' = Expected BY <1>6, <3>1
      <3> QED BY <1>4, <1>5, <2>1, <3>2, <3>3, ForwardKept
    <2>5. CASE OpenFromBroker
      <3>1. /\ IsFrame(h) /\ chain' = Tail(chain) /\ UNCHANGED <<bound, pc>> /\ bound # None /\ pc = "idle"
            /\ highest' = h.n
        BY <2>5 DEF OpenFromBroker, IsFrame, DropStream
      <3>2. h.n = Expected BY <1>3, <2>1, <3>1, NextFrame
      <3>3. Expected' = Expected + 1 BY <1>2, <3>1, <3>2 DEF Expected
      <3> QED BY <2>3, <3>1, <3>3
    <2>6. CASE StartTrial \/ TrialFails
      <3>1. /\ bound = None /\ bound' = None /\ chain' = chain
        BY <1>1, <2>6 DEF StartTrial, TrialFails, Try, DropStream, Running
      <3>2. Expected' = Expected BY <3>1 DEF Expected
      <3> QED BY <1>4, <1>5, <2>1, <3>1, <3>2, ForwardKept
    <2>7. CASE TrialSucceeds
      <3>1. /\ bound = None /\ IsFrame(h) /\ h.n = 0 /\ stream' = stream
        BY <1>1, <2>7 DEF TrialSucceeds, Running, Binds, Accepts
      <3>2. pc' = "admit" /\ highest' = 0 /\ chain' = chain
        BY <1>3, <2>7, <3>1 DEF TrialSucceeds
      <3>3. Expected' = Expected BY <3>1, <3>2 DEF Expected
      <3> QED BY <1>4, <1>5, <2>1, <3>2, <3>3, ForwardKept
    <2>8. ASSUME NEW ok \in BOOLEAN, AdmitRefused(ok) PROVE FALSE
      BY <2>8 DEF AdmitRefused, DropStream
    <2>9. ASSUME NEW ok \in BOOLEAN, AdmitAllowed(ok) PROVE \E m, e \in Nat : Forward(m, e)'
      <3>1. pc = "admit" /\ pc' = "flush" /\ chain' = chain /\ UNCHANGED <<bound, highest>>
        BY <1>3, <2>9 DEF AdmitAllowed
      <3>2. Expected' = Expected BY <3>1 DEF Expected
      <3> QED BY <1>4, <1>5, <2>1, <3>1, <3>2, ForwardKept
    <2>10. CASE FlushHeld
      <3>1. /\ pc = "flush" /\ bound # None /\ IsFrame(h) /\ UNCHANGED <<bound, highest>>
            /\ (UNCHANGED <<pc, chain>>) \/ (pc' = "idle" /\ chain' = Tail(chain))
        BY <1>1, <2>10 DEF FlushHeld, Running
      <3>2. CASE UNCHANGED <<pc, chain>> BY <1>7, <2>1, <3>1, <3>2
      <3>3. CASE pc' = "idle" /\ chain' = Tail(chain)
        <4>1. Expected' = Expected + 1 BY <1>2, <3>1, <3>3 DEF Expected
        <4> QED BY <2>3, <3>1, <3>3, <4>1
      <3> QED BY <3>1, <3>2, <3>3
    <2> QED BY <1>18, <2>4, <2>5, <2>6, <2>7, <2>8, <2>9, <2>10 DEF Task
  <1> QED BY <1>8, <1>9, <1>10, <1>11, <1>12, <1>13, <1>14, <1>15, <1>16, <1>17, <1>18, NextMoves

\* What a step does to the frames on their way to the browser.
LEMMA BackwardKept ==
    ASSUME NEW end \in Nat, Backward(end), seen' = seen, Nums(toBrowser') = Nums(toBrowser),
           NumsRise(toBrowser'), stream' # "closed" => stream # "closed" /\ replied' = replied
    PROVE  Backward(end)'
  <1>1. seen <= end /\ Nums(toBrowser) = seen .. (end - 1) /\ (stream # "closed" => end = replied)
    BY DEF Backward
  <1>2. (seen <= end)' /\ Nums(toBrowser') = (seen .. (end - 1))' BY <1>1
  <1>3. stream' # "closed" => end = replied' BY <1>1
  <1> QED BY <1>2, <1>3 DEF Backward

\* No step leaves a gap between the agent's counter and the browser's.
LEMMA BackwardStep ==
    ASSUME SealedStreamAssumption, StreamInv, [Next]_vars, faults = 0, ~BrokerFault, ~detached'
    PROVE  \E end \in Nat : Backward(end)'
  <1>1. TypeOK /\ Running BY DEF StreamInv
  <1>2. toBrowser \in Seq(Messages) /\ seen \in Nat /\ replied \in Nat
    BY <1>1, QueueTypes DEF TypeOK
  <1>3. ~detached
    <2>1. \/ UNCHANGED detached
          \/ BrowserStreamClose \/ BrowserLeaves \/ (BrowserFrame /\ ~Accepts(seen, Head(toBrowser).n))
      <3>1. CASE Task BY <1>1, <3>1, TaskMoves DEF browserVars
      <3>2. CASE Quiet BY <3>2, QuietMoves DEF browserVars
      <3>3. CASE BrowserFrame /\ Accepts(seen, Head(toBrowser).n) BY <3>3, TakeMoves
      <3> QED BY <3>1, <3>2, <3>3, NextMoves DEF Send, StartSeal, FinishSeal, BrowserStreamOpen,
         AgentStreamOpen, AgentStreamFrame, AgentStreamClose, RelaySpeaks, vars, browserVars
    <2>2. BrowserStreamClose \/ BrowserLeaves \/ (BrowserFrame /\ ~Accepts(seen, Head(toBrowser).n)) => FALSE
      BY DetachMoves, Zenon DEF Detach
    <2> QED BY <2>1, <2>2
  <1>4. PICK end \in Nat : Backward(end) BY <1>3 DEF StreamInv, Faithful
  <1>5. /\ seen <= end /\ NumsRise(toBrowser) /\ Nums(toBrowser) = seen .. (end - 1)
        /\ stream # "closed" => end = replied
    BY <1>4 DEF Backward
  <1>6. CASE /\ seen' = seen /\ (stream' # "closed" => stream # "closed" /\ replied' = replied)
             /\ toBrowser' = toBrowser \/ toBrowser' = Append(toBrowser, Close)
    <2>1. Nums(toBrowser') = Nums(toBrowser) /\ NumsRise(toBrowser')
      BY <1>2, <1>5, <1>6, NoticeAdded
    <2> QED BY <1>4, <1>6, <2>1, BackwardKept
  <1>7. CASE \/ Send \/ StartSeal \/ (\E f \in sealing : FinishSeal(f)) \/ AgentStreamOpen
             \/ AgentStreamFrame \/ AgentStreamClose \/ RelaySpeaks \/ UNCHANGED vars
    BY <1>6, <1>7 DEF Send, StartSeal, FinishSeal, AgentStreamOpen, AgentStreamFrame, AgentStreamClose,
       RelaySpeaks, DropStream, vars, browserVars, wireVars, pipeVars
  <1>8. CASE BrowserStreamOpen
    <2>1. /\ toBrowser # <<>> /\ Head(toBrowser) = Open /\ toBrowser' = Tail(toBrowser)
          /\ UNCHANGED <<seen, stream, replied>>
      BY <1>8 DEF BrowserStreamOpen, pipeVars
    <2>2. Nums(toBrowser') = Nums(toBrowser) /\ NumsRise(toBrowser')
      BY <1>2, <1>5, <2>1, QueueTail, Kinds
    <2> QED BY <1>4, <2>1, <2>2, BackwardKept
  <1>9. CASE BrowserStreamClose \/ BrowserLeaves \/ (BrowserFrame /\ ~Accepts(seen, Head(toBrowser).n))
    BY <1>9, DetachMoves, Zenon DEF Detach
  <1>10. CASE BrowserFrame /\ Accepts(seen, Head(toBrowser).n)
    <2>1. /\ toBrowser # <<>> /\ IsFrame(Head(toBrowser)) /\ toBrowser' = Tail(toBrowser)
          /\ seen' = Head(toBrowser).n + 1 /\ UNCHANGED <<stream, replied>>
      BY <1>10, TakeMoves DEF pipeVars
    <2>2. Head(toBrowser).n = seen BY <1>3, <2>1, NextAnswer
    <2>3. PICK e \in Nat : Backward(e) /\ seen + 1 <= e /\ Nums(Tail(toBrowser)) = (seen + 1) .. (e - 1)
      BY <1>3, <2>1, NextAnswer
    <2>4. seen' = seen + 1 BY <2>1, <2>2
    <2>5. NumsRise(toBrowser') BY <1>2, <1>5, <2>1, QueueTail
    <2>6. Backward(e)' BY <2>1, <2>3, <2>4, <2>5 DEF Backward
    <2> QED BY <2>6
  <1>11. CASE Quiet
    <2>1. UNCHANGED <<seen, replied>> BY <1>11, QuietMoves DEF browserVars
    <2>2. /\ stream' # "closed" => stream # "closed"
          /\ toBrowser' = toBrowser \/ toBrowser' = Append(toBrowser, Close)
      BY <1>11 DEF Quiet, LocalOpens, TeardownStreams, LocalCloses, AddSessionKeys, RemoveSessionKeys,
                   DropStream, wireVars
    <2> QED BY <1>6, <2>1, <2>2
  <1>12. CASE Task
    <2>1. chain # <<>> /\ seen' = seen BY <1>1, <1>12, TaskMoves DEF browserVars
    <2>2. ASSUME NEW line \in Nat, stream # "closed", stream' = stream, replied' = replied + 1,
                 toBrowser' = Append(toBrowser, Frame(replied, line))
          PROVE  \E e \in Nat : Backward(e)'
      <3> DEFINE g == Frame(replied, line)
      <3>1. g \in Messages /\ IsFrame(g) /\ g.n = replied BY <1>2, Kinds
      <3> HIDE DEF g
      <3>2. end = replied /\ Nums(toBrowser) = seen .. (replied - 1) /\ seen <= replied
        BY <1>5, <2>2
      <3>3. \A k \in Nums(toBrowser) : k < g.n BY <1>2, <3>1, <3>2
      <3>4. Nums(Append(toBrowser, g)) = Nums(toBrowser) \cup {g.n} /\ NumsRise(Append(toBrowser, g))
        BY <1>2, <1>5, <3>1, <3>3, QueueAppend
      <3>5. /\ (seen .. (replied - 1)) \cup {replied} = seen .. ((replied + 1) - 1)
            /\ seen <= replied + 1 /\ replied + 1 \in Nat
        BY <1>2, <3>2
      <3>6. Nums(toBrowser') = seen .. ((replied + 1) - 1) /\ NumsRise(toBrowser')
        BY <2>2, <3>1, <3>2, <3>4, <3>5 DEF g
      <3>7. PICK e \in Nat : e = replied + 1 BY <3>5
      <3>8. Backward(e)' BY <2>1, <2>2, <3>5, <3>6, <3>7 DEF Backward
      <3> QED BY <3>8
    <2>3. CASE SealToBroker
      <3>1. \/ UNCHANGED <<replied, toBrowser, stream>>
            \/ stream = "closed" /\ UNCHANGED <<toBrowser, stream>>
            \/ /\ stream # "closed" /\ stream' = stream /\ replied' = replied + 1
               /\ toBrowser' = Append(toBrowser, Frame(replied, Head(chain).line))
        BY <2>3 DEF SealToBroker
      <3>2. Head(chain).line \in Nat BY <1>1, <2>1, HeadTask
      <3> QED BY <1>6, <2>1, <2>2, <3>1, <3>2
    <2>4. CASE FlushHeld
      <3>1. \/ UNCHANGED <<replied, toBrowser, stream>>
            \/ stream = "closed" /\ UNCHANGED <<toBrowser, stream>>
            \/ /\ stream # "closed" /\ stream' = stream /\ replied' = replied + 1 /\ held # <<>>
               /\ toBrowser' = Append(toBrowser, Frame(replied, Head(held)))
        BY <2>4 DEF FlushHeld
      <3>2. held # <<>> => Head(held) \in Nat BY <1>1, TailIs DEF TypeOK
      <3> QED BY <1>6, <2>1, <2>2, <3>1, <3>2
    <2>5. CASE OpenFromBroker \/ StartTrial \/ TrialFails \/ TrialSucceeds
      BY <1>6, <2>1, <2>5 DEF OpenFromBroker, StartTrial, TrialFails, TrialSucceeds, Try, DropStream, wireVars
    <2>6. ASSUME NEW ok \in BOOLEAN, AdmitRefused(ok) \/ AdmitAllowed(ok)
          PROVE  \E e \in Nat : Backward(e)'
      BY <1>6, <2>1, <2>6 DEF AdmitRefused, AdmitAllowed, DropStream, wireVars
    <2> QED BY <1>12, <2>3, <2>4, <2>5, <2>6 DEF Task
  <1> QED BY <1>7, <1>8, <1>9, <1>10, <1>11, <1>12, NextMoves

\* No end sees a bad frame.
LEMMA HealthyStep ==
    ASSUME SealedStreamAssumption, StreamInv, [Next]_vars, faults = 0, ~BrokerFault
    PROVE  why' # "auth" /\ bwhy' # "auth"
  <1>1. TypeOK /\ Running /\ why # "auth" /\ bwhy # "auth" BY DEF StreamInv, Faithful
  <1>2. bwhy' # "auth"
    <2>1. CASE BrowserFrame
      <3>1. ~detached /\ toBrowser # <<>> /\ IsFrame(Head(toBrowser)) BY <2>1 DEF BrowserFrame, IsFrame
      <3>2. Accepts(seen, Head(toBrowser).n) BY <3>1, NextAnswer
      <3> QED BY <1>1, <2>1, <3>2, TakeMoves
    <2>2. CASE BrowserStreamClose \/ BrowserLeaves
      BY <2>2 DEF BrowserStreamClose, BrowserLeaves, Detach
    <2>3. CASE Task BY <1>1, <2>3, TaskMoves DEF browserVars
    <2>4. CASE Quiet BY <1>1, <2>4, QuietMoves DEF browserVars
    <2> QED BY <1>1, <2>1, <2>2, <2>3, <2>4, NextMoves DEF Send, StartSeal, FinishSeal, BrowserStreamOpen,
       AgentStreamOpen, AgentStreamFrame, AgentStreamClose, RelaySpeaks, vars, browserVars
  <1>3. why' # "auth"
    <2>1. CASE OpenFromBroker
      <3> DEFINE h == Head(chain)
      <3>1. /\ chain # <<>> /\ IsFrame(h) /\ bound # None /\ pc = "idle" /\ highest \in Nat
        BY <1>1, <2>1 DEF OpenFromBroker, IsFrame, TypeOK
      <3>2. CASE stream = "closed"
        BY <1>1, <2>1, <3>2 DEF OpenFromBroker, DropStream
      <3>3. CASE stream # "closed"
        <4>1. h.n = Expected BY <3>1, <3>3, NextFrame
        <4>2. Accepts(highest + 1, h.n) BY <3>1, <4>1 DEF Expected, Accepts
        <4> QED BY <1>1, <2>1, <4>2 DEF OpenFromBroker
      <3> QED BY <3>2, <3>3
    <2>2. CASE SealToBroker \/ StartTrial \/ TrialFails \/ TrialSucceeds \/ FlushHeld
      BY <1>1, <2>2 DEF SealToBroker, StartTrial, TrialFails, TrialSucceeds, FlushHeld, Try, DropStream
    <2>3. ASSUME NEW ok \in BOOLEAN, AdmitRefused(ok) \/ AdmitAllowed(ok) PROVE why' # "auth"
      BY <1>1, <2>3 DEF AdmitRefused, AdmitAllowed, DropStream
    <2>4. CASE Quiet
      BY <1>1, <2>4 DEF Quiet, LocalOpens, TeardownStreams, LocalCloses, AddSessionKeys, RemoveSessionKeys,
         DropStream
    <2>5. CASE Task BY <2>1, <2>2, <2>3, <2>5 DEF Task
    <2> QED BY <1>1, <2>4, <2>5, NextMoves DEF Send, StartSeal, FinishSeal, BrowserStreamOpen, BrowserFrame,
       BrowserStreamClose, BrowserLeaves, AgentStreamOpen, AgentStreamFrame, AgentStreamClose, RelaySpeaks,
       DropStream, vars
  <1> QED BY <1>2, <1>3

\* The browser has every line up to its counter.
LEMMA GotStep ==
    ASSUME SealedStreamAssumption, StreamInv, [Next]_vars, faults = 0, ~BrokerFault
    PROVE  Exactly(got') /\ Len(got') = seen'
  <1>1. TypeOK /\ Running /\ Answered /\ Exactly(got) /\ Len(got) = seen /\ got \in Seq(Nat)
    BY DEF StreamInv, Faithful, TypeOK
  <1>2. CASE BrowserFrame /\ Accepts(seen, Head(toBrowser).n)
    <2> DEFINE f == Head(toBrowser)
    <2>1. /\ ~detached /\ toBrowser # <<>> /\ IsFrame(f) /\ seen' = f.n + 1 /\ got' = Append(got, f.line)
      BY <1>2, TakeMoves DEF BrowserFrame
    <2>2. f.n = seen BY <2>1, NextAnswer
    <2>3. toBrowser \in Seq(Messages) /\ seen \in Nat BY <1>1, QueueTypes DEF TypeOK
    <2>4. f.line = f.n + 1 BY <1>1, <2>1, <2>3, HeadNumbered DEF Answered
    <2> HIDE DEF f
    <2>5. f.line = Len(got) + 1 /\ f.line \in Nat /\ seen' = seen + 1 BY <1>1, <2>1, <2>2, <2>3, <2>4
    <2>6. Exactly(Append(got, f.line)) /\ Len(Append(got, f.line)) = Len(got) + 1
      BY <1>1, <2>5, LinesAppend, AppendIs
    <2> QED BY <1>1, <2>1, <2>5, <2>6
  <1>3. CASE UNCHANGED <<got, seen>> BY <1>1, <1>3
  <1>4. CASE BrowserStreamClose \/ BrowserLeaves \/ (BrowserFrame /\ ~Accepts(seen, Head(toBrowser).n))
    BY <1>3, <1>4, DetachMoves
  <1>5. CASE Task BY <1>1, <1>3, <1>5, TaskMoves DEF browserVars
  <1>6. CASE Quiet BY <1>3, <1>6, QuietMoves DEF browserVars
  <1> QED BY <1>2, <1>3, <1>4, <1>5, <1>6, NextMoves DEF Send, StartSeal, FinishSeal, BrowserStreamOpen,
     AgentStreamOpen, AgentStreamFrame, AgentStreamClose, RelaySpeaks, vars, browserVars

\* How many lines the agent took for the relay.
Taken == IF bound = None \/ pc = "admit" THEN 0 ELSE highest + 1

\* The relay has every line up to the agent's counter.
LEMMA RelayStep ==
    ASSUME SealedStreamAssumption, StreamInv, [Next]_vars, faults = 0, ~BrokerFault
    PROVE  /\ Exactly(relay') /\ Exactly(toLocal')
           /\ stream' = "open" => Len(relay') + Len(toLocal') = Taken'
  <1>1. /\ TypeOK /\ Running /\ Gate /\ Written /\ Received
        /\ Exactly(relay) /\ Exactly(toLocal) /\ (stream = "open" => Len(relay) + Len(toLocal) = Taken)
    BY DEF StreamInv, Faithful, Taken
  <1>2. /\ relay \in Seq(Nat) /\ toLocal \in Seq(Nat) /\ Len(relay) \in Nat /\ Len(toLocal) \in Nat
        /\ highest \in Nat /\ chain \in Seq(Tasks) /\ stream \in {"none", "open", "closed"}
    BY <1>1, QueueTypes DEF TypeOK
  <1>3. CASE UNCHANGED <<relay, toLocal, bound, pc, highest>> /\ (stream' = "open" => stream = "open")
    BY <1>1, <1>3 DEF Taken
  <1>4. CASE UNCHANGED <<relay, toLocal>> /\ stream' = "closed"
    BY <1>1, <1>4
  <1>5. CASE \/ Send \/ StartSeal \/ (\E f \in sealing : FinishSeal(f)) \/ BrowserStreamOpen
             \/ BrowserFrame \/ BrowserStreamClose \/ BrowserLeaves
             \/ AgentStreamFrame \/ AgentStreamClose \/ RelaySpeaks \/ UNCHANGED vars
    <2>1. UNCHANGED <<relay, toLocal, bound, pc, highest>> /\ (stream' = "open" => stream = "open")
      BY <1>5 DEF Send, StartSeal, FinishSeal, BrowserStreamOpen, BrowserFrame, BrowserStreamClose,
         BrowserLeaves, AgentStreamFrame, AgentStreamClose, RelaySpeaks, DropStream, vars, pipeVars
    <2> QED BY <1>3, <2>1
  <1>6. CASE AgentStreamOpen
    <2>1. UNCHANGED <<relay, toLocal, bound>> /\ stream = "none" BY <1>6 DEF AgentStreamOpen, pipeVars
    <2>2. bound = None /\ relay = <<>> /\ toLocal = <<>> BY <1>1, <2>1 DEF Running
    <2> QED BY <1>1, <2>1, <2>2 DEF Taken
  <1>7. CASE LocalOpens
    <2>1. /\ ~local /\ relay' = relay \o toLocal /\ toLocal' = <<>> /\ UNCHANGED <<bound, pc, highest, stream>>
      BY <1>7 DEF LocalOpens, LocalFlush
    <2>2. relay = <<>> BY <1>1, <2>1 DEF Received
    <2>3. relay' = toLocal /\ Len(relay) = 0 /\ Len(toLocal') = 0
      BY <1>2, <2>1, <2>2, ConcatEmptySeq
    <2>4. Len(relay') + Len(toLocal') = Len(relay) + Len(toLocal) BY <1>2, <2>3
    <2>5. Exactly(relay') /\ Exactly(toLocal') BY <1>1, <2>1, <2>3, EmptyQueue
    <2> QED BY <1>1, <2>1, <2>4, <2>5 DEF Taken
  <1>8. CASE Quiet /\ ~LocalOpens
    <2>1. UNCHANGED <<relay, toLocal, bound, pc, highest>> /\ (stream' = "open" => stream = "open")
      BY <1>8 DEF Quiet, TeardownStreams, LocalCloses, AddSessionKeys, RemoveSessionKeys, DropStream, pipeVars
    <2> QED BY <1>3, <2>1
  <1>9. CASE Task
    <2> DEFINE h == Head(chain)
    <2>1. chain # <<>> /\ stream # "none" BY <1>1, <1>9, TaskMoves DEF Running
    <2>2. /\ h.line \in Nat
          /\ IsFrame(h) => h.line = h.n + 1
      BY <1>1, <1>2, <2>1, HeadTask, HeadNumbered DEF Written
    \* One of the two places a line can be is empty; the other grows.
    <2>3. ASSUME h.line = Len(relay) + Len(toLocal) + 1,
                 \/ local /\ relay' = Append(relay, h.line) /\ toLocal' = toLocal
                 \/ ~local /\ toLocal' = Append(toLocal, h.line) /\ relay' = relay
          PROVE  /\ Exactly(relay') /\ Exactly(toLocal')
                 /\ Len(relay') + Len(toLocal') = Len(relay) + Len(toLocal) + 1
      <3> HIDE DEF h
      <3>1. CASE local /\ relay' = Append(relay, h.line) /\ toLocal' = toLocal
        <4>1. toLocal = <<>> /\ Len(toLocal) = 0 BY <1>1, <3>1 DEF Received
        <4>2. h.line = Len(relay) + 1 BY <1>2, <2>3, <4>1
        <4>3. Exactly(Append(relay, h.line)) /\ Len(Append(relay, h.line)) = Len(relay) + 1
          BY <1>1, <1>2, <2>2, <4>2, LinesAppend, AppendIs
        <4>4. Exactly(relay') /\ Len(relay') = Len(relay) + 1 BY <3>1, <4>3
        <4>5. toLocal' = toLocal /\ Len(toLocal') = Len(toLocal) BY <3>1
        <4> QED BY <1>1, <1>2, <4>4, <4>5
      <3>2. CASE ~local /\ toLocal' = Append(toLocal, h.line) /\ relay' = relay
        <4>1. relay = <<>> /\ Len(relay) = 0 BY <1>1, <3>2 DEF Received
        <4>2. h.line = Len(toLocal) + 1 BY <1>2, <2>3, <4>1
        <4>3. Exactly(Append(toLocal, h.line)) /\ Len(Append(toLocal, h.line)) = Len(toLocal) + 1
          BY <1>1, <1>2, <2>2, <4>2, LinesAppend, AppendIs
        <4>4. Exactly(toLocal') /\ Len(toLocal') = Len(toLocal) + 1 BY <3>2, <4>3
        <4>5. relay' = relay /\ Len(relay') = Len(relay) BY <3>2
        <4> QED BY <1>1, <1>2, <4>4, <4>5
      <3> QED BY <2>3, <3>1, <3>2
    <2>4. CASE SealToBroker
      BY <1>3, <2>4 DEF SealToBroker
    <2>5. CASE OpenFromBroker
      <3>1. /\ IsFrame(h) /\ bound # None /\ pc = "idle" /\ UNCHANGED <<bound, pc>>
        BY <2>5 DEF OpenFromBroker, IsFrame
      <3>2. CASE UNCHANGED <<relay, toLocal>> /\ stream' = "closed" BY <1>4, <3>2
      <3>3. CASE ~(UNCHANGED <<relay, toLocal>> /\ stream' = "closed")
        <4>1. /\ highest' = h.n /\ stream' = stream /\ stream # "closed"
              /\ \/ local /\ relay' = Append(relay, h.line) /\ toLocal' = toLocal
                 \/ ~local /\ toLocal' = Append(toLocal, h.line) /\ relay' = relay
          BY <2>5, <3>3, Zenon DEF OpenFromBroker, WriteLocal, DropStream
        <4>2. stream = "open" BY <1>2, <2>1, <4>1
        <4>3. h.n = highest + 1 BY <2>1, <3>1, <4>2, NextFrame DEF Expected
        <4>4. Len(relay) + Len(toLocal) = highest + 1 BY <1>1, <3>1, <4>2 DEF Taken
        <4>5. h.line = Len(relay) + Len(toLocal) + 1 BY <1>2, <2>2, <3>1, <4>3, <4>4
        <4>6. Taken' = h.n + 1 BY <3>1, <4>1 DEF Taken
        <4>7. h.n + 1 = Len(relay) + Len(toLocal) + 1 BY <1>2, <4>3, <4>4
        <4>8. /\ Exactly(relay') /\ Exactly(toLocal')
              /\ Len(relay') + Len(toLocal') = Len(relay) + Len(toLocal) + 1
          BY <2>3, <4>1, <4>5
        <4> QED BY <4>6, <4>7, <4>8
      <3> QED BY <3>2, <3>3
    <2>6. CASE StartTrial \/ TrialFails
      <3>1. /\ bound = None /\ bound' = None /\ UNCHANGED <<relay, toLocal>>
            /\ stream' = "open" => stream = "open"
        BY <1>1, <2>6 DEF StartTrial, TrialFails, Running, Try, DropStream
      <3> QED BY <1>1, <3>1 DEF Taken
    <2>7. CASE TrialSucceeds
      <3>1. bound = None /\ UNCHANGED <<relay, toLocal, stream>> /\ (bound' = None \/ pc' = "admit")
        BY <1>1, <2>7 DEF TrialSucceeds, Running
      <3> QED BY <1>1, <3>1 DEF Taken
    <2>8. ASSUME NEW ok \in BOOLEAN, AdmitRefused(ok)
          PROVE  /\ Exactly(relay') /\ Exactly(toLocal')
                 /\ stream' = "open" => Len(relay') + Len(toLocal') = Taken'
      BY <1>4, <2>8 DEF AdmitRefused, DropStream
    <2>9. ASSUME NEW ok \in BOOLEAN, AdmitAllowed(ok)
          PROVE  /\ Exactly(relay') /\ Exactly(toLocal')
                 /\ stream' = "open" => Len(relay') + Len(toLocal') = Taken'
      <3>1. pc = "admit" /\ UNCHANGED <<bound, highest, stream>> BY <2>9 DEF AdmitAllowed
      <3>2. CASE stream = "closed"
        BY <1>4, <2>9, <3>1, <3>2 DEF AdmitAllowed
      <3>3. CASE stream # "closed"
        <4>1. /\ pc' = "flush"
              /\ \/ local /\ relay' = Append(relay, h.line) /\ toLocal' = toLocal
                 \/ ~local /\ toLocal' = Append(toLocal, h.line) /\ relay' = relay
          BY <2>9, <3>3, Zenon DEF AdmitAllowed, WriteLocal
        <4>2. relay = <<>> /\ toLocal = <<>> /\ highest = 0 /\ bound # None /\ IsFrame(h) /\ h.n = 0
          BY <1>1, <3>1 DEF Gate, Running
        <4>3. Len(relay) = 0 /\ Len(toLocal) = 0 /\ h.line = 1 BY <2>2, <4>2
        <4>4. h.line = Len(relay) + Len(toLocal) + 1 BY <4>3
        <4>5. /\ Exactly(relay') /\ Exactly(toLocal')
              /\ Len(relay') + Len(toLocal') = Len(relay) + Len(toLocal) + 1
          BY <2>3, <4>1, <4>4
        <4>6. Taken' = 1 BY <3>1, <4>1, <4>2 DEF Taken
        <4> QED BY <4>3, <4>5, <4>6
      <3> QED BY <3>2, <3>3
    <2>10. CASE FlushHeld
      <3>1. /\ pc = "flush" /\ pc' \in {"idle", "flush"} /\ UNCHANGED <<relay, toLocal, bound, highest, stream>>
        BY <2>10 DEF FlushHeld
      <3> QED BY <1>1, <3>1 DEF Taken
    <2> QED BY <1>9, <2>4, <2>5, <2>6, <2>7, <2>8, <2>9, <2>10 DEF Task
  <1> QED BY <1>5, <1>6, <1>7, <1>8, <1>9, NextMoves

\* Without faults every part of the stream stays whole.
LEMMA FaithfulStep ==
    ASSUME SealedStreamAssumption, StreamInv, [Next]_vars
    PROVE  Faithful'
  <1> SUFFICES ASSUME faults' = 0
               PROVE  /\ why' # "auth" /\ bwhy' # "auth"
                      /\ Exactly(relay') /\ Exactly(toLocal') /\ Exactly(got')
                      /\ Len(got') = seen'
                      /\ stream' = "open" => Len(relay') + Len(toLocal') = Taken'
                      /\ stream' # "closed" => \E mid, end \in Nat : Forward(mid, end)'
                      /\ ~detached' => \E end \in Nat : Backward(end)'
    BY DEF Faithful, Taken
  <1>1. faults = 0 /\ ~BrokerFault BY StillFaithful DEF StreamInv
  <1> QED BY <1>1, ForwardStep, BackwardStep, HealthyStep, GotStep, RelayStep

-----------------------------------------------------------------------------
(***************************************************************************)
(* The theorems.                                                           *)
(***************************************************************************)
\* The first states: both opens are on their way and nothing else.
LEMMA StreamInit ==
    ASSUME SealedStreamAssumption, Init
    PROVE  StreamInv
  <1>1. TypeOK BY TypeInit
  <1>2. /\ Open \in Messages /\ ~IsFrame(Open) /\ <<Open>> # <<>> /\ Head(<<Open>>) = Open
        /\ <<Open>> \in Seq(Messages) /\ <<Open>> = Append(<<>>, Open) /\ <<>> \in Seq(Messages)
        /\ Len(<<>>) = 0
    BY Kinds
  <1>3. Numbered(<<Open>>) /\ NumsRise(<<Open>>) /\ Nums(<<Open>>) = {}
    <2>1. DOMAIN <<Open>> = {1} /\ <<Open>>[1] = Open OBVIOUS
    <2>2. Nums(<<Open>>) = {} BY <1>2, <2>1 DEF Nums
    <2>3. Numbered(<<Open>>) BY <1>2, <2>1 DEF Numbered
    <2>4. NumsRise(<<Open>>) BY <1>2, <2>1 DEF NumsRise
    <2> QED BY <2>2, <2>3, <2>4
  <1>4. Written
    <2>1. Follows(outbound, sealed) /\ Follows(queued, sealed) BY EmptyQueue DEF Init
    <2>2. wrote = sealed + Len(outbound) + Len(queued) BY <1>2 DEF Init
    <2>3. Numbered(toAgent) /\ Numbered(chain) BY <1>3, EmptyQueue DEF Init
    <2> QED BY <2>1, <2>2, <2>3 DEF Init, Written
  <1>5. Running BY <1>2 DEF Init, Running
  <1>6. Gate BY <1>3 DEF Init, Gate
  <1>7. Answered BY <1>3 DEF Init, Answered
  <1>8. Received
    <2>1. \A i \in DOMAIN <<>> : FALSE OBVIOUS
    <2> QED BY <2>1, EmptyQueue DEF Init, Received
  <1>9. Faithful
    <2>1. Expected = 0 BY DEF Init, Expected
    <2>2. 0 .. (0 - 1) = {} OBVIOUS
    <2>3. Forward(0, 0)
      <3>1. 0 <= 0 /\ Nums(chain) = {} /\ NumsRise(chain) /\ Nums(toAgent) = {} /\ NumsRise(toAgent)
        BY <1>3, EmptyQueue DEF Init
      <3>2. sealing = {} /\ sealed = 0 BY DEF Init
      <3> QED BY <2>1, <2>2, <3>1, <3>2 DEF Forward
    <2>4. Backward(0)
      <3>1. seen = 0 /\ replied = 0 /\ Nums(toBrowser) = {} /\ NumsRise(toBrowser) BY <1>3 DEF Init
      <3> QED BY <2>2, <3>1 DEF Backward
    <2>5. /\ Exactly(relay) /\ Exactly(toLocal) /\ Exactly(got)
          /\ Len(got) = seen /\ Len(relay) + Len(toLocal) = 0
      BY <1>2, EmptyQueue DEF Init
    <2>6. why # "auth" /\ bwhy # "auth" /\ stream # "open" BY DEF Init
    <2> QED BY <2>3, <2>4, <2>5, <2>6 DEF Faithful
  <1>10. Keyring BY DEF Init, Keyring, ForgottenStaysOut
  <1> QED BY <1>1, <1>4, <1>5, <1>6, <1>7, <1>8, <1>9, <1>10 DEF StreamInv

\* The inductive invariant of a sealed stream: what waits in each buffer of both
\* ends and of the broker, as numbers (transport.ts, tunnel-agent.ts, frames.ts).
THEOREM StreamInvariant == Spec => []StreamInv
  <1> USE SealedStreamAssumption
  <1>1. Init => StreamInv
    BY StreamInit
  <1>2. StreamInv /\ [Next]_vars => StreamInv'
    BY TypeStep, WrittenStep, RunningStep, GateStep, AnsweredStep, ReceivedStep, FaithfulStep,
       KeyringStep DEF StreamInv
  <1> QED BY <1>1, <1>2, PTL DEF Spec

\* Each end receives the other's lines in order and none twice, whatever the
\* broker loses, repeats or reorders, and skips none when it is faithful
\* (frames.ts:242-277, transport.ts:258-262, tunnel-agent.ts:419-431, 496-498,
\* 531-534), for any number of lines and faults.
THEOREM LinesAreInOrder == Spec => []InOrderNoGaps
  <1>1. StreamInv => InOrderNoGaps
    BY DEF StreamInv, InOrderNoGaps, InOrder, NothingSkipped, Received, Faithful
  <1> QED BY <1>1, StreamInvariant, PTL

\* Through a faithful broker neither end ever sees a bad frame, and the first
\* frame the agent tries its keyring on is frame 0 (transport.ts:134-149).
THEOREM HealthyStreamSurvives == Spec => []HealthySurvives
  <1>1. StreamInv => HealthySurvives
    <2> SUFFICES ASSUME StreamInv, faults = 0
                 PROVE  /\ why # "auth" /\ bwhy # "auth"
                        /\ pc = "trial" /\ stream = "open" => Head(chain).n = 0
      BY DEF HealthySurvives
    <2>1. why # "auth" /\ bwhy # "auth" BY DEF StreamInv, Faithful
    <2>2. ASSUME pc = "trial", stream = "open" PROVE Head(chain).n = 0
      <3>1. chain # <<>> /\ IsFrame(Head(chain)) /\ bound = None
        BY <2>2 DEF StreamInv, Running
      <3> QED BY <2>2, <3>1, NextFrame DEF Expected
    <2> QED BY <2>1, <2>2
  <1> QED BY <1>1, StreamInvariant, PTL

\* No line passes in either direction before a key has matched and the gate has
\* admitted its owner (tunnel-agent.ts:482-486).
THEOREM NothingPassesUnadmitted == Spec => []GatedByAdmission
  <1>1. StreamInv => GatedByAdmission
    BY DEF StreamInv, GatedByAdmission, Gate, Running
  <1> QED BY <1>1, StreamInvariant, PTL

\* A forgotten pairing binds no stream, except one whose trial under that very
\* entry was in flight (tunnel-agent.ts:461-480, 771-784).
THEOREM ForgottenIsOut == Spec => []ForgottenStaysOut
  <1>1. StreamInv => ForgottenStaysOut
    BY DEF StreamInv, Keyring
  <1> QED BY <1>1, StreamInvariant, PTL
=============================================================================

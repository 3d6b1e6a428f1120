------------------------------ MODULE Recorder ------------------------------
(***************************************************************************)
(* Recordings: start, stop and stopAll of apps/relay/src/recorder.ts, the  *)
(* index of recordings-index.ts, the clone of tmux-clone.ts, the writer of *)
(* packages/cast/src/writer.ts, the recording messages of                  *)
(* message-router.ts, and what wire-connections.ts does at boot.           *)
(*                                                                         *)
(* Starting a recording, stopping it and deleting it are coroutines of one *)
(* process: each runs alone up to its next await, and anything may happen  *)
(* there, the end of the process too.  An update of the index reads the    *)
(* file and, later, replaces it through one temporary file that every      *)
(* update shares.  What a recording holds outside the process (a clone on  *)
(* the tmux server, a pipe on a pane, a FIFO, a cast, a row of the index)  *)
(* outlives it; its ptys do not.                                           *)
(*                                                                         *)
(* A cast is on disk or not, and weighs one unit once its row says how     *)
(* large it is: a row that was never closed says zero.  An index that does *)
(* not parse reads as empty, so that is what a torn one is here.           *)
(***************************************************************************)
EXTENDS Naturals, SequencesExt

CONSTANTS
    Ids,                \* recordings; an id is never used twice
    Sessions, Panes,    \* what there is to record
    None,
    MaxTotal,           \* MAX_TOTAL_BYTES, in casts
    MaxBoots,           \* bound: processes that run one after the other
    MaxTurns            \* bound: deletions, and things that go wrong outside

ASSUME RecorderAssumption ==
    /\ None \notin Ids \cup Sessions \cup Panes
    /\ Sessions \cap Panes = {} /\ Ids \cap {"none", "theirs"} = {}
    /\ MaxTotal \in Nat /\ MaxBoots \in Nat /\ MaxTurns \in Nat

VARIABLES
    \* the process
    up, boots, turns,
    active,         \* `active`
    at,             \* where start() of a recording is
    target,
    stopping, why,  \* where stop() is, and the reason it will record
    writer,         \* "none", "open" or the reason the writer was stopped for
    bridge,         \* the pty: "none", "fresh", "ready" (see onReady) or "dead"
    reading,        \* the FIFO's read stream is open
    job,            \* the updates of the index in flight
    orphans,        \* sweepOrphanClones: the clones it still has to destroy
    \* tmux
    there, clone, pipe,
    \* the disk
    rows, fifo, cast,
    \* history
    born,           \* the recordings in the order of startedAt
    old,            \* those of processes that are gone
    overtaken,      \* those of this process stopped while start() was still at work
    overlap         \* two updates of the index overlapped: "never", in a process
                    \* "before" this one, or "now"

startVars == <<active, at, target, writer, bridge, reading, born>>
stopVars == <<stopping, why, overtaken>>
procVars == <<up, boots, turns, old>>
tmuxVars == <<there, clone, pipe>>
indexVars == <<job, rows, overlap>>
vars == <<startVars, stopVars, procVars, tmuxVars, indexVars, orphans, fifo, cast>>

Targets == Sessions \cup Panes
\* "requested", "ended" and "error" need not be told apart.
Reasons == {"limit", "other"}
Row == {"none", "live", "interrupted"} \cup Reasons
Rows == [Ids -> Row]
NoRows == [r \in Ids |-> "none"]

\* Who updates the index: start() of a recording, stop(), a deletion, the sweep.
Sweeper == <<"sweep", None>>
Actors == ({"put", "patch", "remove"} \X Ids) \cup {Sweeper}
Idle == [st |-> "idle", new |-> NoRows, drop |-> {}, alone |-> TRUE]

TypeOK ==
    /\ up \in BOOLEAN /\ boots \in 0 .. MaxBoots /\ turns \in 0 .. MaxTurns /\ old \subseteq Ids
    /\ active \subseteq Ids
    /\ at \in [Ids -> {"idle", "checked", "cloning", "locking", "checking",
                       "piping", "putting", "running", "done"}]
    /\ target \in [Ids -> Targets \cup {None}]
    /\ stopping \in [Ids -> {"idle", "unpiping", "uncloning", "closing", "patching"}]
    /\ why \in [Ids -> Reasons \cup {"none"}]
    /\ writer \in [Ids -> {"none", "open"} \cup Reasons]
    /\ bridge \in [Ids -> {"none", "fresh", "ready", "dead"}]
    /\ reading \in [Ids -> BOOLEAN]
    /\ job \in [Actors -> [st: {"idle", "wait", "load", "loaded", "unlink"},
                           new: Rows, drop: SUBSET Ids, alone: BOOLEAN]]
    /\ orphans \subseteq Ids
    /\ there \subseteq Targets
    /\ clone \in [Ids -> BOOLEAN]
    /\ pipe \in [Panes -> Ids \cup {"none", "theirs"}]
    /\ rows \in Rows
    /\ fifo \in [Ids -> BOOLEAN] /\ cast \in [Ids -> BOOLEAN]
    /\ born \in Seq(Ids) /\ overtaken \subseteq Ids
    /\ overlap \in {"never", "before", "now"}

Init ==
    /\ up = FALSE /\ boots = 0 /\ turns = 0 /\ old = {} /\ active = {}
    /\ at = [r \in Ids |-> "idle"] /\ target = [r \in Ids |-> None]
    /\ stopping = [r \in Ids |-> "idle"] /\ why = [r \in Ids |-> "none"]
    /\ writer = [r \in Ids |-> "none"] /\ bridge = [r \in Ids |-> "none"]
    /\ reading = [r \in Ids |-> FALSE] /\ job = [a \in Actors |-> Idle]
    /\ orphans = {} /\ there = Targets
    /\ clone = [r \in Ids |-> FALSE] /\ pipe = [p \in Panes |-> "none"]
    /\ rows = NoRows
    /\ fifo = [r \in Ids |-> FALSE] /\ cast = [r \in Ids |-> FALSE]
    /\ born = <<>> /\ overtaken = {} /\ overlap = "never"

-----------------------------------------------------------------------------
(***************************************************************************)
(* stop().  It ends at once for a recording that is not active.            *)
(***************************************************************************)
\* A deletion, or something that goes wrong outside the process.
Turn == turns < MaxTurns /\ turns' = turns + 1 /\ UNCHANGED <<up, boots, old>>

InStart(r) == at[r] \notin {"idle", "running", "done"}

\* What a stop does before its first await: `active` is left, the poll timer
\* cleared, and a pty (with its clone) that exists by now is killed.
FirstHalt(r) ==
    IF target[r] \in Panes THEN "unpiping"
    ELSE IF bridge[r] # "none" THEN "uncloning" ELSE "closing"

Stop(R, reason) ==
    LET S == R \cap active IN
    /\ active' = active \ S
    /\ stopping' = [r \in Ids |-> IF r \in S THEN FirstHalt(r) ELSE stopping[r]]
    /\ why' = [r \in Ids |-> IF r \in S THEN reason ELSE why[r]]
    /\ overtaken' = overtaken \cup {r \in S : InStart(r)}

Killed(R) == [r \in Ids |-> IF r \in R \cap active /\ bridge[r] # "none"
                            THEN "dead" ELSE bridge[r]]

\* recording:stop, `mtmux record stop`: a recording that the index lists.
RequestStop(r) ==
    /\ up /\ rows[r] # "none" /\ r \in active
    /\ Stop({r}, "other") /\ bridge' = Killed({r})
    /\ UNCHANGED <<at, target, writer, reading, born, procVars, tmuxVars, indexVars,
                   orphans, fifo, cast>>

\* `mtmux record stop --all`, and the shutdown of the relay.
StopAll ==
    /\ up /\ active # {}
    /\ Stop(active, "other") /\ bridge' = Killed(active)
    /\ UNCHANGED <<at, target, writer, reading, born, procVars, tmuxVars, indexVars,
                   orphans, fifo, cast>>

\* The end of a stop, up to the reading of the index.  The writer keeps the
\* first reason it is given.
OwnReason(r) == why[r]                                  \* mutant of FinalReason
FinalReason(r) == IF writer[r] = "open" THEN why[r] ELSE writer[r]

Close(r) ==
    /\ why' = [why EXCEPT ![r] = FinalReason(r)]
    /\ writer' = [writer EXCEPT ![r] = IF @ = "open" THEN why[r] ELSE @]
    /\ stopping' = [stopping EXCEPT ![r] = "patching"]
    /\ job' = [job EXCEPT ![<<"patch", r>>].st = "load"]
    /\ UNCHANGED <<active, at, target, bridge, born, overtaken, procVars, there, rows, overlap,
                   orphans, cast>>

\* pipe-pane without a command ends whatever pipe the pane has.
LeavesFifo(r) == fifo' = fifo                           \* mutant of UnlinkFifo
UnlinkFifo(r) == fifo' = [fifo EXCEPT ![r] = FALSE]

Unpipe(r) ==
    /\ stopping[r] = "unpiping"
    /\ pipe' = [pipe EXCEPT ![target[r]] = "none"]
    /\ reading' = [reading EXCEPT ![r] = FALSE]
    /\ UnlinkFifo(r)
    /\ Close(r)
    /\ UNCHANGED clone

DestroyClone(r) == clone' = [clone EXCEPT ![r] = FALSE]

Unclone(r) ==
    /\ stopping[r] = "uncloning"
    /\ DestroyClone(r)
    /\ Close(r)
    /\ UNCHANGED <<reading, pipe, fifo>>

\* A session recording with no pty yet has nothing to wait for before this.
CloseAtOnce(r) ==
    /\ stopping[r] = "closing"
    /\ Close(r)
    /\ UNCHANGED <<reading, clone, pipe, fifo>>

-----------------------------------------------------------------------------
(***************************************************************************)
(* start().                                                                *)
(***************************************************************************)
ActiveFor(t) == \E r \in active : target[r] = t

Start(r, t) ==
    /\ up /\ at[r] = "idle"
    /\ ~ActiveFor(t)
    /\ at' = [at EXCEPT ![r] = "checked"] /\ target' = [target EXCEPT ![r] = t]
    /\ UNCHANGED <<active, writer, bridge, reading, born, stopVars, procVars, tmuxVars,
                   indexVars, orphans, fifo, cast>>

StartRefused(r) ==
    /\ at[r] = "checked" /\ target[r] \notin there
    /\ at' = [at EXCEPT ![r] = "done"]
    /\ UNCHANGED <<active, target, writer, bridge, reading, born, stopVars, procVars, tmuxVars,
                   indexVars, orphans, fifo, cast>>

\* The session exists and the cast is open: the recording is active.
Announce(r) ==
    /\ at[r] = "checked" /\ target[r] \in there
    /\ active' = active \cup {r}
    /\ at' = [at EXCEPT ![r] = IF target[r] \in Sessions THEN "cloning" ELSE "checking"]
    /\ writer' = [writer EXCEPT ![r] = "open"]
    /\ cast' = [cast EXCEPT ![r] = TRUE]
    /\ born' = Append(born, r)
    /\ UNCHANGED <<target, bridge, reading, stopVars, procVars, tmuxVars, indexVars, orphans,
                   fifo>>

\* The catch of start().  index.remove finds no row, so the cast stays.
Fail(r) ==
    /\ active' = active \ {r}
    /\ writer' = [writer EXCEPT ![r] = IF @ = "open" THEN "other" ELSE @]
    /\ at' = [at EXCEPT ![r] = "done"]
    /\ UNCHANGED <<target, bridge, born, stopVars, procVars, there, pipe, indexVars, orphans,
                   cast>>

\* The clone is made, and then locked down option by option.
MakeClone(r) ==
    /\ at[r] = "cloning" /\ target[r] \in there
    /\ clone' = [clone EXCEPT ![r] = TRUE]
    /\ at' = [at EXCEPT ![r] = "locking"]
    /\ UNCHANGED <<active, target, writer, bridge, reading, born, stopVars, procVars, there,
                   pipe, indexVars, orphans, fifo, cast>>

\* It is locked down and its pty spawned; start() goes on to the index.
Attach(r) ==
    /\ at[r] = "locking" /\ clone[r]
    /\ bridge' = [bridge EXCEPT ![r] = "fresh"]
    /\ at' = [at EXCEPT ![r] = "putting"]
    /\ job' = [job EXCEPT ![<<"put", r>>].st = "load"]
    /\ UNCHANGED <<active, target, writer, reading, born, stopVars, procVars, tmuxVars, rows,
                   overlap, orphans, fifo, cast>>

\* There is no such session by now; or an option of the clone cannot be set,
\* or the pty not be spawned, and the clone is destroyed.
AttachFails(r) ==
    /\ at[r] \in {"cloning", "locking"}
    /\ DestroyClone(r)
    /\ Fail(r)
    /\ UNCHANGED <<reading, fifo>>

\* A pane somebody pipes already is left alone; mkfifo may fail.
MakeFifo(r) ==
    /\ at[r] = "checking" /\ target[r] \in there /\ pipe[target[r]] = "none"
    /\ fifo' = [fifo EXCEPT ![r] = TRUE] /\ reading' = [reading EXCEPT ![r] = TRUE]
    /\ at' = [at EXCEPT ![r] = "piping"]
    /\ UNCHANGED <<active, target, writer, bridge, born, stopVars, procVars, tmuxVars,
                   indexVars, orphans, cast>>

NoFifo(r) ==
    /\ at[r] = "checking"
    /\ Fail(r)
    /\ UNCHANGED <<reading, clone, fifo>>

\* pipe-pane -o: a pane that has a pipe by now loses it and gets no other.
PipePane(r) ==
    /\ at[r] = "piping" /\ target[r] \in there
    /\ pipe' = [pipe EXCEPT ![target[r]] = IF @ = "none" THEN r ELSE "none"]
    /\ at' = [at EXCEPT ![r] = "putting"]
    /\ job' = [job EXCEPT ![<<"put", r>>].st = "load"]
    /\ UNCHANGED <<active, target, writer, bridge, reading, born, stopVars, procVars, there,
                   clone, rows, overlap, orphans, fifo, cast>>

PipeFails(r) ==
    /\ at[r] = "piping" /\ target[r] \notin there
    /\ reading' = [reading EXCEPT ![r] = FALSE]
    /\ UnlinkFifo(r)
    /\ Fail(r)
    /\ UNCHANGED clone

-----------------------------------------------------------------------------
(***************************************************************************)
(* What reaches a running recording.                                       *)
(***************************************************************************)
\* The first output, or 50 ms.
Ready(r) ==
    /\ bridge[r] = "fresh"
    /\ bridge' = [bridge EXCEPT ![r] = "ready"]
    /\ UNCHANGED <<active, at, target, writer, reading, born, stopVars, procVars, tmuxVars,
                   indexVars, orphans, fifo, cast>>

\* Output, or the poll's resize, that crosses the limit: the writer closes
\* itself, and the handler stops the recording if it is still active.
\* A pty that was killed may still hand over what it had until its clone is gone.
Feeds(r) == /\ bridge[r] = "ready" \/ reading[r] \/ stopping[r] = "uncloning"
            /\ stopping[r] # "closing"

HitLimit(r) ==
    /\ Feeds(r) /\ writer[r] = "open"
    /\ writer' = [writer EXCEPT ![r] = "limit"]
    /\ Stop({r}, "limit") /\ bridge' = Killed({r})
    /\ UNCHANGED <<at, target, reading, born, procVars, tmuxVars, indexVars, orphans, fifo,
                   cast>>

\* The clone is gone and its pty exits.  Before onReady that is a spawn
\* error, and the recorder listens for none.
PtyExits(r) ==
    /\ bridge[r] \in {"fresh", "ready"} /\ ~clone[r]
    /\ IF bridge[r] = "ready"
       THEN Stop({r}, "other")
       ELSE UNCHANGED <<active, stopVars>>
    /\ bridge' = [bridge EXCEPT ![r] = "dead"]
    /\ UNCHANGED <<at, target, writer, reading, born, procVars, tmuxVars, indexVars, orphans,
                   fifo, cast>>

FifoError(r) ==
    /\ Turn
    /\ reading[r] /\ r \in active
    /\ Stop({r}, "other")
    /\ reading' = [reading EXCEPT ![r] = FALSE]
    /\ UNCHANGED <<at, target, writer, bridge, born, tmuxVars, indexVars, orphans, fifo, cast>>

\* The session or pane ends, and with it everything tmux kept for it.  (One
\* that nothing records is of no interest.)
Wanted(t) == \E r \in Ids : target[r] = t /\ (InStart(r) \/ r \in active \/ clone[r])

TargetEnds(t) ==
    /\ Turn
    /\ t \in there /\ Wanted(t) /\ there' = there \ {t}
    /\ clone' = [r \in Ids |-> clone[r] /\ target[r] # t]
    /\ pipe' = [p \in Panes |-> IF p = t THEN "none" ELSE pipe[p]]
    /\ UNCHANGED <<startVars, stopVars, indexVars, orphans, fifo, cast>>

\* Somebody pipes a pane of their own accord, in place of what it had.
TheyPipe(p) ==
    /\ Turn
    /\ p \in there /\ Wanted(p) /\ pipe[p] # "theirs"
    /\ pipe' = [pipe EXCEPT ![p] = "theirs"]
    /\ UNCHANGED <<startVars, stopVars, there, clone, indexVars, orphans, fifo, cast>>

\* Nobody reads the FIFO any more: the shell at its other end dies.
PipeBreaks(p) ==
    /\ pipe[p] \in Ids /\ ~reading[pipe[p]] /\ fifo[pipe[p]]
    /\ pipe' = [pipe EXCEPT ![p] = "none"]
    /\ UNCHANGED <<startVars, stopVars, procVars, there, clone, indexVars, orphans, fifo, cast>>

-----------------------------------------------------------------------------
(***************************************************************************)
(* The index.                                                              *)
(***************************************************************************)
\* recording:delete stops the recording first; `mtmux record delete` does not.
Delete(r, first) ==
    /\ Turn
    /\ up /\ rows[r] # "none" /\ job[<<"remove", r>>].st = "idle"
    /\ IF first /\ r \in active
       THEN /\ Stop({r}, "other") /\ bridge' = Killed({r})
            /\ job' = [job EXCEPT ![<<"remove", r>>].st = "wait"]
       ELSE /\ job' = [job EXCEPT ![<<"remove", r>>].st = "load"]
            /\ UNCHANGED <<active, bridge, stopVars>>
    /\ UNCHANGED <<at, target, writer, reading, born, tmuxVars, rows, overlap,
                   orphans, fifo, cast>>

Weight(row) == IF row \in {"none", "live", "interrupted"} THEN 0 ELSE 1

\* sweepRecordings: what a dead process left open is closed, then the newest
\* rows are kept as the budget allows, and one in any case.
LeftOpen(row) == row                                    \* mutant of Interrupted
Interrupted(row) == IF row = "live" THEN "interrupted" ELSE row

Kept(file) ==
    LET Keep(acc, r) ==
          IF file[r] = "none" \/ (acc.total + Weight(file[r]) > MaxTotal /\ acc.kept # {})
          THEN acc
          ELSE [total |-> acc.total + Weight(file[r]), kept |-> acc.kept \cup {r}]
    IN  FoldLeft(Keep, [total |-> 0, kept |-> {}], Reverse(born)).kept

Swept(file) == [r \in Ids |-> IF r \in Kept(file) THEN Interrupted(file[r]) ELSE "none"]

Updated(a) ==
    CASE a = Sweeper       -> Swept(rows)
      [] a[1] = "put"      -> [rows EXCEPT ![a[2]] = "live"]
      [] a[1] = "patch"    -> [rows EXCEPT ![a[2]] = why[a[2]]]
      [] a[1] = "remove"   -> [rows EXCEPT ![a[2]] = "none"]

\* A file to unlink once the row is gone.
Dropped(a) == {r \in Ids : a[1] \in {"remove", "sweep"} /\ rows[r] # "none"
                                                        /\ Updated(a)[r] = "none"}

NothingToDo(a) ==
    IF a = Sweeper THEN rows = NoRows ELSE a[1] # "put" /\ rows[a[2]] = "none"

\* What follows an update that is over, or that threw.
Over(a, ok) ==
    /\ at' = IF a[1] # "put" THEN at
             ELSE [at EXCEPT ![a[2]] = IF ok THEN "running" ELSE "done"]
    /\ stopping' = IF a[1] # "patch" THEN stopping ELSE [stopping EXCEPT ![a[2]] = "idle"]
    /\ why' = IF a[1] # "patch" THEN why ELSE [why EXCEPT ![a[2]] = "none"]

\* The deletion that waits for a stop goes on when the stop is over.
Resumed(a, ok, jobs) ==
    IF a[1] = "patch" /\ jobs[<<"remove", a[2]>>].st = "wait"
    THEN [jobs EXCEPT ![<<"remove", a[2]>>].st = IF ok THEN "load" ELSE "idle"]
    ELSE jobs

Busy == {a \in Actors : job[a].st = "loaded"}

\* An update begins when it reads the index: those in flight then overlap it.
Begun(a) ==
    [b \in Actors |->
       IF b = a THEN [st |-> "loaded", new |-> Updated(a), drop |-> Dropped(a),
                      alone |-> Busy = {}]
       ELSE IF b \in Busy THEN [job[b] EXCEPT !.alone = FALSE] ELSE job[b]]

\* Bound: updates overlap once.
MayOverlap == overlap = "never"

Load(a) ==
    /\ job[a].st = "load" /\ (Busy = {} \/ MayOverlap)
    /\ IF NothingToDo(a)
       THEN /\ Over(a, TRUE)
            /\ job' = Resumed(a, TRUE, [job EXCEPT ![a] = Idle])
            /\ UNCHANGED overlap
       ELSE /\ job' = Begun(a)
            /\ overlap' = IF Busy = {} THEN overlap ELSE "now"
            /\ UNCHANGED <<at, stopping, why>>
    /\ UNCHANGED <<active, target, writer, bridge, reading, born, overtaken, procVars,
                   tmuxVars, rows, orphans, fifo, cast>>

\* writeFile, chmod and rename.  Updates that overlap write one temporary
\* file: what is renamed may be another's, or be truncated and read as empty;
\* and if another has renamed it already this one throws, when what it wrote
\* may have gone to the index itself.
Outcome(a) ==
    IF job[a].alone THEN {<<TRUE, job[a].new>>}
    ELSE ({TRUE} \X ({job[a].new, NoRows} \cup {job[b].new : b \in Busy}))
           \cup ({FALSE} \X {job[a].new, NoRows, rows})

Save(a) ==
    /\ job[a].st = "loaded"
    /\ \E out \in Outcome(a) :
         /\ rows' = out[2]
         /\ Over(a, out[1])
         /\ job' = Resumed(a, out[1],
                      [job EXCEPT ![a] = IF out[1] /\ @.drop # {}
                                         THEN [@ EXCEPT !.st = "unlink"] ELSE Idle])
    /\ UNCHANGED <<active, target, writer, bridge, reading, born, overtaken, procVars,
                   tmuxVars, overlap, orphans, fifo, cast>>

Unlink(a) ==
    /\ job[a].st = "unlink"
    /\ cast' = [r \in Ids |-> cast[r] /\ r \notin job[a].drop]
    /\ job' = [job EXCEPT ![a] = Idle]
    /\ UNCHANGED <<startVars, stopVars, procVars, tmuxVars, rows, overlap, orphans, fifo>>

-----------------------------------------------------------------------------
(***************************************************************************)
(* The process ends, at any point, and another is started.                 *)
(***************************************************************************)
Die ==
    /\ up /\ boots < MaxBoots /\ up' = FALSE
    /\ active' = {} /\ old' = {r \in Ids : at[r] # "idle"}
    /\ at' = [r \in Ids |-> IF at[r] = "idle" THEN "idle" ELSE "done"]
    /\ stopping' = [r \in Ids |-> "idle"]
    /\ bridge' = [r \in Ids |-> "none"] /\ why' = [r \in Ids |-> "none"]
    /\ overtaken' = {}
    /\ reading' = [r \in Ids |-> FALSE]
    /\ job' = [a \in Actors |-> Idle]
    /\ orphans' = {}
    /\ UNCHANGED <<target, writer, born, boots, turns, tmuxVars, rows, overlap, fifo, cast>>

CloneSessions == {r \in Ids : clone[r]}

\* Both sweeps are started and neither is waited for.  What they read is asked
\* for before anything is served.
Boot ==
    /\ ~up /\ boots < MaxBoots
    /\ up' = TRUE /\ boots' = boots + 1
    /\ orphans' = CloneSessions
    /\ job' = IF NothingToDo(Sweeper) THEN job ELSE Begun(Sweeper)
    /\ overlap' = IF overlap = "never" THEN "never" ELSE "before"
    /\ UNCHANGED <<startVars, stopVars, turns, old, tmuxVars, rows, fifo, cast>>

SweepClone ==
    /\ \E r \in orphans :
         /\ orphans' = orphans \ {r}
         /\ DestroyClone(r)
    /\ UNCHANGED <<startVars, stopVars, procVars, there, pipe, indexVars, fifo, cast>>

-----------------------------------------------------------------------------
StartStep(r) ==
    \/ StartRefused(r) \/ Announce(r)
    \/ MakeClone(r) \/ Attach(r) \/ AttachFails(r)
    \/ MakeFifo(r) \/ NoFifo(r) \/ PipePane(r) \/ PipeFails(r)

StopStep(r) == Unpipe(r) \/ Unclone(r) \/ CloseAtOnce(r)

IndexStep(a) == Load(a) \/ Save(a) \/ Unlink(a)

Event(r) == Ready(r) \/ HitLimit(r) \/ PtyExits(r) \/ FifoError(r)

Request(r) ==
    \/ \E t \in Targets : Start(r, t)
    \/ RequestStop(r)
    \/ \E first \in BOOLEAN : Delete(r, first)

Next ==
    \/ \E r \in Ids : Request(r) \/ StartStep(r) \/ StopStep(r) \/ Event(r)
    \/ StopAll
    \/ \E a \in Actors : IndexStep(a)
    \/ \E t \in Targets : TargetEnds(t)
    \/ \E p \in Panes : TheyPipe(p) \/ PipeBreaks(p)
    \/ Die \/ Boot \/ SweepClone

Spec == Init /\ [][Next]_vars

-----------------------------------------------------------------------------
(***************************************************************************)
(* Properties.                                                             *)
(***************************************************************************)
\* A recording that hit its limit is listed as that and no other one is,
\* whichever stop was first and however far it had come when the limit was
\* crossed (recorder.ts, "a limit stop is never relabelled").
LimitKept ==
    \A r \in Ids : rows[r] \in Reasons => (rows[r] = "limit" <=> writer[r] = "limit")

Holds(r) ==
    \/ clone[r] \/ bridge[r] \in {"fresh", "ready"}
    \/ reading[r] \/ fifo[r] \/ \E p \in Panes : pipe[p] = r

\* A recording that is over, or that failed to start at whatever step, has no
\* clone, pty, FIFO or pipe left.  The one exception is a stop that overtook
\* the start: it frees what the start had by then.
NothingLeftBehind ==
    \A r \in Ids :
      /\ up /\ r \notin active \cup overtaken \cup old
      /\ ~InStart(r) /\ stopping[r] \notin {"unpiping", "uncloning"}
      => ~Holds(r)

SweepDone == job[Sweeper].st \in {"idle", "unlink"}

\* Once the sweep at boot is through, a row that claims to be recording is one
\* of this process and is, or is being closed: wherever a crash fell, between
\* any two steps of a start, a stop or an update of the index.  Two updates
\* that overlap may lose one of them, and a stop that overtakes its start
\* finds no row to close.
LiveMeansLive ==
    up /\ SweepDone /\ overlap # "now" =>
      \A r \in Ids : rows[r] = "live" =>
        r \in active \cup overtaken \/ stopping[r] # "idle"

\* And no clone of a process that is gone is left on the tmux server.
NoOrphans == up /\ orphans = {} => \A r \in old : ~clone[r]

\* A recording that is listed can be fetched: the row goes before the cast,
\* also if the process ends between the two.
ListedIsThere == overlap = "never" => \A r \in Ids : rows[r] # "none" => cast[r]

\* What the index says of a recording is true: why it ended, and that its cast
\* can be fetched (recorder.ts:439-444, recordings-index.ts:153-166).
IndexTellsTruth == TypeOK /\ LimitKept /\ ListedIsThere

\* What earlier processes left fits the budget after the sweep, or is one.
WithinBudget ==
    up /\ SweepDone /\ overlap # "now" =>
      LET kept == {r \in old : rows[r] # "none"} IN
      Cardinality(kept) <= 1 \/ Cardinality({r \in kept : Weight(rows[r]) = 1}) <= MaxTotal

\* After a crash, wherever it fell, the sweeps of the next process put rows,
\* clones and the budget right (recordings-index.ts:208-265).
SweptClean == LiveMeansLive /\ NoOrphans /\ WithinBudget

=============================================================================

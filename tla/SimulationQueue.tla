--------------------------- MODULE SimulationQueue ---------------------------
(***************************************************************************)
(* Batches of simulated matches: simulation/SimulationManager.ts, the run  *)
(* of a batch in simulation/SimulationRunner.ts, and the route that        *)
(* deletes one.  An action is a stretch of code up to the next await.      *)
(*                                                                         *)
(*   queue           the batches that wait                                 *)
(*   runners         the batches the manager knows, oldest first; a batch  *)
(*                   that is deleted while it runs goes on without it      *)
(*   run[b]          b's runner: between new and over it is queued, plays  *)
(*                   a game or pauses between two (both are "running" in   *)
(*                   the code); left counts the games to play, the current *)
(*                   one included; cancelled has been asked for            *)
(*   disk[b]         b's directory: "none", "config" (batch_config.json)   *)
(*                   or "summary" (batch_summary.json besides)             *)
(*   index           diskIndex, what a scan has found; Nothing when there  *)
(*                   is none or it is older than DISK_INDEX_TTL_MS         *)
(*   scan            diskScan: what it has found, and whether              *)
(*                   diskGeneration is still its own; auxiliary: what was  *)
(*                   there when it began and it has not read in full       *)
(*   misread         auxiliary: the batches that the scan in index could   *)
(*                   not read, or whose summary it could not               *)
(*   deletes[b]      deleteBatch awaiting the index, or the removal; held  *)
(*                   are those whose copy of the index is the cached one   *)
(*   stranded        auxiliary: the runner of a queued batch could not be  *)
(*                   made                                                  *)
(*                                                                         *)
(* Left out: what a game does (MatchSession has the rules), its log and    *)
(* replay, the broadcasts, and pages of the history.  What fails before    *)
(* the first await of run() fails here in a step of its own.               *)
(***************************************************************************)
EXTENDS Naturals, FiniteSets, Sequences, Functions

CONSTANTS
  Batch, Nothing,
  MaxQueue,         \* MAX_QUEUE_SIZE
  Keep,             \* how many finished batches cleanup() keeps
  MaxGames,         \* bound on the games of a batch
  MaxDeletes        \* bound on deletions under way at a time

ASSUME SimulationAssumption ==
  MaxQueue \in Nat /\ Keep \in Nat /\ MaxGames \in Nat \ {0} /\ MaxDeletes \in Nat

VARIABLES queue, runners, run, disk, index, misread, scan, deletes, held, stranded

files == <<disk, index, misread, scan, deletes, held>>
simVars == <<queue, runners, run, files, stranded>>

OnDisk == {"none", "config", "summary"}

Run == [at: {"new", "queued", "playing", "pausing", "over"},
        left: 0 .. MaxGames, cancelled: BOOLEAN]

Idle(where) == [at |-> where, left |-> 0, cancelled |-> FALSE]

Scan == [found: [Batch -> OnDisk], fresh: BOOLEAN,
         unread: SUBSET Batch]

SimTypeOK ==
  /\ queue \in Seq(Batch) /\ runners \in Seq(Batch)
  /\ run \in [Batch -> Run]
  /\ disk \in [Batch -> OnDisk]
  /\ index \in [Batch -> OnDisk] \cup {Nothing} /\ misread \subseteq Batch
  /\ scan \in Scan \cup {Nothing}
  /\ deletes \in [Batch -> {"none", "indexing", "removing"}] /\ held \subseteq Batch
  /\ stranded \in BOOLEAN

SimInit ==
  /\ queue = <<>> /\ runners = <<>>
  /\ run = [b \in Batch |-> Idle("new")]
  /\ disk = [b \in Batch |-> "none"] /\ index = Nothing /\ misread = {} /\ scan = Nothing
  /\ deletes = [b \in Batch |-> "none"] /\ held = {}
  /\ stranded = FALSE

\* isActive: the batches that run, according to r.
Running(r) == {b \in Batch : r[b].at \in {"playing", "pausing"}}

\* Mutant: hasActive looks at the oldest runner only.
ActiveOldest(known, r) == known # <<>> /\ Head(known) \in Running(r)

\* hasActive: what the manager goes by are the runners it knows.
Active(known, r) == Range(known) \cap Running(r) # {}

-----------------------------------------------------------------------------
(* Starting a batch.                                                       *)

\* The constructor writes the directory and the configuration.
Launched(b, r, dk) ==
  /\ runners' = Append(runners, b)
  /\ \E games \in 1 .. MaxGames :
       run' = [r EXCEPT ![b] = [at |-> "playing", left |-> games, cancelled |-> FALSE]]
  /\ disk' = [dk EXCEPT ![b] = "config"]

StartNow(b) ==
  /\ run[b].at = "new"
  /\ ~Active(runners, run)
  /\ Launched(b, run, disk)
  /\ UNCHANGED <<queue, index, misread, scan, deletes, held, stranded>>

\* The directory cannot be written: the caller hears of it.
StartFails(b) ==
  /\ run[b].at = "new"
  /\ ~Active(runners, run)
  /\ run' = [run EXCEPT ![b] = Idle("over")]
  /\ UNCHANGED <<queue, runners, files, stranded>>

\* A full queue refuses the batch and nothing changes.
Enqueue(b) ==
  /\ run[b].at = "new"
  /\ Active(runners, run)
  /\ Len(queue) < MaxQueue
  /\ queue' = Append(queue, b)
  /\ run' = [run EXCEPT ![b] = Idle("queued")]
  /\ UNCHANGED <<runners, files, stranded>>

\* processQueue, when r and dk are what a batch leaves that has ended: the
\* next batch leaves the queue before its runner is made, and an exception
\* there ends the handlers of the batch that has just finished.
ProcessQueue(r, dk) ==
  \/ /\ queue = <<>> \/ Active(runners, r)
     /\ run' = r /\ disk' = dk
     /\ UNCHANGED <<queue, runners, stranded>>
  \/ /\ queue # <<>> /\ ~Active(runners, r)
     /\ queue' = Tail(queue)
     /\ \/ Launched(Head(queue), r, dk) /\ UNCHANGED stranded
        \/ /\ run' = [r EXCEPT ![Head(queue)] = Idle("over")]
           /\ disk' = dk /\ stranded' = TRUE
           /\ UNCHANGED runners

-----------------------------------------------------------------------------
(* The run of a batch.                                                     *)

\* Mutant: only the cached index is dropped, without a generation.
InvalidatedIndex == index' = Nothing /\ misread' = {} /\ held' = {} /\ UNCHANGED scan

\* invalidateDiskIndex: a scan under way will not be kept either.
Invalidated ==
  /\ index' = Nothing /\ misread' = {} /\ held' = {}
  /\ scan' = IF scan = Nothing THEN Nothing ELSE [scan EXCEPT !.fresh = FALSE]

\* The summary of b is written, unless that fails or the directory is gone.
Summed(b) ==
  {disk} \cup (IF disk[b] = "none" THEN {} ELSE {[disk EXCEPT ![b] = "summary"]})

\* Mutant: a batch that was cancelled ends without "completed".
EndQuiet(b) ==
  \E dk \in Summed(b), r \in {[run EXCEPT ![b] = Idle("over")]} :
    IF run[b].cancelled
    THEN run' = r /\ disk' = dk /\ UNCHANGED <<queue, runners, index, misread, scan, deletes, held, stranded>>
    ELSE ProcessQueue(r, dk) /\ Invalidated /\ UNCHANGED deletes

\* The end of run(), completed, cancelled or in error: the summary, then
\* "completed" is emitted.
End(b) ==
  /\ \E dk \in Summed(b) : ProcessQueue([run EXCEPT ![b] = Idle("over")], dk)
  /\ Invalidated
  /\ UNCHANGED deletes

\* Mutant: the next game does not count as another one.
GameOverAgain(b) ==
  /\ run[b].at = "playing"
  /\ \/ (run[b].left = 1 \/ run[b].cancelled) /\ End(b)
     \/ /\ run[b].left > 1 /\ ~run[b].cancelled
        /\ run' = [run EXCEPT ![b].at = "pausing"]
        /\ UNCHANGED <<queue, runners, files, stranded>>

\* A game is over: the last one ends the batch; before another one there is a
\* pause, unless the batch has been cancelled.
GameOver(b) ==
  /\ run[b].at = "playing"
  /\ \/ (run[b].left = 1 \/ run[b].cancelled) /\ End(b)
     \/ /\ run[b].left > 1 /\ ~run[b].cancelled
        /\ run' = [run EXCEPT ![b].left = @ - 1, ![b].at = "pausing"]
        /\ UNCHANGED <<queue, runners, files, stranded>>

\* The pause is over: cancelled meanwhile, the batch ends.
PauseOver(b) ==
  /\ run[b].at = "pausing"
  /\ \/ run[b].cancelled /\ End(b)
     \/ /\ ~run[b].cancelled
        /\ run' = [run EXCEPT ![b].at = "playing"]
        /\ UNCHANGED <<queue, runners, files, stranded>>

\* An exception in a game ends the batch.
GameFails(b) ==
  /\ run[b].at = "playing"
  /\ End(b)

-----------------------------------------------------------------------------
(* Cancelling, deleting, forgetting.                                       *)

\* findIndex and splice, or the delete of a Map: b is in s once at most.
Without(s, b) ==
  IF b \in Range(s)
  THEN LET i == CHOOSE i \in DOMAIN s : s[i] = b IN SubSeq(s, 1, i - 1) \o SubSeq(s, i + 1, Len(s))
  ELSE s

\* cancelBatch: a queued batch goes; a known one that runs is told to stop.
Cancelled(b) ==
  /\ queue' = Without(queue, b)
  /\ run' = IF run[b].at = "queued" THEN [run EXCEPT ![b] = Idle("over")]
            ELSE IF b \in Range(runners) \cap Running(run)
            THEN [run EXCEPT ![b].cancelled = TRUE] ELSE run

Cancel(b) ==
  /\ b \in Range(queue) \cup (Range(runners) \cap Running(run))
  /\ Cancelled(b)
  /\ UNCHANGED <<runners, files, stranded>>

\* getDiskIndex without a cached index: joins the scan or begins one.
Scanning ==
  scan' = IF scan # Nothing THEN scan
          ELSE [found |-> [b \in Batch |-> "none"], fresh |-> TRUE,
                unread |-> {b \in Batch : disk[b] # "none"}]

\* What deleteBatch does once it has the index.
Looked(idx, b) == IF idx[b] = "none" THEN "none" ELSE "removing"

\* The route cancels, then deletes: the batch is forgotten at once.
Delete(b) ==
  /\ run[b].at # "new" /\ deletes[b] = "none"
  /\ Cardinality({c \in Batch : deletes[c] # "none"}) < MaxDeletes
  /\ Cancelled(b)
  /\ runners' = Without(runners, b)
  /\ IF index # Nothing
     THEN /\ deletes' = [deletes EXCEPT ![b] = Looked(index, b)]
          /\ held' = held \cup {c \in {b} : Looked(index, b) = "removing"}
          /\ UNCHANGED scan
     ELSE /\ deletes' = [deletes EXCEPT ![b] = "indexing"]
          /\ Scanning
          /\ UNCHANGED held
  /\ UNCHANGED <<disk, index, misread, stranded>>

Removed(b) ==
  /\ deletes[b] = "removing"
  /\ deletes' = [deletes EXCEPT ![b] = "none"]
  /\ held' = held \ {b}
  /\ \/ /\ disk' = [disk EXCEPT ![b] = "none"]
        /\ index' = IF b \in held THEN [index EXCEPT ![b] = "none"] ELSE index
     \/ UNCHANGED <<disk, index>>
  /\ UNCHANGED <<queue, runners, run, misread, scan, stranded>>

\* cleanup keeps the youngest of the finished batches, and the order.
Cleanup ==
  LET finished == {i \in DOMAIN runners : runners[i] \notin Running(run)}
      old == {i \in finished : Cardinality({j \in finished : j > i}) >= Keep}
  IN /\ old # {}
     /\ \E at \in [1 .. Len(runners) - Cardinality(old) -> DOMAIN runners \ old] :
          /\ \A i, j \in DOMAIN at : i < j => at[i] < at[j]
          /\ runners' = [i \in DOMAIN at |-> runners[at[i]]]
     /\ UNCHANGED <<queue, run, files, stranded>>

-----------------------------------------------------------------------------
(* The index of what is on disk.                                           *)

\* A page of the history, the results of a batch or a replay is asked for.
Look ==
  /\ index = Nothing /\ scan = Nothing
  /\ Scanning
  /\ UNCHANGED <<queue, runners, run, disk, index, misread, deletes, held, stranded>>

\* readDiskBatch and readSummary: a batch is found whose configuration can be
\* read, and a summary that cannot be is taken for one that is not there.  The
\* directory may be removed between the two; one that cannot be listed, or
\* whose configuration cannot be read, is left out, and the scan goes on.
ScanReads(b) ==
  /\ scan # Nothing
  /\ scan.found[b] = "none"
  /\ disk[b] # "none" \/ b \in scan.unread
  /\ \E found \in {"config"} \cup ({disk[b]} \cap {"summary"}) :
       scan' = [scan EXCEPT !.found[b] = found,
                            !.unread = @ \ {c \in {b} : found = disk[b]}]
  /\ UNCHANGED <<queue, runners, run, disk, index, misread, deletes, held, stranded>>

\* What was read is kept if nothing ended meanwhile; those who wait for it get
\* it in any case.
ScanDone ==
  /\ scan # Nothing
  /\ scan' = Nothing
  /\ IF scan.fresh
     THEN index' = scan.found /\ misread' = scan.unread
     ELSE UNCHANGED <<index, misread>>
  /\ deletes' = [b \in Batch |-> IF deletes[b] = "indexing"
                                 THEN Looked(scan.found, b) ELSE deletes[b]]
  /\ held' = {b \in Batch : scan.fresh /\ deletes[b] = "indexing" /\ deletes'[b] = "removing"}
  /\ UNCHANGED <<queue, runners, run, disk, stranded>>

\* The cached index gets too old.
Expire ==
  /\ index # Nothing
  /\ index' = Nothing /\ misread' = {} /\ held' = {}
  /\ UNCHANGED <<queue, runners, run, disk, scan, deletes, stranded>>

-----------------------------------------------------------------------------
Play(b) == GameOver(b) \/ PauseOver(b) \/ GameFails(b)

SimNext ==
  \/ \E b \in Batch :
       \/ StartNow(b) \/ StartFails(b) \/ Enqueue(b)
       \/ GameOver(b) \/ PauseOver(b) \/ GameFails(b)
       \/ Cancel(b) \/ Delete(b) \/ Removed(b)
       \/ ScanReads(b)
  \/ Cleanup \/ Look \/ ScanDone \/ Expire

SimSpec == SimInit /\ [][SimNext]_simVars

\* A game ends: fast ones run from the event loop, the others on an interval,
\* and either stops when the match is over or the batch is cancelled.
SimFairSpec == SimSpec /\ \A b \in Batch : WF_simVars(Play(b))
-----------------------------------------------------------------------------
(* Properties.                                                             *)

\* Of the batches the manager knows at most one runs, through every end,
\* failure, cancellation and deletion (hasActive, startBatch and processQueue).
OneKnownRuns == Cardinality(Running(run) \cap Range(runners)) <= 1

\* docs/admin-guide.md: "One batch runs at a time".
OneBatchRuns == Cardinality(Running(run)) <= 1

\* Somebody will serve the queue: while batches wait, one runs, known or not,
\* whose end will call processQueue.  Only a batch of the queue whose
\* directory could not be written leaves the others without.
QueueIsServed == queue # <<>> => Running(run) # {} \/ stranded

\* The cached index is never behind the end of a batch: what has its summary
\* on disk is not listed as unfinished or missing, whenever the scan read its
\* directory and whoever deleted others meanwhile (getDiskIndex).  Only a read
\* that failed can make it so, until the index expires.
IndexKnowsEnds ==
  index # Nothing => \A b \in Batch : disk[b] = "summary" => index[b] = "summary" \/ b \in misread

\* A batch that waits starts, goes or fails, whatever becomes of those before
\* it, if no runner from the queue has failed to be made.
QueueMoves == \A b \in Batch : run[b].at = "queued" ~> run[b].at # "queued" \/ stranded
=============================================================================

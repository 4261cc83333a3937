------------------------------ MODULE Metrics -------------------------------
(***************************************************************************)
(* The management server's metrics and the end of its life: MetricsCol-    *)
(* lector (management/metrics.py), write_store (state.py) and the lifespan *)
(* of create_management_app (app.py).                                      *)
(*                                                                         *)
(* Every request is counted, in total and in a bucket of its five minutes. *)
(* A task flushes both every so often, to two files, and the lifespan does *)
(* at its end, before it shuts the process manager down.  A flush awaits   *)
(* nothing between its writes, so only a crash or a failed write can come  *)
(* between them; each write replaces its file by a rename.                 *)
(*                                                                         *)
(* A slot is a bucket's timestamp; latencies and sessions are left out.    *)
(***************************************************************************)
EXTENDS Naturals, Sequences, FiniteSets

CONSTANTS
  MaxBuckets, \* MAX_BUCKETS
  MaxCounted, \* bound: requests counted
  MaxSlot,    \* bound: the time
  MaxLives    \* bound: starts of the server

ASSUME MetricsAssumption ==
  MaxBuckets \in Nat \ {0} /\ MaxCounted \in Nat /\ MaxSlot \in Nat /\ MaxLives \in Nat

VARIABLES
  totals, \* [calls, errors]: total_calls, total_errors
  series, \* timeseries: a sequence of [slot, calls, errors]
  disk,   \* [totals, series]: the two files
  slot,   \* the time
  life,   \* "up", "ending", "stopped", "broken", "down"
  loop,   \* flush_loop: "runs", "failed", "cancelled"
  \* history
  lives,  \* starts of the server
  ever,   \* requests counted ever
  aged,   \* [mem, disk]: those whose bucket was dropped for its age
  torn,   \* a flush has come to its first file only
  back    \* the wall clock has been set back

metricsVars ==
  <<totals, series, disk, slot, life, loop, lives, ever, aged, torn, back>>

Counting == [calls : 0..MaxCounted, errors : 0..MaxCounted]
Buckets == [slot : 0..MaxSlot, calls : 0..MaxCounted, errors : 0..MaxCounted]
None0 == [calls |-> 0, errors |-> 0]

MetricsTypeOK ==
  /\ totals \in Counting /\ series \in Seq(Buckets)
  /\ disk \in [totals : Counting, series : Seq(Buckets)]
  /\ Len(series) <= MaxBuckets /\ Len(disk.series) <= MaxBuckets
  /\ slot \in 0..MaxSlot
  /\ life \in {"up", "ending", "stopped", "broken", "down"}
  /\ loop \in {"runs", "failed", "cancelled"}
  /\ ever \in 0..MaxCounted /\ torn \in BOOLEAN /\ back \in BOOLEAN

MetricsInit ==
  /\ totals = None0 /\ series = <<>>
  /\ disk = [totals |-> None0, series |-> <<>>]
  /\ slot = 0 /\ life = "up" /\ loop = "runs"
  /\ lives = 1 /\ ever = 0 /\ aged = [mem |-> 0, disk |-> 0] /\ torn = FALSE
  /\ back = FALSE

\* The calls of a series: a call is a bucket and a number in it.
CallsOf(buckets) ==
  Cardinality({c \in (DOMAIN buckets) \X (1..MaxCounted) : c[2] <= buckets[c[1]].calls})

-----------------------------------------------------------------------------
\* The wall clock, which may be set back as well.
SlotPasses ==
  \E t \in (0..MaxSlot) \ {slot} :
    /\ slot' = t
    /\ back' = (back \/ t < slot)
    /\ UNCHANGED <<totals, series, disk, life, loop, lives, ever, aged, torn>>

\* _current_bucket: the last bucket if it is of this slot, or a new one, for
\* which the oldest may have to go.
Current ==
  IF series # <<>> /\ series[Len(series)].slot = slot THEN series
  ELSE LET longer == Append(series, [slot |-> slot, calls |-> 0, errors |-> 0])
       IN IF Len(longer) > MaxBuckets THEN Tail(longer) ELSE longer

(***************************************************************************)
(* MetricsMiddleware and record_call, for a request that ended well or not.*)
(***************************************************************************)
RecordCall(error) ==
  LET wrong == IF error THEN 1 ELSE 0
      Plus(n) == [n EXCEPT !.calls = @ + 1, !.errors = @ + wrong]
  IN /\ life = "up" /\ ever < MaxCounted
     /\ totals' = Plus(totals)
     /\ series' = [Current EXCEPT ![Len(Current)] = Plus(@)]
     /\ aged' = [aged EXCEPT !.mem = @ + CallsOf(series) - CallsOf(Current)]
     /\ ever' = ever + 1
     /\ UNCHANGED <<disk, slot, life, loop, lives, torn, back>>

\* Mutant of Flushed: the series is left to the end of the server.
FlushedTotals == [disk EXCEPT !.totals = totals]

\* Both files written.
Flushed == [totals |-> totals, series |-> series]

FlushBoth ==
  /\ disk' = Flushed
  /\ aged' = [aged EXCEPT !.disk = aged.mem]
  /\ UNCHANGED torn

\* A write fails, the first or the second.
FlushFails ==
  \/ UNCHANGED <<disk, aged, torn>>
  \/ /\ disk' = [disk EXCEPT !.totals = totals]
     /\ torn' = TRUE
     /\ UNCHANGED aged

\* flush_loop, which an error ends.
LoopFlushes ==
  /\ life = "up" /\ loop = "runs"
  /\ \/ FlushBoth /\ UNCHANGED loop
     \/ FlushFails /\ loop' = "failed"
  /\ UNCHANGED <<totals, series, slot, life, lives, ever, back>>

(***************************************************************************)
(* The end of the lifespan: the task is cancelled and awaited, which       *)
(* raises the error of one that has failed; the last flush; and then only  *)
(* the shutdown of the process manager, whose own errors are caught.       *)
(***************************************************************************)
Ending ==
  /\ life = "up"
  /\ IF loop = "failed" THEN life' = "broken" /\ UNCHANGED loop
     ELSE life' = "ending" /\ loop' = "cancelled"
  /\ UNCHANGED <<totals, series, disk, slot, lives, ever, aged, torn, back>>

LastFlush ==
  \/ FlushBoth /\ life' = "stopped"
  \/ FlushFails /\ life' = "broken"

Ended ==
  /\ life = "ending"
  /\ LastFlush
  /\ UNCHANGED <<totals, series, slot, loop, lives, ever, back>>

\* The process dies, if in a flush after its first file.
NodeDies ==
  /\ life \in {"up", "ending"}
  /\ life' = "down"
  /\ \/ UNCHANGED <<disk, torn>>
     \/ disk' = [disk EXCEPT !.totals = totals] /\ torn' = TRUE
  /\ UNCHANGED <<totals, series, slot, loop, lives, ever, aged, back>>

\* _load, of a new collector.
Start ==
  /\ life \in {"stopped", "broken", "down"} /\ lives < MaxLives
  /\ life' = "up" /\ loop' = "runs" /\ lives' = lives + 1
  /\ totals' = disk.totals /\ series' = disk.series
  /\ aged' = [aged EXCEPT !.mem = aged.disk]
  /\ UNCHANGED <<disk, slot, ever, torn, back>>

MetricsNext ==
  \/ SlotPasses \/ LoopFlushes \/ Ending \/ Ended \/ NodeDies \/ Start
  \/ \E error \in BOOLEAN : RecordCall(error)

MetricsSpec == MetricsInit /\ [][MetricsNext]_metricsVars

-----------------------------------------------------------------------------
(***************************************************************************)
(* The two histories of the calls agree, in memory and in the files,       *)
(* through restarts, failed writes and buckets that were dropped for their *)
(* age, until a flush stops between its two files: then the total has      *)
(* calls that no bucket will ever have.                                    *)
(***************************************************************************)
HistoriesAgree ==
  ~torn => /\ totals.calls = CallsOf(series) + aged.mem
           /\ disk.totals.calls = CallsOf(disk.series) + aged.disk

\* No bucket has more errors than calls, and until the wall clock is set back they
\* are in the order of their time, one to a slot.
BucketsInOrder ==
  /\ ~back => \A j, k \in DOMAIN series : j < k => series[j].slot < series[k].slot
  /\ \A k \in DOMAIN series : series[k].errors <= series[k].calls
  /\ totals.errors <= totals.calls

(***************************************************************************)
(* A server that came to its end, shutting the node down, has saved every  *)
(* call it counted: nothing is lost between its last flush and the end,    *)
(* though calls were counted and flushes ran until then.                   *)
(***************************************************************************)
StoppedIsSaved == life = "stopped" => disk = [totals |-> totals, series |-> series]

\* The totals and the buckets tell one story, in memory and on the disk, across
\* restarts and aged buckets, and an orderly end saves it.
MetricsSafe == MetricsTypeOK /\ HistoriesAgree /\ BucketsInOrder /\ StoppedIsSaved
=============================================================================

---------------------------- MODULE OfflineQueue ----------------------------
(***************************************************************************)
(* OfflineQueue: the file of usage entries that could not be metered, and  *)
(* flush, which sends them to the metering service one by one and rewrites *)
(* the file at its end.                                                    *)
(*                                                                         *)
(* All calls run on one event loop.  Only flush awaits, at each call of    *)
(* serial_client.meter; what follows its last await is a run of file       *)
(* operations during which the loop serves nobody else (busy), but between *)
(* and inside of which the process can die.                                *)
(*                                                                         *)
(* The file may fail: clear logs an error of unlink and goes on, count     *)
(* takes an error for an empty file, and append raises, having written     *)
(* nothing, a part of its line, or all of it but the newline.  An error in *)
(* read_all leaves its caller with nothing done, and is left out.          *)
(***************************************************************************)
EXTENDS Naturals, Sequences

CONSTANTS Entries,     \* usage entries, by request_id
          Flushers,    \* calls of flush that may be under way together
          MaxEntries,  \* MAX_QUEUE_ENTRIES: 50 in the code
          MaxLines,    \* bound: the lines of a file that count's errors let grow
          None

ASSUME QueueAssumption ==
  /\ None \notin Flushers
  /\ MaxEntries \in Nat \ {0} /\ MaxLines \in Nat

VARIABLES lines,     \* the entries of the file that parse, in order
          junk,      \* how many of its lines do not
          ragged,    \* its last line lacks the newline: "no", or it has a "part"
                     \* or the "whole" of an entry
          accepted,  \* the entries that append has queued, in order: it returned True,
                     \* or it failed at the newline and is not called for them again
          metered,   \* the entries the metering service has counted
          taken,     \* the entries dequeue_all has handed out
          exposed,   \* the entries that came during a flush, were left of a write-back
                     \* that was cut short, or shared a line with a torn one
          pc,        \* pc[f]: "idle", "meter" or "rewrite"
          rest,      \* rest[f]: the entries flush f read and has not sent
          busy,      \* the flush that has the event loop, or None
          mishaps    \* the file operations whose error has been taken for success

file == <<lines, junk, ragged>>
vars == <<file, accepted, metered, taken, exposed, pc, rest, busy, mishaps>>

Elems(s) == {s[i] : i \in 1..Len(s)}

Init ==
  /\ lines = << >>
  /\ junk = 0
  /\ ragged = "no"
  /\ accepted = << >>
  /\ metered = {}
  /\ taken = {}
  /\ exposed = {}
  /\ pc = [f \in Flushers |-> "idle"]
  /\ rest = [f \in Flushers |-> << >>]
  /\ busy = None
  /\ mishaps = {}

-----------------------------------------------------------------------------
(* The file.                                                               *)

\* count() counts every line, also those read_all skips.
Full == Len(lines) + junk >= MaxEntries

\* append finds room, or count has failed and returned 0.
FindsRoom ==
  \/ ~Full /\ UNCHANGED mishaps
  \/ Full /\ Len(lines) + junk < MaxLines /\ mishaps' = mishaps \cup {"count"}

\* The entry whose line has no newline: what is written next ends up on that line.
Unended == IF ragged = "whole" THEN {lines[Len(lines)]} ELSE {}

\* The lines before the one without a newline.
Terminated == IF ragged = "whole" THEN SubSeq(lines, 1, Len(lines) - 1) ELSE lines

\* The write of append.
LineWritten(e) ==
  /\ lines' = IF ragged = "no" THEN Append(lines, e) ELSE Terminated
  /\ junk' = IF ragged = "whole" THEN junk + 1 ELSE junk
  /\ ragged' = "no"

\* A write that ends before its newline, and perhaps before that.
Torn(e) ==
  \/ /\ ragged = "no"
     /\ lines' = Append(lines, e) /\ ragged' = "whole" /\ UNCHANGED junk
  \/ /\ lines' = Terminated /\ ragged' = "part"
     /\ junk' = IF ragged = "part" THEN junk ELSE junk + 1

\* Who shares its line with a torn one, when e is written.
OnTornLine(e) == IF ragged = "no" THEN {} ELSE {e} \cup Unended

\* clear: it logs an error of unlink and goes on as if the file were gone.
Cleared ==
  \/ lines' = << >> /\ junk' = 0 /\ ragged' = "no" /\ UNCHANGED mishaps
  \/ mishaps' = mishaps \cup {"clear"} /\ UNCHANGED file

-----------------------------------------------------------------------------
(* The calls that do not await.                                            *)

\* Who is exposed by coming while a flush is under way.
DuringFlush(e) == IF \A f \in Flushers : pc[f] = "idle" THEN {} ELSE {e}

\* append, while no flush is under way or during one.  A full queue refuses the
\* entry, and nothing changes.
AppendEntry(e) ==
  /\ busy = None /\ e \notin Elems(accepted)
  /\ FindsRoom
  /\ LineWritten(e)
  /\ accepted' = Append(accepted, e)
  /\ exposed' = exposed \cup OnTornLine(e) \cup DuringFlush(e)
  /\ UNCHANGED <<metered, taken, pc, rest, busy>>

\* Its write fails, after a part of the line or all of it but the newline.
TearsEntry(e) ==
  /\ busy = None /\ e \notin Elems(accepted)
  /\ FindsRoom
  /\ Torn(e)
  /\ accepted' = IF ragged' = "whole" THEN Append(accepted, e) ELSE accepted
  /\ exposed' = exposed \cup Unended \cup DuringFlush(e)
  /\ UNCHANGED <<metered, taken>>

\* append raises.
AppendFails(e) == TearsEntry(e) /\ UNCHANGED <<pc, rest, busy>>

\* dequeue_all: the entries become the caller's.
DequeueAll ==
  /\ busy = None
  /\ taken' = taken \cup Elems(lines)
  /\ Cleared
  /\ UNCHANGED <<accepted, metered, exposed, pc, rest, busy>>

-----------------------------------------------------------------------------
(* flush.                                                                  *)

\* read_all; a flush that finds nothing returns at once.
FlushBegins(f) ==
  /\ busy = None
  /\ pc[f] = "idle"
  /\ lines # << >>
  /\ pc' = [pc EXCEPT ![f] = "meter"]
  /\ rest' = [rest EXCEPT ![f] = lines]
  /\ UNCHANGED <<file, accepted, metered, taken, exposed, busy, mishaps>>

\* The service answers 200 or 409: the entry is counted, now or before.  After the
\* last one flush clears the file.
MeterCounts(f) ==
  /\ busy = None
  /\ pc[f] = "meter"
  /\ metered' = metered \cup {Head(rest[f])}
  /\ rest' = [rest EXCEPT ![f] = Tail(@)]
  /\ IF Len(rest[f]) = 1
     THEN Cleared /\ pc' = [pc EXCEPT ![f] = "idle"]
     ELSE UNCHANGED <<file, pc, mishaps>>
  /\ UNCHANGED <<accepted, taken, exposed, busy>>

\* Mutant of MeterRefuses: the refused entry is not among the remaining ones.
MeterRefusesSkipping(f) ==
  /\ busy = None
  /\ pc[f] = "meter"
  /\ rest' = [rest EXCEPT ![f] = Tail(@)]
  /\ pc' = [pc EXCEPT ![f] = "rewrite"]
  /\ busy' = f
  /\ Cleared
  /\ UNCHANGED <<accepted, metered, taken, exposed>>

\* Mutant of MeterRefuses: the remaining entries are appended to the old file.
MeterRefusesKeepsFile(f) ==
  /\ busy = None
  /\ pc[f] = "meter"
  /\ pc' = [pc EXCEPT ![f] = "rewrite"]
  /\ busy' = f
  /\ UNCHANGED <<file, accepted, metered, taken, exposed, rest, mishaps>>

\* Any other status ends the loop: flush clears the file and will write back the
\* entries from this one on.  The service may have counted the entry nevertheless.
MeterRefuses(f) ==
  /\ busy = None
  /\ pc[f] = "meter"
  /\ \E counted \in SUBSET {Head(rest[f])} : metered' = metered \cup counted
  /\ pc' = [pc EXCEPT ![f] = "rewrite"]
  /\ busy' = f
  /\ Cleared
  /\ UNCHANGED <<accepted, taken, exposed, rest>>

\* serial_client.meter raises: so does flush, and the file stays as it is.
MeterRaises(f) ==
  /\ busy = None
  /\ pc[f] = "meter"
  /\ \E counted \in SUBSET {Head(rest[f])} : metered' = metered \cup counted
  /\ pc' = [pc EXCEPT ![f] = "idle"]
  /\ rest' = [rest EXCEPT ![f] = << >>]
  /\ UNCHANGED <<file, accepted, taken, exposed, busy, mishaps>>

\* append of the next remaining entry, or the end of flush.
Rewrites(f) ==
  /\ pc[f] = "rewrite"
  /\ \/ /\ rest[f] # << >>
        /\ rest' = [rest EXCEPT ![f] = Tail(@)]
        /\ \/ Full /\ UNCHANGED <<file, exposed, mishaps>>
           \/ /\ FindsRoom
              /\ LineWritten(Head(rest[f]))
              /\ exposed' = exposed \cup OnTornLine(Head(rest[f]))
        /\ UNCHANGED <<pc, busy>>
     \/ /\ rest[f] = << >>
        /\ pc' = [pc EXCEPT ![f] = "idle"]
        /\ busy' = None
        /\ UNCHANGED <<file, exposed, rest, mishaps>>
  /\ UNCHANGED <<accepted, metered, taken>>

\* What a write-back that ends here leaves unwritten.
CutShort == IF busy = None THEN {} ELSE Elems(rest[busy])

\* The write of the next remaining entry ends early, or does not begin: the entries
\* left are nowhere then.
TearsRewrite(f) ==
  /\ pc[f] = "rewrite" /\ rest[f] # << >>
  /\ \/ UNCHANGED <<file, mishaps>> /\ exposed' = exposed \cup CutShort
     \/ /\ FindsRoom
        /\ Torn(Head(rest[f]))
        /\ exposed' = exposed \cup CutShort \cup Unended
  /\ UNCHANGED <<accepted, metered, taken>>

\* append raises, and so does flush.
RewriteFails(f) ==
  /\ TearsRewrite(f)
  /\ pc' = [pc EXCEPT ![f] = "idle"]
  /\ rest' = [rest EXCEPT ![f] = << >>]
  /\ busy' = None

-----------------------------------------------------------------------------
(* Crashes.                                                                *)

\* The process dies and is started again: the file is all that is left.
Restarts ==
  /\ pc' = [f \in Flushers |-> "idle"]
  /\ rest' = [f \in Flushers |-> << >>]
  /\ busy' = None

Crash ==
  /\ Restarts
  /\ exposed' = exposed \cup CutShort
  /\ UNCHANGED <<file, accepted, metered, taken, mishaps>>

\* It dies inside the write of append, of an entry that comes or of flush's next one.
CrashInAppend ==
  /\ Restarts
  /\ \/ \E e \in Entries : TearsEntry(e)
     \/ \E f \in Flushers : TearsRewrite(f)

-----------------------------------------------------------------------------
Next ==
  \/ \E e \in Entries : AppendEntry(e) \/ AppendFails(e)
  \/ DequeueAll
  \/ \E f \in Flushers :
       \/ FlushBegins(f)
       \/ MeterCounts(f)
       \/ MeterRefuses(f)
       \/ MeterRaises(f)
       \/ Rewrites(f)
       \/ RewriteFails(f)
  \/ Crash
  \/ CrashInAppend

Spec == Init /\ [][Next]_vars

-----------------------------------------------------------------------------
(* Properties.                                                             *)

\* The state has its type.
TypeOK ==
  /\ lines \in Seq(Entries)
  /\ junk \in Nat
  /\ ragged \in {"no", "part", "whole"}
  /\ accepted \in Seq(Entries)
  /\ metered \in SUBSET Entries
  /\ taken \in SUBSET Entries
  /\ exposed \in SUBSET Entries
  /\ pc \in [Flushers -> {"idle", "meter", "rewrite"}]
  /\ rest \in [Flushers -> Seq(Entries)]
  /\ busy \in Flushers \cup {None}
  /\ mishaps \in SUBSET {"clear", "count"}

\* No entry was let into a full file.
WithinLimit == "count" \notin mishaps

\* The entries that append has queued, that nobody has accounted for yet, and that
\* have not met one of the ways in which the file loses an entry.
Owed == Elems(accepted) \ (metered \cup taken \cup exposed)

\* What is owed is in the file, or in the hands of the flush that is writing it back.
OwedKept ==
  Owed \subseteq Elems(lines) \cup (IF busy = None THEN {} ELSE Elems(rest[busy]))

(***************************************************************************)
(* Several flushes read and rewrite one file, appends come meanwhile,      *)
(* clear fails, append raises at any point of its write, and the process   *)
(* dies, all of it any number of times.  The usage that is lost is then    *)
(* at most: what was appended while a flush was under way (which clears a  *)
(* file it has not read), what a flush had left to write back when one of  *)
(* its appends raised or the process died, and what got onto a torn line.  *)
(* Past the limit, to which an error of count leads, a write-back may lose *)
(* more.                                                                   *)
(***************************************************************************)
NothingLost == WithinLimit => OwedKept

(***************************************************************************)
(* Usage is metered in the order in which it was queued: flush stops at    *)
(* the first entry the service refuses, so that no later entry overtakes   *)
(* one that is not exposed, whatever fails meanwhile.                      *)
(***************************************************************************)
MeteredInOrder ==
  WithinLimit => \A i, j \in 1..Len(accepted) :
    i < j /\ accepted[j] \in metered => accepted[i] \in metered \cup taken \cup exposed

(***************************************************************************)
(* Crashes, failed writes, overlapping flushes and appends included, the   *)
(* file holds an entry once, and in the order in which the entries were    *)
(* queued, until clear fails.                                              *)
(***************************************************************************)
FileInOrder ==
  "clear" \notin mishaps =>
    \A i, j \in 1..Len(lines) : i < j =>
      \E m, n \in 1..Len(accepted) :
        m < n /\ lines[i] = accepted[m] /\ lines[j] = accepted[n]

\* The file has no more than MAX_QUEUE_ENTRIES lines, torn ones included, until an
\* error of count lets one in.
QueueBounded == WithinLimit => Len(lines) + junk <= MaxEntries

\* Usage is metered and kept in the order in which it was queued, within the limit
\* of the file, whatever flushes overlap.
QueueOrdered == MeteredInOrder /\ FileInOrder /\ QueueBounded

-----------------------------------------------------------------------------
(* The inductive invariant behind NothingLost.                             *)

\* A flush under way still has all that is owed before it.
FlushesCoverOwed ==
  \A f \in Flushers : pc[f] = "meter" => Owed \subseteq Elems(rest[f])

\* The loop is busy exactly with the flush that rewrites; one that meters has an
\* entry to send.
FlushesHaveWork ==
  \A f \in Flushers :
    /\ pc[f] = "rewrite" <=> busy = f
    /\ pc[f] = "meter" => rest[f] # << >>

\* What is written back fits, or all that is owed is in the file that clear left.
RewriteFits ==
  \A f \in Flushers :
    /\ Len(rest[f]) <= MaxEntries
    /\ pc[f] = "rewrite" =>
         \/ ragged = "no" /\ Len(lines) + junk + Len(rest[f]) <= MaxEntries
         \/ Owed \subseteq Elems(lines)

Covered == QueueBounded /\ RewriteFits /\ FlushesCoverOwed /\ OwedKept

QueueInv ==
  /\ TypeOK /\ FlushesHaveWork
  /\ ragged = "whole" => lines # << >>
  /\ WithinLimit => Covered
=============================================================================

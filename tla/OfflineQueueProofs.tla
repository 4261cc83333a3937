------------------------- MODULE OfflineQueueProofs -------------------------
(***************************************************************************)
(* Proofs about OfflineQueue, for any number of entries, overlapping       *)
(* flushes and any size of the queue, whatever fails.                      *)
(***************************************************************************)
EXTENDS OfflineQueue, SequenceTheorems, TLAPS

(***************************************************************************)
(* What Head, Tail and Append do to the elements of a sequence.            *)
(***************************************************************************)
LEMMA ElemsAppend ==
  ASSUME NEW S, NEW s \in Seq(S), NEW e \in S
  PROVE  Elems(Append(s, e)) = Elems(s) \cup {e}
<1>1. Len(Append(s, e)) = Len(s) + 1 /\ Append(s, e)[Len(s) + 1] = e
  OBVIOUS
<1>2. \A i \in 1..Len(s) : Append(s, e)[i] = s[i]
  OBVIOUS
<1>3. Len(s) \in Nat
  OBVIOUS
<1> QED BY <1>1, <1>2, <1>3 DEF Elems

LEMMA ElemsTail ==
  ASSUME NEW S, NEW s \in Seq(S), s # << >>
  PROVE  /\ Tail(s) \in Seq(S)
         /\ Len(Tail(s)) = Len(s) - 1
         /\ Head(s) \in S
         /\ Elems(s) = {Head(s)} \cup Elems(Tail(s))
         /\ Len(s) \in Nat \ {0}
<1>1. Tail(s) \in Seq(S) /\ Len(Tail(s)) = Len(s) - 1 /\ Head(s) \in S
  OBVIOUS
<1>2. Len(s) \in Nat \ {0} /\ Head(s) = s[1]
  OBVIOUS
<1>3. \A i \in 1..Len(Tail(s)) : Tail(s)[i] = s[i + 1]
  OBVIOUS
<1>4. Elems(s) \subseteq {Head(s)} \cup Elems(Tail(s))
  <2> SUFFICES ASSUME NEW i \in 1..Len(s), i # 1
               PROVE  s[i] \in Elems(Tail(s))
    BY <1>2 DEF Elems
  <2>1. i - 1 \in 1..Len(Tail(s)) /\ Tail(s)[i - 1] = s[i]
    BY <1>1, <1>2, <1>3
  <2> QED BY <2>1 DEF Elems
<1>5. {Head(s)} \cup Elems(Tail(s)) \subseteq Elems(s)
  BY <1>1, <1>2, <1>3 DEF Elems
<1> QED BY <1>1, <1>2, <1>4, <1>5

LEMMA ElemsEmpty == Elems(<< >>) = {}
  BY DEF Elems

-----------------------------------------------------------------------------
(* The file.                                                               *)

\* A file whose last line has the whole of an entry has an entry.
WholeLine == ragged = "whole" => lines # << >>

\* The lines that have their newline, and the entry of the one that has not.
LEMMA EndedFile ==
  ASSUME TypeOK, WholeLine
  PROVE  /\ Terminated \in Seq(Entries) /\ Unended \subseteq Entries
         /\ Len(Terminated) \in Nat /\ Len(lines) \in Nat
         /\ Len(Terminated) = IF ragged = "whole" THEN Len(lines) - 1 ELSE Len(lines)
         /\ \A i \in 1..Len(Terminated) : Terminated[i] = lines[i]
         /\ Elems(lines) = Elems(Terminated) \cup Unended
<1>t. lines \in Seq(Entries) /\ Len(lines) \in Nat
  BY DEF TypeOK
<1>1. CASE ragged = "whole"
  <2>1. Len(lines) \in Nat \ {0}
    BY <1>t, <1>1 DEF WholeLine
  <2>2. /\ Terminated = SubSeq(lines, 1, Len(lines) - 1) /\ Unended = {lines[Len(lines)]}
    BY <1>1 DEF Terminated, Unended
  <2>3. Terminated \in Seq(Entries) /\ Len(Terminated) = Len(lines) - 1
    <3>1. \A i \in 1..(Len(lines) - 1) : lines[i] \in Entries
      BY <1>t, <2>1
    <3> DEFINE last == Len(lines) - 1
    <3>2. last \in Nat
      BY <2>1
    <3>3. \A i \in 1..last : lines[i] \in Entries
      BY <3>1
    <3> HIDE DEF last
    <3>4. SubSeq(lines, 1, last) \in Seq(Entries)
      BY <3>2, <3>3, SubSeqProperties
    <3>5. Len(SubSeq(lines, 1, last)) = IF 1 <= last THEN last - 1 + 1 ELSE 0
      BY <3>2, <3>3, SubSeqProperties
    <3>6. Len(SubSeq(lines, 1, last)) = last
      BY <3>2, <3>5
    <3> QED
      BY <2>2, <3>4, <3>6 DEF last
  <2>4. \A i \in 1..Len(Terminated) : Terminated[i] = lines[i]
    BY <1>t, <2>1, <2>2
  <2>5. lines[Len(lines)] \in Entries
    BY <1>t, <2>1
  <2>6. 1..Len(lines) = (1..Len(Terminated)) \cup {Len(lines)}
    BY <2>1, <2>3
  <2>7. Elems(lines) = Elems(Terminated) \cup Unended
    BY <2>2, <2>4, <2>6 DEF Elems
  <2> QED
    BY <1>t, <1>1, <2>1, <2>2, <2>3, <2>4, <2>5, <2>7
<1>2. CASE ragged # "whole"
  <2>1. Terminated = lines /\ Unended = {}
    BY <1>2 DEF Terminated, Unended
  <2> QED
    BY <1>t, <1>2, <2>1
<1> QED
  BY <1>1, <1>2

\* What the write of an entry does to the file, be it cut short or not.
Lands(e) ==
  /\ lines' \in Seq(Entries) /\ junk' \in Nat
  /\ ragged' \in {"no", "part", "whole"} /\ WholeLine'
  /\ Len(lines') + junk' <= Len(lines) + junk + 1
  /\ \/ ragged = "no" /\ lines' = Append(lines, e) /\ junk' = junk
     \/ lines' = Terminated
  /\ Elems(lines) \subseteq Elems(lines') \cup Unended
  /\ Elems(lines') \subseteq Elems(lines) \cup {e}

LEMMA WriteLands ==
  ASSUME TypeOK, WholeLine, NEW e \in Entries, LineWritten(e) \/ Torn(e)
  PROVE  Lands(e)
<1>t. /\ lines \in Seq(Entries) /\ Len(lines) \in Nat /\ junk \in Nat
      /\ ragged \in {"no", "part", "whole"}
  BY DEF TypeOK
<1>e. /\ Terminated \in Seq(Entries) /\ Len(Terminated) \in Nat
      /\ Len(Terminated) = IF ragged = "whole" THEN Len(lines) - 1 ELSE Len(lines)
      /\ Elems(lines) = Elems(Terminated) \cup Unended
  BY EndedFile
<1>a. /\ Append(lines, e) \in Seq(Entries) /\ Append(lines, e) # << >>
      /\ Len(Append(lines, e)) = Len(lines) + 1
      /\ Elems(Append(lines, e)) = Elems(lines) \cup {e}
  BY <1>t, ElemsAppend
<1>1. CASE ragged = "no" /\ lines' = Append(lines, e) /\ junk' = junk /\ ragged' \in {"no", "whole"}
  <2>1. Len(lines') + junk' <= Len(lines) + junk + 1
    BY <1>t, <1>a, <1>1
  <2> QED
    BY <1>t, <1>a, <1>1, <2>1 DEF Lands, WholeLine
<1>2. CASE lines' = Terminated /\ junk' \in {junk, junk + 1} /\ ragged' \in {"no", "part"}
  <2>1. Len(lines') + junk' <= Len(lines) + junk + 1
    BY <1>t, <1>e, <1>2
  <2> QED
    BY <1>t, <1>e, <1>2, <2>1 DEF Lands, WholeLine
<1>3. CASE LineWritten(e)
  BY <1>1, <1>2, <1>3, <1>t DEF LineWritten
<1>4. CASE Torn(e)
  BY <1>1, <1>2, <1>4, <1>t DEF Torn
<1> QED
  BY <1>3, <1>4

\* The file is cleared, or the clear fails.
LEMMA ClearedFile ==
  ASSUME TypeOK, WholeLine, Cleared
  PROVE  /\ lines' \in Seq(Entries) /\ junk' \in Nat
         /\ ragged' \in {"no", "part", "whole"} /\ WholeLine'
         /\ mishaps \subseteq mishaps' /\ mishaps' \in SUBSET {"clear", "count"}
         /\ \/ lines' = << >> /\ junk' = 0 /\ ragged' = "no"
            \/ UNCHANGED <<lines, junk, ragged>> /\ "clear" \in mishaps'
<1>1. CASE lines' = << >> /\ junk' = 0 /\ ragged' = "no" /\ UNCHANGED mishaps
  BY <1>1 DEF TypeOK, WholeLine
<1>2. CASE mishaps' = mishaps \cup {"clear"} /\ UNCHANGED file
  BY <1>2 DEF TypeOK, WholeLine, file
<1> QED
  BY <1>1, <1>2 DEF Cleared

\* While count has not failed, room is room.
LEMMA RoomFound ==
  ASSUME TypeOK, FindsRoom
  PROVE  /\ mishaps \subseteq mishaps' /\ mishaps' \in SUBSET {"clear", "count"}
         /\ WithinLimit' => /\ mishaps' = mishaps /\ ~Full
                            /\ Len(lines) + junk + 1 <= MaxEntries
<1>t. Len(lines) \in Nat /\ junk \in Nat /\ MaxEntries \in Nat
  BY QueueAssumption DEF TypeOK
<1>1. CASE ~Full /\ UNCHANGED mishaps
  BY <1>t, <1>1 DEF Full, TypeOK
<1>2. CASE Full /\ mishaps' = mishaps \cup {"count"}
  BY <1>2 DEF TypeOK, WithinLimit
<1> QED
  BY <1>1, <1>2 DEF FindsRoom

\* append of an entry that comes, which may fail.
LEMMA EntryComes ==
  ASSUME TypeOK, WholeLine, NEW e \in Entries, AppendEntry(e) \/ TearsEntry(e)
  PROVE  /\ busy = None /\ e \notin Elems(accepted) /\ UNCHANGED <<metered, taken>>
         /\ Lands(e) /\ FindsRoom
         /\ \/ accepted' = Append(accepted, e)
            \/ accepted' = accepted /\ lines' = Terminated
         /\ exposed \subseteq exposed' /\ exposed' \subseteq Entries
         /\ Unended \subseteq exposed' /\ DuringFlush(e) \subseteq exposed'
         /\ e \in Elems(lines') \cup exposed' \/ accepted' = accepted
<1>u. Unended \subseteq Entries /\ exposed \subseteq Entries /\ DuringFlush(e) \subseteq Entries
  BY EndedFile DEF TypeOK, DuringFlush
<1>t. lines \in Seq(Entries)
  BY DEF TypeOK
<1>a. Elems(Append(lines, e)) = Elems(lines) \cup {e}
  BY <1>t, ElemsAppend
<1>1. CASE AppendEntry(e)
  <2>1. /\ busy = None /\ e \notin Elems(accepted) /\ UNCHANGED <<metered, taken>>
        /\ FindsRoom /\ LineWritten(e) /\ accepted' = Append(accepted, e)
        /\ exposed' = exposed \cup OnTornLine(e) \cup DuringFlush(e)
    BY <1>1 DEF AppendEntry
  <2>2. CASE ragged = "no"
    <3>1. OnTornLine(e) = {} /\ Unended = {} /\ lines' = Append(lines, e)
      BY <2>1, <2>2 DEF OnTornLine, Unended, LineWritten
    <3> QED
      BY <1>u, <1>a, <2>1, <3>1, WriteLands
  <2>3. CASE ragged # "no"
    <3>1. OnTornLine(e) = {e} \cup Unended
      BY <2>3 DEF OnTornLine
    <3> QED
      BY <1>u, <2>1, <3>1, WriteLands
  <2> QED
    BY <2>2, <2>3
<1>2. CASE TearsEntry(e)
  <2>1. /\ busy = None /\ e \notin Elems(accepted) /\ UNCHANGED <<metered, taken>>
        /\ FindsRoom /\ Torn(e)
        /\ accepted' = IF ragged' = "whole" THEN Append(accepted, e) ELSE accepted
        /\ exposed' = exposed \cup Unended \cup DuringFlush(e)
    BY <1>2 DEF TearsEntry
  <2>2. CASE lines' = Append(lines, e) /\ ragged' = "whole"
    BY <1>u, <1>a, <2>1, <2>2, WriteLands
  <2>3. CASE lines' = Terminated /\ ragged' = "part"
    BY <1>u, <2>1, <2>3, WriteLands
  <2> QED
    BY <2>1, <2>2, <2>3 DEF Torn
<1> QED
  BY <1>1, <1>2

\* append of the next remaining entry, which may find no room, or fail.
LEMMA EntryWrittenBack ==
  ASSUME TypeOK, WholeLine, FlushesHaveWork, NEW f \in Flushers, rest[f] # << >>,
         Rewrites(f) \/ TearsRewrite(f)
  PROVE  /\ pc[f] = "rewrite" /\ busy = f /\ UNCHANGED <<accepted, metered, taken>>
         /\ rest[f] \in Seq(Entries) /\ Head(rest[f]) \in Entries
         /\ Tail(rest[f]) \in Seq(Entries) /\ Len(rest[f]) \in Nat \ {0}
         /\ Len(Tail(rest[f])) = Len(rest[f]) - 1
         /\ Elems(rest[f]) = {Head(rest[f])} \cup Elems(Tail(rest[f]))
         /\ exposed \subseteq exposed' /\ exposed' \subseteq Entries
         /\ \/ UNCHANGED <<lines, junk, ragged, mishaps>>
            \/ FindsRoom /\ Lands(Head(rest[f])) /\ Unended \subseteq exposed'
         /\ Rewrites(f) =>
              /\ rest' = [rest EXCEPT ![f] = Tail(rest[f])] /\ UNCHANGED <<pc, busy>>
              /\ \/ Full /\ UNCHANGED <<lines, junk, ragged, exposed, mishaps>>
                 \/ /\ FindsRoom /\ Lands(Head(rest[f])) /\ LineWritten(Head(rest[f]))
                    /\ Unended \subseteq exposed'
                    /\ Head(rest[f]) \in Elems(lines') \cup exposed'
         /\ TearsRewrite(f) => Elems(rest[f]) \subseteq exposed'
<1>w. pc[f] = "rewrite" /\ busy = f /\ busy # None
  BY QueueAssumption DEF Rewrites, TearsRewrite, FlushesHaveWork
<1>r. /\ rest[f] \in Seq(Entries) /\ Head(rest[f]) \in Entries
      /\ Tail(rest[f]) \in Seq(Entries) /\ Len(rest[f]) \in Nat \ {0}
      /\ Len(Tail(rest[f])) = Len(rest[f]) - 1
      /\ Elems(rest[f]) = {Head(rest[f])} \cup Elems(Tail(rest[f]))
  <2>1. rest[f] \in Seq(Entries)
    BY DEF TypeOK
  <2> QED
    BY <2>1, ElemsTail
<1>u. Unended \subseteq Entries /\ exposed \subseteq Entries /\ Elems(rest[f]) \subseteq Entries
      /\ lines \in Seq(Entries)
  BY <1>r, EndedFile DEF TypeOK, Elems
<1>1. CASE Rewrites(f)
  <2>1. /\ UNCHANGED <<accepted, metered, taken>>
        /\ rest' = [rest EXCEPT ![f] = Tail(rest[f])] /\ UNCHANGED <<pc, busy>>
        /\ \/ Full /\ UNCHANGED <<file, exposed, mishaps>>
           \/ /\ FindsRoom /\ LineWritten(Head(rest[f]))
              /\ exposed' = exposed \cup OnTornLine(Head(rest[f]))
    BY <1>1 DEF Rewrites
  <2>2. ~TearsRewrite(f) \/ Elems(rest[f]) \subseteq exposed'
    <3>1. ASSUME TearsRewrite(f) PROVE CutShort \subseteq exposed'
      BY <3>1 DEF TearsRewrite
    <3> QED
      BY <3>1, <1>w DEF CutShort
  <2>3. CASE Full /\ UNCHANGED <<file, exposed, mishaps>>
    <3>1. UNCHANGED <<lines, junk, ragged, exposed, mishaps>>
      BY <2>3 DEF file
    <3> QED
      BY <1>w, <1>r, <1>u, <2>1, <2>2, <2>3, <3>1
  <2>4. CASE FindsRoom /\ LineWritten(Head(rest[f]))
             /\ exposed' = exposed \cup OnTornLine(Head(rest[f]))
    <3>1. Lands(Head(rest[f]))
      BY <1>r, <2>4, WriteLands
    <3>2. /\ Unended \subseteq exposed' /\ exposed' \subseteq Entries
          /\ Head(rest[f]) \in Elems(lines') \cup exposed'
      <4>1. CASE ragged = "no"
        <5>1. OnTornLine(Head(rest[f])) = {} /\ Unended = {} /\ lines' = Append(lines, Head(rest[f]))
          BY <2>4, <4>1 DEF OnTornLine, Unended, LineWritten
        <5>2. Elems(lines') = Elems(lines) \cup {Head(rest[f])}
          BY <1>r, <1>u, <5>1, ElemsAppend
        <5> QED
          BY <1>u, <2>4, <5>1, <5>2
      <4>2. CASE ragged # "no"
        <5>1. OnTornLine(Head(rest[f])) = {Head(rest[f])} \cup Unended
          BY <4>2 DEF OnTornLine
        <5> QED
          BY <1>r, <1>u, <2>4, <5>1
      <4> QED
        BY <4>1, <4>2
    <3> QED
      BY <1>w, <1>r, <2>1, <2>2, <2>4, <3>1, <3>2
  <2> QED
    BY <2>1, <2>3, <2>4
<1>2. CASE TearsRewrite(f) /\ ~Rewrites(f)
  <2>1. UNCHANGED <<accepted, metered, taken>> /\ CutShort = Elems(rest[f])
    BY <1>2, <1>w DEF TearsRewrite, CutShort
  <2>2. CASE UNCHANGED <<file, mishaps>> /\ exposed' = exposed \cup CutShort
    <3>1. UNCHANGED <<lines, junk, ragged, mishaps>>
      BY <2>2 DEF file
    <3> QED
      BY <1>w, <1>r, <1>u, <1>2, <2>1, <2>2, <3>1
  <2>3. CASE FindsRoom /\ Torn(Head(rest[f])) /\ exposed' = exposed \cup CutShort \cup Unended
    <3>1. Lands(Head(rest[f]))
      BY <1>r, <2>3, WriteLands
    <3> QED
      BY <1>w, <1>r, <1>u, <1>2, <2>1, <2>3, <3>1
  <2> QED
    BY <1>2, <2>2, <2>3 DEF TearsRewrite
<1> QED
  BY <1>1, <1>2

-----------------------------------------------------------------------------
(* What is owed.                                                           *)

(***************************************************************************)
(* Whatever happens, a step keeps the types, and a flush that is sending   *)
(* keeps having an entry to send.                                          *)
(***************************************************************************)
Shape == TypeOK /\ FlushesHaveWork /\ WholeLine

LEMMA ShapeStep ==
  ASSUME Shape, [Next]_vars
  PROVE  Shape' /\ mishaps \subseteq mishaps'
<1> USE QueueAssumption DEF Shape
<1> DEFINE Goal == Shape' /\ mishaps \subseteq mishaps'
<1>H. ASSUME NEW f \in Flushers, pc[f] = "meter"
      PROVE  /\ rest[f] \in Seq(Entries) /\ rest[f] # << >>
             /\ Head(rest[f]) \in Entries /\ Tail(rest[f]) \in Seq(Entries)
             /\ Len(rest[f]) # 1 => Tail(rest[f]) # << >>
  <2>1. rest[f] \in Seq(Entries) /\ rest[f] # << >>
    BY <1>H DEF TypeOK, FlushesHaveWork
  <2>2. /\ Head(rest[f]) \in Entries /\ Tail(rest[f]) \in Seq(Entries)
        /\ Len(Tail(rest[f])) = Len(rest[f]) - 1 /\ Len(rest[f]) \in Nat \ {0}
    BY <2>1, ElemsTail
  <2>3. ASSUME Len(rest[f]) # 1 PROVE Tail(rest[f]) # << >>
    <3>1. Len(Tail(rest[f])) # 0
      BY <2>2, <2>3
    <3>2. Len(<< >>) = 0
      OBVIOUS
    <3> QED BY <3>1, <3>2, Zenon
  <2> QED BY <2>1, <2>2, <2>3
<1>E. ASSUME NEW e \in Entries, AppendEntry(e) \/ TearsEntry(e)
      PROVE  /\ lines' \in Seq(Entries) /\ junk' \in Nat
             /\ ragged' \in {"no", "part", "whole"} /\ WholeLine'
             /\ accepted' \in Seq(Entries) /\ UNCHANGED <<metered, taken>>
             /\ exposed' \subseteq Entries /\ busy = None
             /\ mishaps \subseteq mishaps' /\ mishaps' \in SUBSET {"clear", "count"}
  <2>1. /\ Lands(e) /\ FindsRoom /\ UNCHANGED <<metered, taken>> /\ busy = None
        /\ accepted' \in {accepted, Append(accepted, e)} /\ exposed' \subseteq Entries
    BY <1>E, EntryComes
  <2>2. accepted' \in Seq(Entries)
    <3>1. accepted \in Seq(Entries) /\ Append(accepted, e) \in Seq(Entries)
      BY DEF TypeOK
    <3> QED BY <2>1, <3>1
  <2> QED
    BY <2>1, <2>2, RoomFound DEF Lands
<1>R. ASSUME Restarts, lines' \in Seq(Entries), junk' \in Nat,
             ragged' \in {"no", "part", "whole"}, WholeLine', accepted' \in Seq(Entries),
             UNCHANGED <<metered, taken>>, exposed' \subseteq Entries,
             mishaps \subseteq mishaps', mishaps' \in SUBSET {"clear", "count"}
      PROVE  Goal
  <2>1. /\ pc' = [f \in Flushers |-> "idle"] /\ rest' = [f \in Flushers |-> << >>]
        /\ busy' = None
    BY <1>R DEF Restarts
  <2> QED
    BY <1>R, <2>1 DEF TypeOK, FlushesHaveWork
<1>W. ASSUME NEW f \in Flushers, TearsRewrite(f)
      PROVE  /\ lines' \in Seq(Entries) /\ junk' \in Nat
             /\ ragged' \in {"no", "part", "whole"} /\ WholeLine'
             /\ UNCHANGED <<accepted, metered, taken>> /\ exposed' \subseteq Entries
             /\ pc[f] = "rewrite" /\ busy = f
             /\ mishaps \subseteq mishaps' /\ mishaps' \in SUBSET {"clear", "count"}
  <2>1. rest[f] # << >>
    BY <1>W DEF TearsRewrite
  <2>2. /\ UNCHANGED <<accepted, metered, taken>> /\ exposed' \subseteq Entries
        /\ pc[f] = "rewrite" /\ busy = f
        /\ UNCHANGED <<lines, junk, ragged, mishaps>> \/ (FindsRoom /\ Lands(Head(rest[f])))
    BY <1>W, <2>1, EntryWrittenBack
  <2>3. CASE UNCHANGED <<lines, junk, ragged, mishaps>>
    BY <2>2, <2>3 DEF TypeOK, WholeLine
  <2>4. CASE FindsRoom /\ Lands(Head(rest[f]))
    BY <2>2, <2>4, RoomFound DEF Lands
  <2> QED BY <2>2, <2>3, <2>4
<1>1. ASSUME NEW e \in Entries, AppendEntry(e) PROVE Goal
  <2>1. UNCHANGED <<pc, rest, busy>>
    BY <1>1 DEF AppendEntry
  <2> QED BY <2>1, <1>1, <1>E DEF TypeOK, FlushesHaveWork
<1>a. ASSUME NEW e \in Entries, AppendFails(e) PROVE Goal
  <2>1. UNCHANGED <<pc, rest, busy>> /\ TearsEntry(e)
    BY <1>a DEF AppendFails
  <2> QED BY <2>1, <1>E DEF TypeOK, FlushesHaveWork
<1>2. ASSUME DequeueAll PROVE Goal
  <2>1. Elems(lines) \in SUBSET Entries
    BY DEF Elems, TypeOK
  <2>2. /\ Cleared /\ taken' = taken \cup Elems(lines)
        /\ UNCHANGED <<accepted, metered, exposed, pc, rest, busy>>
    BY <1>2 DEF DequeueAll
  <2> QED BY <2>1, <2>2, ClearedFile DEF TypeOK, FlushesHaveWork
<1>3. ASSUME NEW f \in Flushers, FlushBegins(f) PROVE Goal
  <2>1. /\ UNCHANGED <<lines, junk, ragged, accepted, metered, taken, exposed, busy, mishaps>>
        /\ busy = None /\ pc[f] = "idle" /\ lines # << >>
        /\ pc' = [pc EXCEPT ![f] = "meter"] /\ rest' = [rest EXCEPT ![f] = lines]
    BY <1>3 DEF FlushBegins, file
  <2>2. TypeOK' /\ WholeLine'
    BY <2>1 DEF TypeOK, WholeLine
  <2>3. FlushesHaveWork'
    BY <2>1 DEF TypeOK, FlushesHaveWork
  <2> QED BY <2>1, <2>2, <2>3
<1>4. ASSUME NEW f \in Flushers, MeterCounts(f) PROVE Goal
  <2>1. /\ busy = None /\ pc[f] = "meter"
        /\ metered' = metered \cup {Head(rest[f])}
        /\ rest' = [rest EXCEPT ![f] = Tail(rest[f])]
        /\ UNCHANGED <<accepted, taken, exposed, busy>>
    BY <1>4 DEF MeterCounts
  <2>2. CASE Len(rest[f]) = 1
    <3>1. Cleared /\ pc' = [pc EXCEPT ![f] = "idle"]
      BY <1>4, <2>2 DEF MeterCounts
    <3>2. TypeOK' /\ WholeLine' /\ mishaps \subseteq mishaps'
      BY <2>1, <3>1, <1>H, ClearedFile DEF TypeOK
    <3>3. FlushesHaveWork'
      BY <2>1, <3>1 DEF TypeOK, FlushesHaveWork
    <3> QED BY <3>2, <3>3
  <2>3. CASE Len(rest[f]) # 1
    <3>1. UNCHANGED <<lines, junk, ragged, pc, mishaps>>
      BY <1>4, <2>3 DEF MeterCounts, file
    <3>2. Head(rest[f]) \in Entries /\ Tail(rest[f]) \in Seq(Entries) /\ Tail(rest[f]) # << >>
      BY <2>1, <2>3, <1>H
    <3>3. TypeOK' /\ WholeLine'
      BY <2>1, <3>1, <3>2 DEF TypeOK, WholeLine
    <3>4. FlushesHaveWork'
      BY <2>1, <3>1, <3>2 DEF TypeOK, FlushesHaveWork
    <3> QED BY <3>1, <3>3, <3>4
  <2> QED BY <2>2, <2>3
<1>5. ASSUME NEW f \in Flushers, MeterRefuses(f) PROVE Goal
  <2>1. PICK counted \in SUBSET {Head(rest[f])} :
          /\ busy = None /\ pc[f] = "meter"
          /\ metered' = metered \cup counted
          /\ pc' = [pc EXCEPT ![f] = "rewrite"] /\ busy' = f
          /\ Cleared
          /\ UNCHANGED <<accepted, taken, exposed, rest>>
    BY <1>5 DEF MeterRefuses
  <2>2. TypeOK' /\ WholeLine' /\ mishaps \subseteq mishaps'
    BY <2>1, <1>H, ClearedFile DEF TypeOK
  <2>3. FlushesHaveWork'
    BY <2>1 DEF TypeOK, FlushesHaveWork
  <2> QED BY <2>2, <2>3
<1>6. ASSUME NEW f \in Flushers, MeterRaises(f) PROVE Goal
  <2>1. PICK counted \in SUBSET {Head(rest[f])} :
          /\ busy = None /\ pc[f] = "meter"
          /\ metered' = metered \cup counted
          /\ pc' = [pc EXCEPT ![f] = "idle"]
          /\ rest' = [rest EXCEPT ![f] = << >>]
          /\ UNCHANGED <<lines, junk, ragged, accepted, taken, exposed, busy, mishaps>>
    BY <1>6 DEF MeterRaises, file
  <2>2. TypeOK' /\ WholeLine'
    BY <2>1, <1>H DEF TypeOK, WholeLine
  <2>3. FlushesHaveWork'
    BY <2>1 DEF TypeOK, FlushesHaveWork
  <2> QED BY <2>1, <2>2, <2>3
<1>7. ASSUME NEW f \in Flushers, Rewrites(f) PROVE Goal
  <2>1. CASE rest[f] = << >>
    <3>1. /\ pc[f] = "rewrite" /\ pc' = [pc EXCEPT ![f] = "idle"] /\ busy' = None
          /\ UNCHANGED <<lines, junk, ragged, exposed, rest, mishaps, accepted, metered, taken>>
      BY <1>7, <2>1 DEF Rewrites, file
    <3>2. TypeOK' /\ WholeLine'
      BY <3>1 DEF TypeOK, WholeLine
    <3>3. FlushesHaveWork'
      BY <3>1 DEF TypeOK, FlushesHaveWork
    <3> QED BY <3>1, <3>2, <3>3
  <2>2. CASE rest[f] # << >>
    <3>1. /\ pc[f] = "rewrite" /\ busy = f /\ UNCHANGED <<accepted, metered, taken>>
          /\ Tail(rest[f]) \in Seq(Entries) /\ exposed' \subseteq Entries
          /\ rest' = [rest EXCEPT ![f] = Tail(rest[f])] /\ UNCHANGED <<pc, busy>>
          /\ UNCHANGED <<lines, junk, ragged, mishaps>> \/ (FindsRoom /\ Lands(Head(rest[f])))
      BY <1>7, <2>2, EntryWrittenBack
    <3>2. /\ lines' \in Seq(Entries) /\ junk' \in Nat
          /\ ragged' \in {"no", "part", "whole"} /\ WholeLine'
          /\ mishaps \subseteq mishaps' /\ mishaps' \in SUBSET {"clear", "count"}
      <4>1. CASE UNCHANGED <<lines, junk, ragged, mishaps>>
        BY <4>1 DEF TypeOK, WholeLine
      <4>2. CASE FindsRoom /\ Lands(Head(rest[f]))
        BY <4>2, RoomFound DEF Lands
      <4> QED BY <3>1, <4>1, <4>2
    <3>3. TypeOK'
      BY <3>1, <3>2 DEF TypeOK
    <3>4. FlushesHaveWork'
      BY <3>1 DEF TypeOK, FlushesHaveWork
    <3> QED BY <3>2, <3>3, <3>4
  <2> QED BY <2>1, <2>2
<1>8. ASSUME NEW f \in Flushers, RewriteFails(f) PROVE Goal
  <2>1. /\ TearsRewrite(f) /\ pc' = [pc EXCEPT ![f] = "idle"]
        /\ rest' = [rest EXCEPT ![f] = << >>] /\ busy' = None
    BY <1>8 DEF RewriteFails
  <2>2. TypeOK' /\ WholeLine' /\ mishaps \subseteq mishaps'
    BY <2>1, <1>W DEF TypeOK
  <2>3. FlushesHaveWork'
    BY <2>1, <1>W DEF TypeOK, FlushesHaveWork
  <2> QED BY <2>2, <2>3
<1>9. ASSUME Crash PROVE Goal
  <2>1. CutShort \subseteq Entries
    BY DEF CutShort, Elems, TypeOK
  <2>2. /\ Restarts /\ exposed' = exposed \cup CutShort
        /\ UNCHANGED <<lines, junk, ragged, accepted, metered, taken, mishaps>>
    BY <1>9 DEF Crash, file
  <2> QED BY <1>R, <2>1, <2>2 DEF TypeOK, WholeLine
<1>10. ASSUME CrashInAppend PROVE Goal
  <2>1. Restarts
    BY <1>10 DEF CrashInAppend
  <2>2. ASSUME NEW e \in Entries, TearsEntry(e) PROVE Goal
    BY <2>1, <2>2, <1>E, <1>R
  <2>3. ASSUME NEW f \in Flushers, TearsRewrite(f) PROVE Goal
    <3>1. accepted' \in Seq(Entries)
      BY <2>3, <1>W DEF TypeOK
    <3> QED BY <2>1, <2>3, <3>1, <1>W, <1>R
  <2> QED BY <1>10, <2>2, <2>3 DEF CrashInAppend
<1>11. CASE UNCHANGED vars
  BY <1>11 DEF vars, file, TypeOK, FlushesHaveWork, WholeLine
<1> QED
  BY <1>1, <1>a, <1>2, <1>3, <1>4, <1>5, <1>6, <1>7, <1>8, <1>9, <1>10, <1>11 DEF Next

(***************************************************************************)
(* While count has not failed, a step keeps what is owed within reach.     *)
(***************************************************************************)
LEMMA CoveredStep ==
  ASSUME Shape, Shape', WithinLimit', Covered, [Next]_vars
  PROVE  Covered'
<1> USE QueueAssumption, ElemsEmpty DEF Shape
<1>M. mishaps \subseteq mishaps' /\ WithinLimit
  BY ShapeStep DEF WithinLimit
<1>T. /\ RewriteFits /\ FlushesCoverOwed /\ OwedKept /\ None \notin Flushers
      /\ Len(lines) + junk <= MaxEntries
      /\ lines \in Seq(Entries) /\ Len(lines) \in Nat /\ junk \in Nat /\ MaxEntries \in Nat
      /\ rest \in [Flushers -> Seq(Entries)] /\ pc \in [Flushers -> {"idle", "meter", "rewrite"}]
      /\ \A f \in Flushers : Len(rest[f]) \in Nat
      /\ \A f \in Flushers : pc[f] = "rewrite" <=> busy = f
      /\ \A f \in Flushers : pc[f] = "meter" => rest[f] # << >>
  BY <1>M DEF Covered, QueueBounded, TypeOK, FlushesHaveWork
<1>L. Len(<< >>) = 0
  OBVIOUS
\* A clear leaves the file as it is, or empty.
<1>C. ASSUME Cleared
      PROVE  /\ Len(lines') + junk' <= MaxEntries /\ QueueBounded'
             /\ \/ lines' = << >> /\ junk' = 0 /\ ragged' = "no"
                \/ lines' = lines /\ junk' = junk /\ ragged' = ragged
  <2>1. \/ lines' = << >> /\ junk' = 0 /\ ragged' = "no"
        \/ lines' = lines /\ junk' = junk /\ ragged' = ragged
    BY <1>C, ClearedFile
  <2> QED BY <2>1, <1>T, <1>L DEF QueueBounded
<1>B. ASSUME UNCHANGED <<lines, junk>> PROVE QueueBounded'
  BY <1>B, <1>T DEF QueueBounded
\* What a write leaves of what is owed.
<1>W. ASSUME NEW e \in Entries, FindsRoom, Lands(e)
      PROVE  /\ QueueBounded' /\ ~Full /\ Len(lines') + junk' <= Len(lines) + junk + 1
             /\ Elems(lines) \subseteq Elems(lines') \cup Unended
  <2>1. ~Full /\ Len(lines) + junk + 1 <= MaxEntries
    BY <1>W, RoomFound
  <2>2. /\ Len(lines') + junk' <= Len(lines) + junk + 1 /\ Len(lines') \in Nat /\ junk' \in Nat
        /\ Elems(lines) \subseteq Elems(lines') \cup Unended
    BY <1>W DEF Lands
  <2> QED BY <2>1, <2>2, <1>T DEF QueueBounded
<1>E. ASSUME NEW e \in Entries, AppendEntry(e) \/ TearsEntry(e), busy' = None,
             \A f \in Flushers : /\ pc'[f] # "rewrite"
                                 /\ pc'[f] = "meter" => pc[f] = "meter" /\ rest'[f] = rest[f]
                                 /\ rest'[f] \in {rest[f], << >>}
      PROVE  Covered'
  <2>1. /\ busy = None /\ UNCHANGED <<metered, taken>> /\ Lands(e) /\ FindsRoom
        /\ accepted' \in {accepted, Append(accepted, e)}
        /\ exposed \subseteq exposed' /\ Unended \subseteq exposed' /\ DuringFlush(e) \subseteq exposed'
        /\ e \in Elems(lines') \cup exposed' \/ accepted' = accepted
    BY <1>E, EntryComes
  <2>2. Elems(accepted') \subseteq Elems(accepted) \cup {e}
    <3>1. accepted \in Seq(Entries) /\ Elems(Append(accepted, e)) = Elems(accepted) \cup {e}
      BY ElemsAppend DEF TypeOK
    <3> QED BY <2>1, <3>1
  <2>3. Owed' \subseteq Owed \cup {e} /\ Owed' \cap exposed' = {}
    BY <2>1, <2>2 DEF Owed
  <2>4. e \in Owed' => e \in Owed \/ e \in Elems(lines')
    BY <2>1, <2>3 DEF Owed
  <2>5. QueueBounded' /\ Elems(lines) \subseteq Elems(lines') \cup Unended
    BY <2>1, <1>W
  <2>6. OwedKept'
    <3>1. Owed \subseteq Elems(lines)
      BY <2>1, <1>T DEF OwedKept
    <3> QED BY <3>1, <2>1, <2>3, <2>4, <2>5 DEF OwedKept
  <2>7. RewriteFits'
    <3>1. \A f \in Flushers : Len(rest'[f]) <= MaxEntries
      BY <1>E, <1>L, <1>T DEF RewriteFits
    <3> QED BY <3>1, <1>E DEF RewriteFits
  <2>8. FlushesCoverOwed'
    <3> SUFFICES ASSUME NEW f \in Flushers, pc'[f] = "meter" PROVE Owed' \subseteq Elems(rest'[f])
      BY DEF FlushesCoverOwed
    <3>1. pc[f] = "meter" /\ rest'[f] = rest[f] /\ Owed \subseteq Elems(rest[f])
      BY <1>E, <1>T DEF FlushesCoverOwed
    <3>2. e \in exposed'
      BY <2>1, <3>1 DEF DuringFlush
    <3> QED BY <2>3, <3>1, <3>2
  <2> QED BY <2>5, <2>6, <2>7, <2>8 DEF Covered
<1>1. ASSUME NEW e \in Entries, AppendEntry(e) \/ AppendFails(e) PROVE Covered'
  <2>1. (AppendEntry(e) \/ TearsEntry(e)) /\ UNCHANGED <<pc, rest, busy>>
    BY <1>1 DEF AppendEntry, AppendFails
  <2>2. busy = None
    BY <2>1, EntryComes
  <2> QED BY <2>1, <2>2, <1>E, <1>T
<1>2. ASSUME DequeueAll PROVE Covered'
  <2>1. /\ Cleared
        /\ taken' = taken \cup Elems(lines)
        /\ UNCHANGED <<accepted, metered, exposed, pc, rest, busy>>
        /\ busy = None
    BY <1>2 DEF DequeueAll
  <2>4. RewriteFits'
    BY <2>1, <1>T DEF RewriteFits
  <2>5. Owed' = {}
    BY <2>1, <1>T DEF OwedKept, Owed
  <2>6. FlushesCoverOwed' /\ OwedKept'
    BY <2>5, <2>1 DEF FlushesCoverOwed, OwedKept
  <2> QED BY <2>1, <2>4, <2>6, <1>C DEF Covered
<1>3. ASSUME NEW f \in Flushers, FlushBegins(f) PROVE Covered'
  <2>1. /\ UNCHANGED <<lines, junk, ragged, accepted, metered, taken, exposed, busy>>
        /\ pc' = [pc EXCEPT ![f] = "meter"] /\ rest' = [rest EXCEPT ![f] = lines]
        /\ busy = None /\ lines # << >>
    BY <1>3 DEF FlushBegins, file
  <2>2. Len(lines) <= MaxEntries
    BY <1>T
  <2>3. RewriteFits'
    BY <2>1, <2>2, <1>T DEF RewriteFits
  <2>4. Owed' = Owed /\ Owed \subseteq Elems(lines)
    BY <2>1, <1>T DEF OwedKept, Owed
  <2>5. FlushesCoverOwed' /\ OwedKept'
    BY <2>1, <2>4, <1>T DEF FlushesCoverOwed, OwedKept
  <2> QED BY <2>1, <2>3, <2>5, <1>B DEF Covered
<1>4. ASSUME NEW f \in Flushers, MeterCounts(f) PROVE Covered'
  <2>1. /\ busy = None /\ pc[f] = "meter"
        /\ metered' = metered \cup {Head(rest[f])}
        /\ rest' = [rest EXCEPT ![f] = Tail(rest[f])]
        /\ UNCHANGED <<accepted, taken, exposed, busy>>
    BY <1>4 DEF MeterCounts
  <2>2. rest[f] \in Seq(Entries) /\ rest[f] # << >> /\ Owed \subseteq Elems(rest[f])
    BY <2>1, <1>T DEF FlushesCoverOwed
  <2>3. /\ Tail(rest[f]) \in Seq(Entries) /\ Head(rest[f]) \in Entries
        /\ Len(Tail(rest[f])) = Len(rest[f]) - 1 /\ Len(rest[f]) \in Nat \ {0}
        /\ Elems(rest[f]) = {Head(rest[f])} \cup Elems(Tail(rest[f]))
    BY <2>2, ElemsTail
  <2>4. Owed' = Owed \ {Head(rest[f])} /\ Owed' \subseteq Elems(Tail(rest[f]))
    BY <2>1, <2>2, <2>3 DEF Owed
  <2>9. \A g \in Flushers : Len(rest'[g]) <= MaxEntries
    <3>1. Len(Tail(rest[f])) <= MaxEntries
      BY <2>3, <1>T DEF RewriteFits
    <3> QED BY <2>1, <3>1, <1>T DEF RewriteFits
  <2>5. CASE Len(rest[f]) = 1
    <3>1. Cleared /\ pc' = [pc EXCEPT ![f] = "idle"]
      BY <1>4, <2>5 DEF MeterCounts
    <3>2. Owed' = {}
      BY <2>3, <2>4, <2>5 DEF Elems
    <3>4. RewriteFits'
      BY <2>1, <2>9, <3>1, <1>T DEF RewriteFits
    <3>5. FlushesCoverOwed' /\ OwedKept'
      BY <2>1, <3>1, <3>2, <1>T DEF FlushesCoverOwed, OwedKept
    <3> QED BY <3>1, <3>4, <3>5, <1>C DEF Covered
  <2>6. CASE Len(rest[f]) # 1
    <3>1. UNCHANGED <<lines, junk, ragged, pc>>
      BY <1>4, <2>6 DEF MeterCounts, file
    <3>4. RewriteFits'
      BY <2>1, <2>9, <3>1, <1>T DEF RewriteFits
    <3>5. FlushesCoverOwed' /\ OwedKept'
      BY <2>1, <2>4, <3>1, <1>T DEF FlushesCoverOwed, OwedKept
    <3> QED BY <3>1, <3>4, <3>5, <1>B DEF Covered
  <2> QED BY <2>5, <2>6
<1>5. ASSUME NEW f \in Flushers, MeterRefuses(f) PROVE Covered'
  <2>1. PICK counted \in SUBSET {Head(rest[f])} :
          /\ busy = None /\ pc[f] = "meter"
          /\ metered' = metered \cup counted
          /\ pc' = [pc EXCEPT ![f] = "rewrite"] /\ busy' = f
          /\ Cleared
          /\ UNCHANGED <<accepted, taken, exposed, rest>>
    BY <1>5 DEF MeterRefuses
  <2>2. Owed \subseteq Elems(rest[f])
    BY <2>1, <1>T DEF FlushesCoverOwed
  <2>4. Owed' \subseteq Owed
    BY <2>1 DEF Owed
  <2>8. (ragged' = "no" /\ Len(lines') + junk' + Len(rest[f]) <= MaxEntries)
          \/ Owed' \subseteq Elems(lines')
    <3>1. CASE lines' = << >> /\ junk' = 0 /\ ragged' = "no"
      BY <3>1, <1>L, <1>T DEF RewriteFits
    <3>2. CASE lines' = lines
      BY <3>2, <2>1, <2>4, <1>T DEF OwedKept
    <3> QED BY <3>1, <3>2, <2>1, <1>C
  <2>9. \A g \in Flushers : pc'[g] = "rewrite" => g = f
    BY <2>1, <1>T
  <2>10. RewriteFits'
    BY <2>1, <2>8, <2>9, <1>T DEF RewriteFits
  <2>7. FlushesCoverOwed' /\ OwedKept'
    BY <2>1, <2>2, <2>4, <1>T DEF FlushesCoverOwed, OwedKept
  <2> QED BY <2>1, <2>7, <2>10, <1>C DEF Covered
<1>6. ASSUME NEW f \in Flushers, MeterRaises(f) PROVE Covered'
  <2>1. PICK counted \in SUBSET {Head(rest[f])} :
          /\ busy = None /\ pc[f] = "meter"
          /\ metered' = metered \cup counted
          /\ pc' = [pc EXCEPT ![f] = "idle"]
          /\ rest' = [rest EXCEPT ![f] = << >>]
          /\ UNCHANGED <<lines, junk, ragged, accepted, taken, exposed, busy>>
    BY <1>6 DEF MeterRaises, file
  <2>4. Owed' \subseteq Owed
    BY <2>1 DEF Owed
  <2>6. RewriteFits'
    BY <2>1, <1>L, <1>T DEF RewriteFits
  <2>7. FlushesCoverOwed' /\ OwedKept'
    BY <2>1, <2>4, <1>T DEF FlushesCoverOwed, OwedKept
  <2> QED BY <2>1, <2>6, <2>7, <1>B DEF Covered
<1>7. ASSUME NEW f \in Flushers, Rewrites(f) PROVE Covered'
  <2>2. CASE rest[f] # << >>
    <3>1. /\ pc[f] = "rewrite" /\ busy = f /\ UNCHANGED <<accepted, metered, taken>>
          /\ Tail(rest[f]) \in Seq(Entries) /\ Head(rest[f]) \in Entries
          /\ Len(Tail(rest[f])) = Len(rest[f]) - 1 /\ Len(rest[f]) \in Nat \ {0}
          /\ Elems(rest[f]) = {Head(rest[f])} \cup Elems(Tail(rest[f]))
          /\ exposed \subseteq exposed'
          /\ rest' = [rest EXCEPT ![f] = Tail(rest[f])] /\ UNCHANGED <<pc, busy>>
          /\ \/ Full /\ UNCHANGED <<lines, junk, ragged, exposed, mishaps>>
             \/ /\ FindsRoom /\ Lands(Head(rest[f])) /\ LineWritten(Head(rest[f]))
                /\ Unended \subseteq exposed'
                /\ Head(rest[f]) \in Elems(lines') \cup exposed'
      BY <1>7, <2>2, EntryWrittenBack
    <3>2. Owed' \subseteq Owed /\ Owed' \cap exposed' = {}
      BY <3>1 DEF Owed
    <3>3. rest'[f] = Tail(rest[f]) /\ \A g \in Flushers : g # f => rest'[g] = rest[g]
      BY <3>1, <1>T
    <3>4. \A g \in Flushers : pc'[g] = "rewrite" => g = f
      BY <3>1, <1>T
    <3>5. \A g \in Flushers : Len(rest'[g]) <= MaxEntries
      <4>1. Len(Tail(rest[f])) <= MaxEntries
        BY <3>1, <1>T DEF RewriteFits
      <4> QED BY <4>1, <3>3, <1>T DEF RewriteFits
    <3>6. FlushesCoverOwed'
      BY <3>1, <3>2, <3>3, <1>T DEF FlushesCoverOwed
    <3>7. Owed \subseteq Elems(lines) \cup Elems(rest[f])
      BY <3>1, <1>T DEF OwedKept
    <3>8. (ragged = "no" /\ Len(lines) + junk + Len(rest[f]) <= MaxEntries)
            \/ Owed \subseteq Elems(lines)
      BY <3>1, <1>T DEF RewriteFits
    <3>9. CASE Full /\ UNCHANGED <<lines, junk, ragged, exposed, mishaps>>
      <4>1. Owed \subseteq Elems(lines)
        BY <3>1, <3>8, <3>9, <1>T DEF Full
      <4>2. RewriteFits'
        BY <3>2, <3>5, <3>9, <4>1 DEF RewriteFits
      <4>3. OwedKept'
        BY <3>2, <3>9, <4>1 DEF OwedKept
      <4> QED BY <3>6, <3>9, <4>2, <4>3, <1>B DEF Covered
    <3>10. CASE /\ FindsRoom /\ Lands(Head(rest[f])) /\ LineWritten(Head(rest[f]))
                /\ Unended \subseteq exposed'
                /\ Head(rest[f]) \in Elems(lines') \cup exposed'
      <4>1. /\ QueueBounded' /\ Len(lines') + junk' <= Len(lines) + junk + 1
            /\ Elems(lines) \subseteq Elems(lines') \cup exposed'
        BY <3>1, <3>10, <1>W
      <4>2. (ragged' = "no" /\ Len(lines') + junk' + Len(rest'[f]) <= MaxEntries)
              \/ Owed' \subseteq Elems(lines')
        <5>1. CASE Owed \subseteq Elems(lines)
          BY <3>2, <4>1, <5>1
        <5>2. CASE ragged = "no" /\ Len(lines) + junk + Len(rest[f]) <= MaxEntries
          <6>1. ragged' = "no"
            BY <3>10 DEF LineWritten
          <6>2. Len(lines') \in Nat /\ junk' \in Nat
            BY <3>10 DEF Lands
          <6>3. Len(rest'[f]) = Len(rest[f]) - 1
            BY <3>1, <3>3
          <6>4. \A a, b, d, k, m \in Nat, r \in Nat \ {0} :
                  a + b <= d + k + 1 /\ d + k + r <= m => a + b + (r - 1) <= m
            OBVIOUS
          <6>5. Len(lines') + junk' + (Len(rest[f]) - 1) <= MaxEntries
            BY <3>1, <4>1, <5>2, <6>2, <6>4, <1>T
          <6> QED BY <6>1, <6>3, <6>5
        <5> QED BY <3>8, <5>1, <5>2
      <4>3. RewriteFits'
        BY <3>4, <3>5, <4>2 DEF RewriteFits
      <4>4. Owed' \subseteq Elems(lines') \cup Elems(rest'[f])
        BY <3>1, <3>2, <3>3, <3>7, <3>10, <4>1
      <4>5. OwedKept'
        BY <3>1, <4>4, <1>T DEF OwedKept
      <4> QED BY <3>6, <4>1, <4>3, <4>5 DEF Covered
    <3> QED BY <3>1, <3>9, <3>10
  <2>3. CASE rest[f] = << >>
    <3>1. /\ pc[f] = "rewrite" /\ busy = f /\ pc' = [pc EXCEPT ![f] = "idle"] /\ busy' = None
          /\ UNCHANGED <<lines, junk, ragged, accepted, metered, taken, exposed, rest>>
      BY <1>7, <2>3, <1>T DEF Rewrites, file
    <3>2. Owed' = Owed /\ Owed \subseteq Elems(lines)
      BY <2>3, <3>1, <1>T DEF Owed, OwedKept
    <3>3. RewriteFits'
      BY <3>1, <1>T DEF RewriteFits
    <3>4. FlushesCoverOwed' /\ OwedKept'
      BY <3>1, <3>2, <1>T DEF FlushesCoverOwed, OwedKept
    <3> QED BY <3>1, <3>3, <3>4, <1>B DEF Covered
  <2> QED BY <2>2, <2>3
\* Whatever a write-back that is cut short has not written is exposed.
<1>S. ASSUME NEW f \in Flushers, TearsRewrite(f), busy' = None,
             \A g \in Flushers : /\ pc'[g] # "rewrite"
                                 /\ pc'[g] = "meter" => pc[g] = "meter" /\ rest'[g] = rest[g]
                                 /\ rest'[g] \in {rest[g], << >>}
      PROVE  Covered'
  <2>1. rest[f] # << >>
    BY <1>S DEF TearsRewrite
  <2>2. /\ busy = f /\ UNCHANGED <<accepted, metered, taken>> /\ Head(rest[f]) \in Entries
        /\ exposed \subseteq exposed' /\ Elems(rest[f]) \subseteq exposed'
        /\ \/ UNCHANGED <<lines, junk, ragged, mishaps>>
           \/ FindsRoom /\ Lands(Head(rest[f])) /\ Unended \subseteq exposed'
    BY <1>S, <2>1, EntryWrittenBack
  <2>3. Owed' \subseteq Owed /\ Owed' \cap exposed' = {} /\ Owed \subseteq Elems(lines) \cup Elems(rest[f])
    BY <2>2, <1>T DEF Owed, OwedKept
  <2>4. QueueBounded' /\ Elems(lines) \subseteq Elems(lines') \cup exposed'
    BY <2>2, <1>B, <1>W
  <2>5. OwedKept'
    BY <1>S, <2>2, <2>3, <2>4 DEF OwedKept
  <2>6. RewriteFits'
    BY <1>S, <1>L, <1>T DEF RewriteFits
  <2>7. FlushesCoverOwed'
    BY <1>S, <2>3, <1>T DEF FlushesCoverOwed
  <2> QED BY <2>4, <2>5, <2>6, <2>7 DEF Covered
<1>8. ASSUME NEW f \in Flushers, RewriteFails(f) PROVE Covered'
  <2>1. /\ TearsRewrite(f) /\ pc[f] = "rewrite" /\ pc' = [pc EXCEPT ![f] = "idle"]
        /\ rest' = [rest EXCEPT ![f] = << >>] /\ busy' = None
    BY <1>8 DEF RewriteFails, TearsRewrite
  <2> QED BY <2>1, <1>S, <1>T
<1>9. ASSUME Restarts
      PROVE  /\ busy' = None
             /\ \A g \in Flushers : pc'[g] = "idle" /\ rest'[g] = << >>
  BY <1>9 DEF Restarts
<1>10. ASSUME Crash PROVE Covered'
  <2>1. /\ Restarts /\ exposed' = exposed \cup CutShort
        /\ UNCHANGED <<lines, junk, accepted, metered, taken>>
    BY <1>10 DEF Crash, file
  <2>2. Owed' \subseteq Owed /\ Owed' \cap CutShort = {}
    BY <2>1 DEF Owed
  <2>3. OwedKept'
    BY <1>9, <2>1, <2>2, <1>T DEF OwedKept, CutShort
  <2>4. RewriteFits' /\ FlushesCoverOwed'
    BY <1>9, <2>1, <1>L DEF RewriteFits, FlushesCoverOwed
  <2> QED BY <2>1, <2>3, <2>4, <1>B DEF Covered
<1>11. ASSUME CrashInAppend PROVE Covered'
  BY <1>9, <1>11, <1>E, <1>S DEF CrashInAppend
<1>12. CASE UNCHANGED vars
  BY <1>12, <1>T, <1>B DEF vars, file, Covered, RewriteFits, FlushesCoverOwed, OwedKept, Owed
<1> QED
  BY <1>1, <1>2, <1>3, <1>4, <1>5, <1>6, <1>7, <1>8, <1>10, <1>11, <1>12 DEF Next

(***************************************************************************)
(* QueueInv holds in every state: whatever fails, flushes that overlap     *)
(* have before them all that is owed, and what they write back fits, or is *)
(* in the file that a failed clear left.                                   *)
(***************************************************************************)
THEOREM QueueInvariant == Spec => []QueueInv
<1>0. QueueInv <=> Shape /\ (WithinLimit => Covered)
  BY DEF QueueInv, Shape, WholeLine
<1>1. ASSUME Init PROVE QueueInv
  <2>1. TypeOK /\ WholeLine
    BY <1>1, QueueAssumption DEF Init, TypeOK, WholeLine
  <2>2. FlushesHaveWork /\ FlushesCoverOwed /\ RewriteFits
    BY <1>1, QueueAssumption DEF Init, FlushesHaveWork, FlushesCoverOwed, RewriteFits
  <2>3. OwedKept
    BY <1>1, ElemsEmpty DEF Init, OwedKept, Owed
  <2>4. QueueBounded
    BY <1>1, QueueAssumption DEF Init, QueueBounded
  <2> QED BY <1>0, <2>1, <2>2, <2>3, <2>4 DEF Shape, Covered
<1>2. QueueInv /\ [Next]_vars => QueueInv'
  <2> SUFFICES ASSUME QueueInv, [Next]_vars PROVE QueueInv'
    OBVIOUS
  <2>1. Shape /\ (WithinLimit => Covered)
    BY <1>0
  <2>2. Shape' /\ mishaps \subseteq mishaps'
    BY <2>1, ShapeStep
  <2>3. WithinLimit' => WithinLimit
    BY <2>2 DEF WithinLimit
  <2>4. WithinLimit' => Covered'
    BY <2>1, <2>2, <2>3, CoveredStep
  <2> QED BY <2>2, <2>4 DEF QueueInv, Shape, WholeLine
<1> QED BY <1>1, <1>2, PTL DEF Spec

(***************************************************************************)
(* The usage that is lost is at most what came during a flush, what a      *)
(* write-back that was cut short had left, and what shared a line with a   *)
(* torn one, as long as count has let nothing into a full file: for any    *)
(* number of overlapping flushes, and clears, appends and crashes that     *)
(* fail or come at any point.                                              *)
(***************************************************************************)
THEOREM NoUsageLost == Spec => []NothingLost
<1>1. QueueInv => NothingLost
  BY DEF QueueInv, Covered, NothingLost
<1> QED BY <1>1, QueueInvariant, PTL

-----------------------------------------------------------------------------
(* The order.                                                              *)

\* x was accepted before y.
Before(acc, x, y) ==
  \E m, n \in 1..Len(acc) : m < n /\ acc[m] = x /\ acc[n] = y

\* The entries of s are in the order in which they were accepted, each once.
InOrder(acc, s) ==
  \A i, j \in 1..Len(s) : i < j => Before(acc, s[i], s[j])

\* Whatever was accepted before an entry of s comes before it in s, or is in done.
Preceded(acc, s, done) ==
  \A k \in 1..Len(s) : \A x \in Entries :
    Before(acc, x, s[k]) => x \in done \/ \E l \in 1..Len(s) : l < k /\ s[l] = x

\* Entries come from append only.
OnlyAccepted ==
  /\ metered \subseteq Elems(accepted)
  /\ Elems(lines) \subseteq Elems(accepted)
  /\ \A f \in Flushers : Elems(rest[f]) \subseteq Elems(accepted)

\* The file is in order, and so is what a flush has read; what the flush that has
\* the loop still writes back goes after what it has written.
QueuesInOrder ==
  /\ InOrder(accepted, lines)
  /\ \A f \in Flushers : InOrder(accepted, rest[f])
  /\ \A f \in Flushers : busy = f =>
       \A x \in Elems(lines), y \in Elems(rest[f]) : Before(accepted, x, y)

\* Accounted for, or exposed to one of the ways in which the file loses an entry.
Done == metered \cup taken \cup exposed

\* Nothing that was metered, and nothing that is to be, has overtaken an entry that
\* is not done with.
NoneOvertaken ==
  /\ \A x \in Entries, y \in metered : Before(accepted, x, y) => x \in Done
  /\ Preceded(accepted, lines, Done)
  /\ \A f \in Flushers : pc[f] = "meter" => Preceded(accepted, rest[f], Done)
  /\ \A f \in Flushers : busy = f => Full \/ Preceded(accepted, rest[f], Done \cup Elems(lines))

\* The inductive invariant behind QueueOrdered: the order of the file says nothing of
\* what the flushes under way will meter and write back, so it is stated of that too.
OrderInv ==
  /\ OnlyAccepted
  /\ "clear" \notin mishaps => QueuesInOrder
  /\ WithinLimit => NoneOvertaken

\* A new entry was accepted after all others, and changes nothing between them.
LEMMA AcceptedGrows ==
  ASSUME NEW acc \in Seq(Entries), NEW e \in Entries, e \notin Elems(acc),
         NEW grown, grown = Append(acc, e)
  PROVE  /\ \A x, y : Before(acc, x, y) => Before(grown, x, y)
         /\ \A x \in Elems(acc) : Before(grown, x, e)
         /\ \A x, y : Before(grown, x, y) /\ y # e => Before(acc, x, y)
         /\ \A x : Before(grown, x, e) => x \in Elems(acc)
<1>1. /\ Len(grown) = Len(acc) + 1 /\ grown[Len(acc) + 1] = e /\ Len(acc) \in Nat
      /\ \A i \in 1..Len(acc) : grown[i] = acc[i]
  OBVIOUS
<1>2. \A i \in 1..Len(acc) : acc[i] \in Elems(acc)
  BY DEF Elems
<1>3. ASSUME NEW x, NEW y, Before(acc, x, y) PROVE Before(grown, x, y)
  BY <1>1, <1>3 DEF Before
<1>4. ASSUME NEW x \in Elems(acc) PROVE Before(grown, x, e)
  <2>1. PICK i \in 1..Len(acc) : acc[i] = x
    BY DEF Elems
  <2> QED
    BY <1>1, <2>1 DEF Before
<1>5. ASSUME NEW x, NEW y, Before(grown, x, y)
      PROVE  (y # e => Before(acc, x, y)) /\ x \in Elems(acc)
  <2>1. PICK m, n \in 1..Len(grown) : m < n /\ grown[m] = x /\ grown[n] = y
    BY <1>5 DEF Before
  <2>2. m \in 1..Len(acc) /\ acc[m] = x
    BY <1>1, <2>1
  <2>3. ASSUME y # e PROVE n \in 1..Len(acc) /\ acc[n] = y
    BY <1>1, <2>1, <2>3
  <2> QED
    BY <1>2, <2>1, <2>2, <2>3 DEF Before
<1> QED
  BY <1>3, <1>4, <1>5

\* The order of a sequence to which an entry is appended, or whose head is taken.
LEMMA InOrderAppend ==
  ASSUME NEW acc, NEW s \in Seq(Entries), NEW e \in Entries,
         InOrder(acc, s), \A x \in Elems(s) : Before(acc, x, e)
  PROVE  InOrder(acc, Append(s, e))
<1> DEFINE t == Append(s, e)
<1>1. /\ Len(t) = Len(s) + 1 /\ t[Len(s) + 1] = e /\ Len(s) \in Nat
      /\ \A i \in 1..Len(s) : t[i] = s[i]
  OBVIOUS
<1> HIDE DEF t
<1> SUFFICES ASSUME NEW i \in 1..Len(t), NEW j \in 1..Len(t), i < j
             PROVE  Before(acc, t[i], t[j])
  BY DEF InOrder, t
<1>2. i \in 1..Len(s) /\ t[i] = s[i] /\ s[i] \in Elems(s)
  BY <1>1 DEF Elems
<1>3. CASE j \in 1..Len(s)
  BY <1>1, <1>2, <1>3 DEF InOrder
<1>4. CASE j = Len(s) + 1
  BY <1>1, <1>2, <1>4
<1> QED
  BY <1>1, <1>3, <1>4

\* What follows the head is in order, and was accepted after it.
LEMMA InOrderTail ==
  ASSUME NEW acc, NEW s \in Seq(Entries), s # << >>, InOrder(acc, s)
  PROVE  /\ InOrder(acc, Tail(s))
         /\ \A y \in Elems(Tail(s)) : Before(acc, Head(s), y)
<1>1. /\ Len(Tail(s)) = Len(s) - 1 /\ Len(s) \in Nat \ {0} /\ Head(s) = s[1]
      /\ \A i \in 1..Len(Tail(s)) : Tail(s)[i] = s[i + 1]
  BY ElemsTail
<1>2. ASSUME NEW i \in 1..Len(Tail(s)), NEW j \in 1..Len(Tail(s)), i < j
      PROVE  Before(acc, Tail(s)[i], Tail(s)[j])
  <2>1. i + 1 \in 1..Len(s) /\ j + 1 \in 1..Len(s) /\ i + 1 < j + 1
    BY <1>1, <1>2
  <2> QED
    BY <1>1, <2>1 DEF InOrder
<1>3. ASSUME NEW y \in Elems(Tail(s)) PROVE Before(acc, Head(s), y)
  <2>1. PICK i \in 1..Len(Tail(s)) : Tail(s)[i] = y
    BY DEF Elems
  <2>2. 1 \in 1..Len(s) /\ i + 1 \in 1..Len(s) /\ 1 < i + 1 /\ s[i + 1] = y
    BY <1>1, <2>1
  <2> QED
    BY <1>1, <2>2 DEF InOrder
<1> QED
  BY <1>2, <1>3 DEF InOrder

\* What comes before the entries of such a sequence.
LEMMA PrecededAppend ==
  ASSUME NEW acc, NEW done, NEW s \in Seq(Entries), NEW e \in Entries,
         Preceded(acc, s, done),
         \A x \in Entries : Before(acc, x, e) => x \in done \cup Elems(s)
  PROVE  Preceded(acc, Append(s, e), done)
<1> DEFINE t == Append(s, e)
<1>1. /\ Len(t) = Len(s) + 1 /\ t[Len(s) + 1] = e /\ Len(s) \in Nat
      /\ \A i \in 1..Len(s) : t[i] = s[i]
  OBVIOUS
<1> HIDE DEF t
<1> SUFFICES ASSUME NEW k \in 1..Len(t), NEW x \in Entries, Before(acc, x, t[k]), x \notin done
             PROVE  \E l \in 1..Len(t) : l < k /\ t[l] = x
  BY DEF Preceded, t
<1>2. CASE k \in 1..Len(s)
  <2>1. PICK l \in 1..Len(s) : l < k /\ s[l] = x
    BY <1>1, <1>2 DEF Preceded
  <2> QED
    BY <1>1, <2>1
<1>3. CASE k = Len(s) + 1
  <2>1. x \in Elems(s)
    BY <1>1, <1>3
  <2>2. PICK l \in 1..Len(s) : s[l] = x
    BY <2>1 DEF Elems
  <2> QED
    BY <1>1, <1>3, <2>2
<1> QED
  BY <1>1, <1>2, <1>3

\* Nothing but done comes before the head, and the rest has the head before it.
LEMMA PrecededTail ==
  ASSUME NEW acc, NEW done, NEW s \in Seq(Entries), s # << >>, Preceded(acc, s, done)
  PROVE  /\ \A x \in Entries : Before(acc, x, Head(s)) => x \in done
         /\ Preceded(acc, Tail(s), done \cup {Head(s)})
<1>1. /\ Len(Tail(s)) = Len(s) - 1 /\ Len(s) \in Nat \ {0} /\ Head(s) = s[1]
      /\ \A i \in 1..Len(Tail(s)) : Tail(s)[i] = s[i + 1]
  BY ElemsTail
<1>2. ASSUME NEW x \in Entries, Before(acc, x, Head(s)) PROVE x \in done
  <2>1. 1 \in 1..Len(s) /\ ~ \E l \in 1..Len(s) : l < 1
    BY <1>1
  <2> QED
    BY <1>1, <1>2, <2>1 DEF Preceded
<1>3. ASSUME NEW k \in 1..Len(Tail(s)), NEW x \in Entries, Before(acc, x, Tail(s)[k]),
             x \notin done \cup {Head(s)}
      PROVE  \E l \in 1..Len(Tail(s)) : l < k /\ Tail(s)[l] = x
  <2>1. k + 1 \in 1..Len(s) /\ Before(acc, x, s[k + 1])
    BY <1>1, <1>3
  <2>2. PICK l \in 1..Len(s) : l < k + 1 /\ s[l] = x
    BY <1>3, <2>1 DEF Preceded
  <2>3. l # 1
    BY <1>1, <1>3, <2>2
  <2>4. l - 1 \in 1..Len(Tail(s)) /\ l - 1 < k /\ Tail(s)[l - 1] = x
    BY <1>1, <2>2, <2>3
  <2> QED
    BY <2>4
<1> QED
  BY <1>2, <1>3 DEF Preceded

\* More that is accounted for does no harm.
LEMMA PrecededMore ==
  ASSUME NEW acc, NEW s, NEW done, NEW more, done \subseteq more, Preceded(acc, s, done)
  PROVE  Preceded(acc, s, more)
  BY DEF Preceded

\* The empty sequence.
LEMMA NothingInOrder ==
  /\ \A acc : InOrder(acc, << >>)
  /\ \A acc, done : Preceded(acc, << >>, done)
  BY DEF InOrder, Preceded

\* A file that loses its last line keeps its order.
LEMMA EndedInOrder ==
  ASSUME TypeOK, WholeLine, NEW acc
  PROVE  /\ InOrder(acc, lines) => InOrder(acc, Terminated)
         /\ \A done : Preceded(acc, lines, done) => Preceded(acc, Terminated, done)
<1>1. /\ Len(Terminated) \in Nat /\ Len(lines) \in Nat /\ Len(Terminated) <= Len(lines)
      /\ \A i \in 1..Len(Terminated) : Terminated[i] = lines[i]
  BY EndedFile
<1>2. \A i \in 1..Len(Terminated) : i \in 1..Len(lines)
  BY <1>1
<1>3. ASSUME InOrder(acc, lines) PROVE InOrder(acc, Terminated)
  BY <1>1, <1>2, <1>3 DEF InOrder
<1>4. ASSUME NEW done, Preceded(acc, lines, done) PROVE Preceded(acc, Terminated, done)
  <2> SUFFICES ASSUME NEW k \in 1..Len(Terminated), NEW x \in Entries, Before(acc, x, Terminated[k]), x \notin done
               PROVE  \E l \in 1..Len(Terminated) : l < k /\ Terminated[l] = x
    BY DEF Preceded
  <2>1. PICK l \in 1..Len(lines) : l < k /\ lines[l] = x
    BY <1>1, <1>2, <1>4 DEF Preceded
  <2>2. l \in 1..Len(Terminated)
    BY <1>1, <2>1
  <2> QED
    BY <1>1, <2>1, <2>2
<1> QED
  BY <1>3, <1>4

\* Every step moves entries that append accepted.
LEMMA OnlyAcceptedStep ==
  ASSUME Shape, OnlyAccepted, [Next]_vars
  PROVE  OnlyAccepted'
<1> USE DEF OnlyAccepted, Shape
<1>t. /\ lines \in Seq(Entries) /\ accepted \in Seq(Entries)
      /\ rest \in [Flushers -> Seq(Entries)]
  BY DEF TypeOK
<1>0. Elems(<< >>) = {}
  BY ElemsEmpty
<1>h. ASSUME NEW f \in Flushers, rest[f] # << >>
      PROVE  Head(rest[f]) \in Elems(accepted) /\ Elems(Tail(rest[f])) \subseteq Elems(accepted)
  <2>1. Elems(rest[f]) = {Head(rest[f])} \cup Elems(Tail(rest[f]))
    BY <1>t, <1>h, ElemsTail
  <2> QED
    BY <2>1
<1>m. ASSUME NEW f \in Flushers, pc[f] = "meter"
      PROVE  Head(rest[f]) \in Elems(accepted) /\ Elems(Tail(rest[f])) \subseteq Elems(accepted)
  BY <1>h, <1>m DEF FlushesHaveWork
<1>c. ASSUME Cleared PROVE Elems(lines') \subseteq Elems(accepted)
  BY <1>0, <1>c, ClearedFile
<1>e. Elems(Terminated) \subseteq Elems(lines)
  BY EndedFile
<1>E. ASSUME NEW e \in Entries, AppendEntry(e) \/ TearsEntry(e),
             \A f \in Flushers : rest'[f] \in {rest[f], << >>}
      PROVE  OnlyAccepted'
  <2>1. /\ Lands(e) /\ UNCHANGED metered
        /\ accepted' = Append(accepted, e) \/ (accepted' = accepted /\ lines' = Terminated)
    BY <1>E, EntryComes
  <2>2. Elems(Append(accepted, e)) = Elems(accepted) \cup {e}
    BY <1>t, ElemsAppend
  <2>3. Elems(lines') \subseteq Elems(lines) \cup {e}
    BY <2>1 DEF Lands
  <2>4. Elems(lines') \subseteq Elems(accepted') /\ Elems(accepted) \subseteq Elems(accepted')
    BY <1>e, <2>1, <2>2, <2>3
  <2> QED
    BY <1>E, <1>0, <2>1, <2>4
<1>S. ASSUME NEW f \in Flushers, rest[f] # << >>, Rewrites(f) \/ TearsRewrite(f)
      PROVE  UNCHANGED <<accepted, metered>> /\ Elems(lines') \subseteq Elems(accepted)
  <2>1. /\ UNCHANGED <<accepted, metered>>
        /\ lines' = lines \/ Lands(Head(rest[f]))
    BY <1>S, EntryWrittenBack
  <2>2. Elems(lines') \subseteq Elems(lines) \cup {Head(rest[f])}
    BY <2>1 DEF Lands
  <2> QED
    BY <1>h, <1>S, <2>1, <2>2
<1>1. ASSUME NEW e \in Entries, AppendEntry(e) \/ AppendFails(e) PROVE OnlyAccepted'
  <2>1. (AppendEntry(e) \/ TearsEntry(e)) /\ UNCHANGED rest
    BY <1>1 DEF AppendEntry, AppendFails
  <2> QED
    BY <1>E, <2>1
<1>2. ASSUME DequeueAll PROVE OnlyAccepted'
  BY <1>2, <1>c DEF DequeueAll
<1>3. ASSUME NEW f \in Flushers, FlushBegins(f) PROVE OnlyAccepted'
  BY <1>3, <1>t DEF FlushBegins, file
<1>4. ASSUME NEW f \in Flushers, MeterCounts(f) PROVE OnlyAccepted'
  <2>1. /\ metered' = metered \cup {Head(rest[f])} /\ rest' = [rest EXCEPT ![f] = Tail(rest[f])]
        /\ pc[f] = "meter" /\ accepted' = accepted /\ (Cleared \/ UNCHANGED file)
    BY <1>4 DEF MeterCounts
  <2>2. Elems(lines') \subseteq Elems(accepted)
    BY <1>c, <2>1 DEF file
  <2> QED
    BY <1>t, <1>m, <2>1, <2>2
<1>5. ASSUME NEW f \in Flushers, MeterRefuses(f) PROVE OnlyAccepted'
  <2>1. PICK counted \in SUBSET {Head(rest[f])} :
          metered' = metered \cup counted /\ pc[f] = "meter" /\ Cleared
          /\ UNCHANGED <<accepted, rest>>
    BY <1>5 DEF MeterRefuses
  <2> QED
    BY <1>c, <1>m, <2>1
<1>6. ASSUME NEW f \in Flushers, MeterRaises(f) PROVE OnlyAccepted'
  <2>1. PICK counted \in SUBSET {Head(rest[f])} :
          metered' = metered \cup counted /\ pc[f] = "meter"
          /\ rest' = [rest EXCEPT ![f] = << >>] /\ UNCHANGED <<lines, accepted>>
    BY <1>6 DEF MeterRaises, file
  <2> QED
    BY <1>0, <1>t, <1>m, <2>1
<1>7. ASSUME NEW f \in Flushers, Rewrites(f) PROVE OnlyAccepted'
  <2>1. CASE rest[f] = << >>
    BY <1>7, <2>1 DEF Rewrites, file
  <2>2. CASE rest[f] # << >>
    <3>1. rest' = [rest EXCEPT ![f] = Tail(rest[f])]
      BY <1>7, <2>2 DEF Rewrites
    <3> QED
      BY <1>h, <1>t, <1>S, <1>7, <2>2, <3>1
  <2> QED
    BY <2>1, <2>2
<1>8. ASSUME NEW f \in Flushers, TearsRewrite(f), \A g \in Flushers : rest'[g] \in {rest[g], << >>}
      PROVE  OnlyAccepted'
  <2>1. rest[f] # << >>
    BY <1>8 DEF TearsRewrite
  <2> QED
    BY <1>0, <1>S, <1>8, <2>1
<1>9. ASSUME NEW f \in Flushers, RewriteFails(f) PROVE OnlyAccepted'
  <2>1. TearsRewrite(f) /\ rest' = [rest EXCEPT ![f] = << >>]
    BY <1>9 DEF RewriteFails
  <2> QED
    BY <1>8, <1>t, <2>1
<1>10. ASSUME Restarts PROVE \A g \in Flushers : rest'[g] = << >>
  BY <1>10 DEF Restarts
<1>11. ASSUME Crash \/ CrashInAppend PROVE OnlyAccepted'
  <2>1. CASE Crash
    BY <1>0, <1>10, <2>1 DEF Crash, file
  <2>2. CASE CrashInAppend
    BY <1>8, <1>10, <1>E, <2>2 DEF CrashInAppend
  <2> QED
    BY <1>11, <2>1, <2>2
<1>12. CASE UNCHANGED vars
  BY <1>12 DEF vars, file
<1> QED
  BY <1>1, <1>2, <1>3, <1>4, <1>5, <1>6, <1>7, <1>9, <1>11, <1>12 DEF Next

\* The file stays in order, until clear fails.
LEMMA QueuesInOrderStep ==
  ASSUME Shape, OnlyAccepted, QueuesInOrder, [Next]_vars, "clear" \notin mishaps'
  PROVE  QueuesInOrder'
<1> USE DEF Shape
<1>t. /\ lines \in Seq(Entries) /\ accepted \in Seq(Entries)
      /\ rest \in [Flushers -> Seq(Entries)] /\ None \notin Flushers
      /\ pc \in [Flushers -> {"idle", "meter", "rewrite"}]
  BY QueueAssumption DEF TypeOK
<1>0. Elems(<< >>) = {} /\ \A acc : InOrder(acc, << >>)
  BY ElemsEmpty, NothingInOrder
<1>i. /\ InOrder(accepted, lines)
      /\ \A f \in Flushers : InOrder(accepted, rest[f])
      /\ \A f \in Flushers : busy = f =>
           \A x \in Elems(lines), y \in Elems(rest[f]) : Before(accepted, x, y)
  BY DEF QueuesInOrder
<1>c. ASSUME Cleared PROVE lines' = << >>
  BY <1>c, ClearedFile
<1>e. InOrder(accepted, Terminated) /\ Elems(Terminated) \subseteq Elems(lines)
  BY <1>i, EndedInOrder, EndedFile
<1>h. ASSUME NEW f \in Flushers, rest[f] # << >>
      PROVE  /\ Head(rest[f]) \in Entries /\ Tail(rest[f]) \in Seq(Entries)
             /\ Elems(rest[f]) = {Head(rest[f])} \cup Elems(Tail(rest[f]))
             /\ InOrder(accepted, Tail(rest[f]))
             /\ \A y \in Elems(Tail(rest[f])) : Before(accepted, Head(rest[f]), y)
  <2>1. rest[f] \in Seq(Entries) /\ InOrder(accepted, rest[f])
    BY <1>t, <1>i
  <2> QED
    BY <1>h, <2>1, ElemsTail, InOrderTail
<1>E. ASSUME NEW e \in Entries, AppendEntry(e) \/ TearsEntry(e), busy' = None,
             \A f \in Flushers : rest'[f] \in {rest[f], << >>}
      PROVE  QueuesInOrder'
  <2>1. /\ e \notin Elems(accepted) /\ Lands(e)
        /\ accepted' = Append(accepted, e) \/ (accepted' = accepted /\ lines' = Terminated)
    BY <1>E, EntryComes
  <2>2. CASE accepted' = Append(accepted, e)
    <3>1. /\ \A x, y : Before(accepted, x, y) => Before(accepted', x, y)
          /\ \A x \in Elems(accepted) : Before(accepted', x, e)
      BY <1>t, <2>1, <2>2, AcceptedGrows
    <3>2. \A s : InOrder(accepted, s) => InOrder(accepted', s)
      BY <3>1 DEF InOrder
    <3>3. \A x \in Elems(lines) : Before(accepted', x, e)
      BY <3>1 DEF OnlyAccepted
    <3>4. InOrder(accepted', Append(lines, e))
      BY <1>t, <1>i, <3>2, <3>3, InOrderAppend
    <3>5. lines' \in {Terminated, Append(lines, e)}
      BY <2>1 DEF Lands
    <3>6. InOrder(accepted', lines') /\ \A f \in Flushers : InOrder(accepted', rest'[f])
      BY <1>0, <1>E, <1>e, <1>i, <3>2, <3>4, <3>5
    <3> QED
      BY <1>E, <1>t, <3>6 DEF QueuesInOrder
  <2>3. CASE accepted' = accepted /\ lines' = Terminated
    <3>1. \A f \in Flushers : InOrder(accepted', rest'[f])
      BY <1>0, <1>E, <1>i, <2>3
    <3> QED
      BY <1>E, <1>e, <1>t, <2>3, <3>1 DEF QueuesInOrder
  <2> QED
    BY <2>1, <2>2, <2>3
\* What the next entry to be written back makes of the file.
<1>S. ASSUME NEW f \in Flushers, rest[f] # << >>, Rewrites(f) \/ TearsRewrite(f)
      PROVE  /\ busy = f /\ accepted' = accepted /\ InOrder(accepted, lines')
             /\ Elems(lines') \subseteq Elems(lines) \cup {Head(rest[f])}
  <2>1. /\ busy = f /\ accepted' = accepted
        /\ lines' = lines \/ Lands(Head(rest[f]))
    BY <1>S, EntryWrittenBack
  <2>2. Head(rest[f]) \in Entries /\ Elems(rest[f]) = {Head(rest[f])} \cup Elems(Tail(rest[f]))
    BY <1>h, <1>S
  <2>3. \A x \in Elems(lines) : Before(accepted, x, Head(rest[f]))
    BY <1>i, <2>1, <2>2
  <2>4. InOrder(accepted, Append(lines, Head(rest[f])))
    BY <1>i, <1>t, <2>2, <2>3, InOrderAppend
  <2>5. lines' \in {lines, Terminated, Append(lines, Head(rest[f]))}
        /\ Elems(lines') \subseteq Elems(lines) \cup {Head(rest[f])}
    BY <2>1 DEF Lands
  <2> QED
    BY <1>e, <1>i, <2>1, <2>4, <2>5
<1>1. ASSUME NEW e \in Entries, AppendEntry(e) \/ AppendFails(e) PROVE QueuesInOrder'
  <2>1. (AppendEntry(e) \/ TearsEntry(e)) /\ UNCHANGED <<rest, busy>>
    BY <1>1 DEF AppendEntry, AppendFails
  <2>2. busy = None
    BY <2>1, EntryComes
  <2> QED
    BY <1>E, <2>1, <2>2
<1>2. ASSUME DequeueAll PROVE QueuesInOrder'
  <2>1. lines' = << >> /\ busy = None /\ UNCHANGED <<accepted, rest, busy>>
    BY <1>2, <1>c DEF DequeueAll
  <2> QED
    BY <1>0, <1>i, <1>t, <2>1 DEF QueuesInOrder
<1>3. ASSUME NEW f \in Flushers, FlushBegins(f) PROVE QueuesInOrder'
  <2>1. /\ rest' = [rest EXCEPT ![f] = lines] /\ busy = None
        /\ UNCHANGED <<lines, accepted, busy>>
    BY <1>3 DEF FlushBegins, file
  <2> QED
    BY <1>i, <1>t, <2>1 DEF QueuesInOrder
<1>4. ASSUME NEW f \in Flushers, MeterCounts(f) PROVE QueuesInOrder'
  <2>1. /\ rest' = [rest EXCEPT ![f] = Tail(rest[f])] /\ busy = None /\ rest[f] # << >>
        /\ UNCHANGED <<accepted, busy>> /\ (Cleared \/ UNCHANGED file)
    BY <1>4 DEF MeterCounts, FlushesHaveWork
  <2>2. InOrder(accepted, lines')
    BY <1>0, <1>c, <1>i, <2>1 DEF file
  <2>3. \A g \in Flushers : InOrder(accepted, rest'[g])
    BY <1>h, <1>i, <1>t, <2>1
  <2> QED
    BY <1>t, <2>1, <2>2, <2>3 DEF QueuesInOrder
<1>5. ASSUME NEW f \in Flushers, MeterRefuses(f) PROVE QueuesInOrder'
  <2>1. lines' = << >> /\ UNCHANGED <<accepted, rest>>
    BY <1>5, <1>c DEF MeterRefuses
  <2> QED
    BY <1>0, <1>i, <2>1 DEF QueuesInOrder
<1>6. ASSUME NEW f \in Flushers, MeterRaises(f) PROVE QueuesInOrder'
  <2>1. /\ rest' = [rest EXCEPT ![f] = << >>] /\ busy = None
        /\ UNCHANGED <<lines, accepted, busy>>
    BY <1>6 DEF MeterRaises, file
  <2> QED
    BY <1>0, <1>i, <1>t, <2>1 DEF QueuesInOrder
<1>7. ASSUME NEW f \in Flushers, Rewrites(f) PROVE QueuesInOrder'
  <2>2. CASE rest[f] = << >>
    <3>1. busy' = None /\ UNCHANGED <<lines, rest, accepted>>
      BY <1>7, <2>2 DEF Rewrites, file
    <3> QED
      BY <1>i, <1>t, <3>1 DEF QueuesInOrder
  <2>3. CASE rest[f] # << >>
    <3>1. rest' = [rest EXCEPT ![f] = Tail(rest[f])] /\ busy' = busy
      BY <1>7, <2>3 DEF Rewrites
    <3>2. /\ busy = f /\ accepted' = accepted /\ InOrder(accepted, lines')
          /\ Elems(lines') \subseteq Elems(lines) \cup {Head(rest[f])}
      BY <1>7, <1>S, <2>3
    <3>3. /\ Elems(rest[f]) = {Head(rest[f])} \cup Elems(Tail(rest[f]))
          /\ InOrder(accepted, Tail(rest[f]))
          /\ \A y \in Elems(Tail(rest[f])) : Before(accepted, Head(rest[f]), y)
      BY <1>h, <2>3
    <3>8. \A g \in Flushers : InOrder(accepted, rest'[g])
      BY <1>i, <1>t, <3>1, <3>3
    <3>9. \A x \in Elems(lines'), y \in Elems(Tail(rest[f])) : Before(accepted, x, y)
      BY <1>i, <3>2, <3>3
    <3> QED
      BY <1>t, <3>1, <3>2, <3>8, <3>9 DEF QueuesInOrder
  <2> QED
    BY <2>2, <2>3
<1>8. ASSUME NEW f \in Flushers, TearsRewrite(f), busy' = None,
             \A g \in Flushers : rest'[g] \in {rest[g], << >>}
      PROVE  QueuesInOrder'
  <2>1. rest[f] # << >>
    BY <1>8 DEF TearsRewrite
  <2>2. accepted' = accepted /\ InOrder(accepted, lines')
    BY <1>8, <1>S, <2>1
  <2>3. \A g \in Flushers : InOrder(accepted, rest'[g])
    BY <1>0, <1>8, <1>i
  <2> QED
    BY <1>8, <1>t, <2>2, <2>3 DEF QueuesInOrder
<1>9. ASSUME NEW f \in Flushers, RewriteFails(f) PROVE QueuesInOrder'
  <2>1. TearsRewrite(f) /\ rest' = [rest EXCEPT ![f] = << >>] /\ busy' = None
    BY <1>9 DEF RewriteFails
  <2> QED
    BY <1>8, <1>t, <2>1
<1>10. ASSUME Restarts PROVE busy' = None /\ \A g \in Flushers : rest'[g] = << >>
  BY <1>10 DEF Restarts
<1>11. ASSUME Crash \/ CrashInAppend PROVE QueuesInOrder'
  <2>1. CASE Crash
    <3>1. UNCHANGED <<lines, accepted>>
      BY <2>1 DEF Crash, file
    <3>2. InOrder(accepted', lines') /\ \A g \in Flushers : InOrder(accepted', rest'[g])
      BY <1>0, <1>10, <1>i, <2>1, <3>1 DEF Crash
    <3> QED
      BY <1>10, <1>t, <2>1, <3>2 DEF Crash, QueuesInOrder
  <2>2. CASE CrashInAppend
    BY <1>8, <1>10, <1>E, <2>2 DEF CrashInAppend
  <2> QED
    BY <1>11, <2>1, <2>2
<1>12. CASE UNCHANGED vars
  BY <1>12, <1>i DEF vars, file, QueuesInOrder
<1> QED
  BY <1>1, <1>2, <1>3, <1>4, <1>5, <1>6, <1>7, <1>9, <1>11, <1>12 DEF Next

\* While count has not failed no entry is overtaken.
LEMMA NoneOvertakenStep ==
  ASSUME Shape, OnlyAccepted, WithinLimit', Covered, NoneOvertaken, [Next]_vars
  PROVE  NoneOvertaken'
<1> USE DEF Shape
<1>t. /\ lines \in Seq(Entries) /\ accepted \in Seq(Entries)
      /\ rest \in [Flushers -> Seq(Entries)] /\ None \notin Flushers
      /\ pc \in [Flushers -> {"idle", "meter", "rewrite"}]
      /\ metered \subseteq Entries /\ taken \subseteq Entries /\ exposed \subseteq Entries
  BY QueueAssumption DEF TypeOK
<1>0. Elems(<< >>) = {} /\ \A acc, more : Preceded(acc, << >>, more)
  BY ElemsEmpty, NothingInOrder
<1>n. /\ \A x \in Entries, y \in metered : Before(accepted, x, y) => x \in Done
      /\ Preceded(accepted, lines, Done)
      /\ \A f \in Flushers : pc[f] = "meter" => Preceded(accepted, rest[f], Done)
      /\ \A f \in Flushers : busy = f => Full \/ Preceded(accepted, rest[f], Done \cup Elems(lines))
  BY DEF NoneOvertaken
<1>w. \A f \in Flushers : (pc[f] = "rewrite" <=> busy = f) /\ (pc[f] = "meter" => rest[f] # << >>)
  BY DEF FlushesHaveWork
<1>c. ASSUME Cleared PROVE lines' = << >> \/ lines' = lines
  BY <1>c, ClearedFile
<1>e. \A more : Preceded(accepted, lines, more) => Preceded(accepted, Terminated, more)
  BY EndedInOrder
<1>p. ASSUME NEW more, Done \subseteq more
      PROVE  /\ Preceded(accepted, lines, more) /\ Preceded(accepted, Terminated, more)
             /\ \A f \in Flushers : pc[f] = "meter" => Preceded(accepted, rest[f], more)
  BY <1>e, <1>n, <1>p, PrecededMore
<1>m. ASSUME NEW f \in Flushers, pc[f] = "meter"
      PROVE  /\ Head(rest[f]) \in Entries /\ Tail(rest[f]) \in Seq(Entries)
             /\ \A x \in Entries : Before(accepted, x, Head(rest[f])) => x \in Done
             /\ Preceded(accepted, Tail(rest[f]), Done \cup {Head(rest[f])})
  <2>1. rest[f] \in Seq(Entries) /\ rest[f] # << >> /\ Preceded(accepted, rest[f], Done)
    BY <1>m, <1>n, <1>t, <1>w
  <2> QED
    BY <2>1, ElemsTail, PrecededTail
<1>d. Done = metered \cup taken \cup exposed /\ Done' = metered' \cup taken' \cup exposed'
  BY DEF Done
<1>u. ASSUME NEW f \in Flushers, pc[f] = "meter", NEW counted \in SUBSET {Head(rest[f])},
             metered' = metered \cup counted, UNCHANGED <<accepted, taken, exposed>>
      PROVE  \A x \in Entries, y \in metered' : Before(accepted', x, y) => x \in Done'
  BY <1>d, <1>m, <1>n, <1>u
<1>E. ASSUME NEW e \in Entries, AppendEntry(e) \/ TearsEntry(e), busy' = None,
             \A f \in Flushers : pc'[f] = "meter" => pc[f] = "meter" /\ rest'[f] = rest[f]
      PROVE  NoneOvertaken'
  <2>1. /\ busy = None /\ e \notin Elems(accepted) /\ UNCHANGED <<metered, taken>>
        /\ Lands(e) /\ exposed \subseteq exposed' /\ Unended \subseteq exposed'
        /\ accepted' = Append(accepted, e) \/ (accepted' = accepted /\ lines' = Terminated)
    BY <1>E, EntryComes
  <2>2. Done \subseteq Done'
    BY <1>d, <2>1
  <2>3. \A f \in Flushers : busy' # f
    BY <1>E, <1>t
  <2>4. CASE accepted' = accepted /\ lines' = Terminated
    <3>1. Preceded(accepted', lines', Done')
      BY <1>p, <2>2, <2>4
    <3>2. \A f \in Flushers : pc'[f] = "meter" => Preceded(accepted', rest'[f], Done')
      BY <1>E, <1>p, <2>2, <2>4
    <3>3. \A x \in Entries, y \in metered' : Before(accepted', x, y) => x \in Done'
      BY <1>n, <2>1, <2>2, <2>4
    <3> QED
      BY <2>3, <3>1, <3>2, <3>3 DEF NoneOvertaken
  <2>5. CASE accepted' = Append(accepted, e)
    <3>1. /\ \A x, y : Before(accepted', x, y) /\ y # e => Before(accepted, x, y)
          /\ \A x : Before(accepted', x, e) => x \in Elems(accepted)
      BY <1>t, <2>1, <2>5, AcceptedGrows
    <3>2. \A x \in Entries, y \in metered' : Before(accepted', x, y) => x \in Done'
      <4>1. \A y \in metered : y # e
        BY <2>1 DEF OnlyAccepted
      <4> QED
        BY <1>n, <2>1, <2>2, <3>1, <4>1
    <3>3. ASSUME NEW s, Preceded(accepted, s, Done'), Elems(s) \subseteq Elems(accepted)
          PROVE  Preceded(accepted', s, Done')
      <4>1. \A k \in 1..Len(s) : s[k] # e
        BY <2>1, <3>3 DEF Elems
      <4> QED
        BY <3>1, <3>3, <4>1 DEF Preceded
    <3>4. /\ Elems(lines) \subseteq Elems(accepted) /\ Elems(Terminated) \subseteq Elems(lines)
          /\ \A f \in Flushers : Elems(rest[f]) \subseteq Elems(accepted)
      BY EndedFile DEF OnlyAccepted
    <3>5. Preceded(accepted', lines, Done') /\ Preceded(accepted', Terminated, Done')
      BY <1>p, <2>2, <3>3, <3>4
    <3>6. Preceded(accepted', Append(lines, e), Done')
      <4>1. Elems(accepted) \subseteq Done \cup Elems(lines)
        BY <1>d, <2>1 DEF Covered, OwedKept, Owed
      <4>2. \A x \in Entries : Before(accepted', x, e) => x \in Done' \cup Elems(lines)
        BY <2>2, <3>1, <4>1
      <4> QED
        BY <1>t, <3>5, <4>2, PrecededAppend
    <3>7. Preceded(accepted', lines', Done')
      <4>1. lines' \in {Terminated, Append(lines, e)}
        BY <2>1 DEF Lands
      <4> QED
        BY <3>5, <3>6, <4>1
    <3>8. \A f \in Flushers : pc'[f] = "meter" => Preceded(accepted', rest'[f], Done')
      BY <1>E, <1>p, <2>2, <3>3, <3>4
    <3> QED
      BY <2>3, <3>2, <3>7, <3>8 DEF NoneOvertaken
  <2> QED
    BY <2>1, <2>4, <2>5
\* What the next entry to be written back makes of the file.
<1>S. ASSUME NEW f \in Flushers, rest[f] # << >>, Rewrites(f) \/ TearsRewrite(f)
      PROVE  /\ busy = f /\ pc[f] = "rewrite" /\ UNCHANGED <<accepted, metered, taken>>
             /\ exposed \subseteq exposed' /\ Done \subseteq Done'
             /\ Preceded(accepted, lines', Done')
             /\ \A x \in Entries, y \in metered' : Before(accepted', x, y) => x \in Done'
  <2>1. /\ busy = f /\ pc[f] = "rewrite" /\ UNCHANGED <<accepted, metered, taken>>
        /\ exposed \subseteq exposed' /\ Head(rest[f]) \in Entries /\ rest[f] \in Seq(Entries)
        /\ UNCHANGED lines \/ (FindsRoom /\ Lands(Head(rest[f])))
    BY <1>S, EntryWrittenBack
  <2>2. Done \subseteq Done'
    BY <1>d, <2>1
  <2>3. ASSUME FindsRoom, lines' = Append(lines, Head(rest[f])) PROVE Preceded(accepted, lines', Done')
    <3>1. Preceded(accepted, rest[f], Done \cup Elems(lines))
      BY <1>n, <2>1, <2>3, RoomFound
    <3>2. \A x \in Entries : Before(accepted, x, Head(rest[f])) => x \in Done \cup Elems(lines)
      BY <1>S, <2>1, <3>1, PrecededTail
    <3>3. Preceded(accepted, lines, Done')
      BY <1>p, <2>2
    <3>4. \A x \in Entries : Before(accepted, x, Head(rest[f])) => x \in Done' \cup Elems(lines)
      BY <2>2, <3>2
    <3> QED
      BY <1>t, <2>1, <2>3, <3>3, <3>4, PrecededAppend
  <2>4. Preceded(accepted, lines', Done')
    <3>1. lines' = lines \/ lines' = Terminated \/ (FindsRoom /\ lines' = Append(lines, Head(rest[f])))
      BY <2>1 DEF Lands
    <3>2. Preceded(accepted, lines, Done') /\ Preceded(accepted, Terminated, Done')
      BY <1>p, <2>2
    <3> QED
      BY <2>3, <3>1, <3>2
  <2> QED
    BY <1>n, <2>1, <2>2, <2>4
<1>1. ASSUME NEW e \in Entries, AppendEntry(e) \/ AppendFails(e) PROVE NoneOvertaken'
  <2>1. (AppendEntry(e) \/ TearsEntry(e)) /\ UNCHANGED <<pc, rest, busy>>
    BY <1>1 DEF AppendEntry, AppendFails
  <2>2. busy = None
    BY <2>1, EntryComes
  <2> QED
    BY <1>E, <2>1, <2>2
<1>2. ASSUME DequeueAll PROVE NoneOvertaken'
  <2>1. /\ busy = None /\ taken' = taken \cup Elems(lines)
        /\ UNCHANGED <<accepted, metered, exposed, pc, rest, busy>>
        /\ lines' = << >> \/ lines' = lines
    BY <1>2, <1>c DEF DequeueAll
  <2>2. Done \subseteq Done'
    BY <1>d, <2>1
  <2>3. Preceded(accepted', lines', Done')
    BY <1>0, <1>p, <2>1, <2>2
  <2>4. \A f \in Flushers : pc'[f] = "meter" => Preceded(accepted', rest'[f], Done')
    BY <1>p, <2>1, <2>2
  <2>5. \A x \in Entries, y \in metered' : Before(accepted', x, y) => x \in Done'
    BY <1>n, <2>1, <2>2
  <2>6. \A f \in Flushers : busy' # f
    BY <1>t, <2>1
  <2> QED
    BY <2>3, <2>4, <2>5, <2>6 DEF NoneOvertaken
<1>3. ASSUME NEW f \in Flushers, FlushBegins(f) PROVE NoneOvertaken'
  <2>1. /\ busy = None /\ pc' = [pc EXCEPT ![f] = "meter"] /\ rest' = [rest EXCEPT ![f] = lines]
        /\ UNCHANGED <<lines, accepted, metered, taken, exposed, busy>>
    BY <1>3 DEF FlushBegins, file
  <2>2. \A g \in Flushers : pc'[g] = "meter" => Preceded(accepted, rest'[g], Done)
    BY <1>n, <1>t, <2>1
  <2>3. \A g \in Flushers : busy' # g
    BY <1>t, <2>1
  <2>4. Done' = Done
    BY <1>d, <2>1
  <2> QED
    BY <1>n, <2>1, <2>2, <2>3, <2>4 DEF NoneOvertaken
<1>4. ASSUME NEW f \in Flushers, MeterCounts(f) PROVE NoneOvertaken'
  <2>1. /\ busy = None /\ pc[f] = "meter" /\ metered' = metered \cup {Head(rest[f])}
        /\ rest' = [rest EXCEPT ![f] = Tail(rest[f])]
        /\ UNCHANGED <<accepted, taken, exposed, busy>>
        /\ pc' \in {pc, [pc EXCEPT ![f] = "idle"]}
        /\ lines' = << >> \/ lines' = lines
    BY <1>4, <1>c DEF MeterCounts, file
  <2>2. Done' = Done \cup {Head(rest[f])}
    BY <1>d, <2>1
  <2>3. Preceded(accepted', lines', Done')
    BY <1>0, <1>p, <2>1, <2>2
  <2>4. \A x \in Entries, y \in metered' : Before(accepted', x, y) => x \in Done'
    BY <1>u, <2>1
  <2>5. ASSUME NEW g \in Flushers, pc'[g] = "meter" PROVE Preceded(accepted', rest'[g], Done')
    <3>1. pc[g] = "meter" /\ rest'[g] = IF g = f THEN Tail(rest[f]) ELSE rest[g]
      BY <1>t, <2>1, <2>5
    <3> QED
      BY <1>m, <1>p, <2>1, <2>2, <3>1
  <2>6. \A g \in Flushers : busy' # g
    BY <1>t, <2>1
  <2> QED
    BY <2>3, <2>4, <2>5, <2>6 DEF NoneOvertaken
<1>5. ASSUME NEW f \in Flushers, MeterRefuses(f) PROVE NoneOvertaken'
  <2>1. PICK counted \in SUBSET {Head(rest[f])} :
          /\ busy = None /\ pc[f] = "meter" /\ metered' = metered \cup counted
          /\ pc' = [pc EXCEPT ![f] = "rewrite"] /\ busy' = f /\ Cleared
          /\ UNCHANGED <<accepted, taken, exposed, rest>>
    BY <1>5 DEF MeterRefuses
  <2>2. lines' = << >> \/ lines' = lines
    BY <1>c, <2>1
  <2>3. Done \subseteq Done'
    BY <1>d, <2>1
  <2>4. Preceded(accepted', lines', Done')
    BY <1>0, <1>p, <2>1, <2>2, <2>3
  <2>5. \A x \in Entries, y \in metered' : Before(accepted', x, y) => x \in Done'
    BY <1>u, <2>1
  <2>6. \A g \in Flushers : pc'[g] = "meter" => Preceded(accepted', rest'[g], Done')
    <3>1. \A g \in Flushers : pc'[g] = "meter" => pc[g] = "meter"
      BY <1>t, <2>1
    <3> QED
      BY <1>p, <2>1, <2>3, <3>1
  <2>7. Preceded(accepted', rest'[f], Done' \cup Elems(lines'))
    BY <1>p, <2>1, <2>3
  <2>8. \A g \in Flushers : busy' = g => g = f
    BY <2>1
  <2> QED
    BY <2>4, <2>5, <2>6, <2>7, <2>8 DEF NoneOvertaken
<1>6. ASSUME NEW f \in Flushers, MeterRaises(f) PROVE NoneOvertaken'
  <2>1. PICK counted \in SUBSET {Head(rest[f])} :
          /\ busy = None /\ pc[f] = "meter" /\ metered' = metered \cup counted
          /\ pc' = [pc EXCEPT ![f] = "idle"] /\ rest' = [rest EXCEPT ![f] = << >>]
          /\ UNCHANGED <<lines, accepted, taken, exposed, busy>>
    BY <1>6 DEF MeterRaises, file
  <2>2. Done \subseteq Done'
    BY <1>d, <2>1
  <2>3. \A x \in Entries, y \in metered' : Before(accepted', x, y) => x \in Done'
    BY <1>u, <2>1
  <2>4. \A g \in Flushers : pc'[g] = "meter" => Preceded(accepted', rest'[g], Done')
    <3>1. \A g \in Flushers : pc'[g] = "meter" => pc[g] = "meter" /\ rest'[g] = rest[g]
      BY <1>t, <2>1
    <3> QED
      BY <1>p, <2>1, <2>2, <3>1
  <2>5. Preceded(accepted', lines', Done') /\ \A g \in Flushers : busy' # g
    BY <1>p, <1>t, <2>1, <2>2
  <2> QED
    BY <2>3, <2>4, <2>5 DEF NoneOvertaken
<1>7. ASSUME NEW f \in Flushers, Rewrites(f) PROVE NoneOvertaken'
  <2>2. CASE rest[f] = << >>
    <3>1. /\ busy' = None /\ pc' = [pc EXCEPT ![f] = "idle"] /\ pc[f] = "rewrite"
          /\ UNCHANGED <<lines, rest, accepted, metered, taken, exposed>>
      BY <1>7, <2>2 DEF Rewrites, file
    <3>2. \A g \in Flushers : pc'[g] = "meter" => pc[g] = "meter"
      BY <1>t, <3>1
    <3>3. \A g \in Flushers : busy' # g
      BY <1>t, <3>1
    <3>4. Done' = Done
      BY <1>d, <3>1
    <3> QED
      BY <1>n, <3>1, <3>2, <3>3, <3>4 DEF NoneOvertaken
  <2>3. CASE rest[f] # << >>
    <3>1. /\ busy = f /\ pc[f] = "rewrite" /\ UNCHANGED <<accepted, metered, taken>>
          /\ Done \subseteq Done' /\ Preceded(accepted, lines', Done')
          /\ \A x \in Entries, y \in metered' : Before(accepted', x, y) => x \in Done'
      BY <1>7, <1>S, <2>3
    <3>2. /\ rest' = [rest EXCEPT ![f] = Tail(rest[f])] /\ UNCHANGED <<pc, busy>>
          /\ \/ Full /\ UNCHANGED <<lines, junk, ragged, exposed, mishaps>>
             \/ /\ FindsRoom /\ Lands(Head(rest[f])) /\ Unended \subseteq exposed'
                /\ Head(rest[f]) \in Elems(lines') \cup exposed'
          /\ rest[f] \in Seq(Entries)
      BY <1>7, <2>3, EntryWrittenBack
    <3>3. \A g \in Flushers : pc'[g] = "meter" => pc[g] = "meter" /\ rest'[g] = rest[g]
      BY <1>t, <3>1, <3>2
    <3>4. \A g \in Flushers : busy' = g => g = f
      BY <3>1, <3>2
    <3>5. rest'[f] = Tail(rest[f])
      BY <1>t, <3>2
    <3>6. Full' \/ Preceded(accepted', Tail(rest[f]), Done' \cup Elems(lines'))
      <4>1. CASE Full /\ UNCHANGED <<lines, junk, ragged, exposed, mishaps>>
        BY <4>1 DEF Full
      <4>2. CASE /\ FindsRoom /\ Lands(Head(rest[f])) /\ Unended \subseteq exposed'
                 /\ Head(rest[f]) \in Elems(lines') \cup exposed'
        <5>1. Preceded(accepted, rest[f], Done \cup Elems(lines))
          BY <1>n, <3>1, <4>2, RoomFound
        <5>2. Preceded(accepted, Tail(rest[f]), (Done \cup Elems(lines)) \cup {Head(rest[f])})
          BY <2>3, <3>2, <5>1, PrecededTail
        <5>3. Elems(lines) \subseteq Elems(lines') \cup Unended
          BY <4>2 DEF Lands
        <5>4. (Done \cup Elems(lines)) \cup {Head(rest[f])} \subseteq Done' \cup Elems(lines')
          BY <1>d, <3>1, <4>2, <5>3
        <5> QED
          BY <3>1, <5>2, <5>4, PrecededMore
      <4> QED
        BY <3>2, <4>1, <4>2
    <3>7. \A g \in Flushers : pc'[g] = "meter" => Preceded(accepted', rest'[g], Done')
      BY <1>p, <3>1, <3>3
    <3> QED
      BY <3>1, <3>4, <3>5, <3>6, <3>7 DEF NoneOvertaken
  <2> QED
    BY <2>2, <2>3
<1>8. ASSUME NEW f \in Flushers, TearsRewrite(f), busy' = None,
             \A g \in Flushers : pc'[g] = "meter" => pc[g] = "meter" /\ rest'[g] = rest[g]
      PROVE  NoneOvertaken'
  <2>1. rest[f] # << >>
    BY <1>8 DEF TearsRewrite
  <2>2. /\ accepted' = accepted /\ Done \subseteq Done' /\ Preceded(accepted, lines', Done')
        /\ \A x \in Entries, y \in metered' : Before(accepted', x, y) => x \in Done'
    BY <1>8, <1>S, <2>1
  <2>3. \A g \in Flushers : pc'[g] = "meter" => Preceded(accepted', rest'[g], Done')
    BY <1>8, <1>p, <2>2
  <2>4. \A g \in Flushers : busy' # g
    BY <1>8, <1>t
  <2> QED
    BY <2>2, <2>3, <2>4 DEF NoneOvertaken
<1>9. ASSUME NEW f \in Flushers, RewriteFails(f) PROVE NoneOvertaken'
  <2>1. /\ TearsRewrite(f) /\ pc' = [pc EXCEPT ![f] = "idle"]
        /\ rest' = [rest EXCEPT ![f] = << >>] /\ busy' = None
    BY <1>9 DEF RewriteFails
  <2> QED
    BY <1>8, <1>t, <2>1
<1>10. ASSUME Restarts PROVE busy' = None /\ \A g \in Flushers : pc'[g] # "meter"
  BY <1>10 DEF Restarts
<1>11. ASSUME Crash PROVE NoneOvertaken'
  <2>1. UNCHANGED <<lines, accepted, metered, taken>> /\ exposed \subseteq exposed' /\ Restarts
    BY <1>11 DEF Crash, file
  <2>2. Done \subseteq Done'
    BY <1>d, <2>1
  <2>3. Preceded(accepted', lines', Done') /\ \A g \in Flushers : busy' # g
    BY <1>10, <1>p, <1>t, <2>1, <2>2
  <2>4. \A x \in Entries, y \in metered' : Before(accepted', x, y) => x \in Done'
    BY <1>n, <2>1, <2>2
  <2> QED
    BY <1>10, <2>1, <2>3, <2>4 DEF NoneOvertaken
<1>12. ASSUME CrashInAppend PROVE NoneOvertaken'
  BY <1>8, <1>10, <1>12, <1>E DEF CrashInAppend
<1>13. CASE UNCHANGED vars
  <2>1. UNCHANGED <<lines, junk, accepted, metered, taken, exposed, pc, rest, busy>>
    BY <1>13 DEF vars, file
  <2> QED
    BY <2>1 DEF NoneOvertaken, Full, Done
<1> QED
  BY <1>1, <1>2, <1>3, <1>4, <1>5, <1>6, <1>7, <1>9, <1>11, <1>12, <1>13 DEF Next

\* OrderInv holds in every state.
THEOREM OrderInvariant == Spec => []OrderInv
<1>0. QueueInv => Shape /\ (WithinLimit => Covered)
  BY DEF QueueInv, Shape, WholeLine
<1>1. ASSUME Init PROVE OrderInv
  <2>1. /\ lines = << >> /\ accepted = << >> /\ metered = {} /\ busy = None
        /\ \A f \in Flushers : pc[f] = "idle" /\ rest[f] = << >> /\ busy # f
    BY <1>1, QueueAssumption DEF Init
  <2>2. QueuesInOrder /\ NoneOvertaken
    BY <2>1, ElemsEmpty, NothingInOrder DEF QueuesInOrder, NoneOvertaken
  <2>3. OnlyAccepted
    BY <2>1, ElemsEmpty DEF OnlyAccepted
  <2> QED
    BY <2>2, <2>3 DEF OrderInv
<1>2. QueueInv /\ OrderInv /\ [Next]_vars => OrderInv'
  <2> SUFFICES ASSUME QueueInv, OrderInv, [Next]_vars PROVE OrderInv'
    OBVIOUS
  <2>1. Shape /\ (WithinLimit => Covered)
    BY <1>0
  <2>2. mishaps \subseteq mishaps'
    BY <2>1, ShapeStep
  <2>3. OnlyAccepted'
    BY <2>1, OnlyAcceptedStep DEF OrderInv
  <2>4. "clear" \notin mishaps' => QueuesInOrder'
    BY <2>1, <2>2, QueuesInOrderStep DEF OrderInv
  <2>5. WithinLimit' => WithinLimit
    BY <2>2 DEF WithinLimit
  <2>6. WithinLimit' => NoneOvertaken'
    BY <2>1, <2>5, NoneOvertakenStep DEF OrderInv
  <2> QED
    BY <2>3, <2>4, <2>6 DEF OrderInv
<1> QED
  BY <1>1, <1>2, QueueInvariant, PTL DEF Spec

(***************************************************************************)
(* Usage is metered, and kept in the file, in the order in which it was    *)
(* accepted, and the file stays within its limit: for any number of        *)
(* flushes that overlap and whatever fails, each part until the error of   *)
(* clear or count that it names.                                           *)
(***************************************************************************)
THEOREM UsageStaysOrdered == Spec => []QueueOrdered
<1>1. QueueInv /\ OrderInv => QueueOrdered
  <2> SUFFICES ASSUME QueueInv, OrderInv PROVE QueueOrdered
    OBVIOUS
  <2>1. accepted \in Seq(Entries)
    BY DEF QueueInv, TypeOK
  <2>2. MeteredInOrder
    <3> SUFFICES ASSUME WithinLimit, NEW i \in 1..Len(accepted), NEW j \in 1..Len(accepted),
                        i < j, accepted[j] \in metered
                 PROVE  accepted[i] \in metered \cup taken \cup exposed
      BY DEF MeteredInOrder
    <3>1. Before(accepted, accepted[i], accepted[j]) /\ accepted[i] \in Entries
      BY <2>1 DEF Before
    <3> QED
      BY <3>1 DEF OrderInv, NoneOvertaken, Done
  <2>3. FileInOrder
    BY DEF OrderInv, QueuesInOrder, InOrder, Before, FileInOrder
  <2>4. QueueBounded
    BY DEF QueueInv, Covered, QueueBounded
  <2> QED
    BY <2>2, <2>3, <2>4 DEF QueueOrdered
<1> QED
  BY <1>1, QueueInvariant, OrderInvariant, PTL
=============================================================================

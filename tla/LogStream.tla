----------------------------- MODULE LogStream ------------------------------
(***************************************************************************)
(* The log stream of the management server: management/logs.py.            *)
(*                                                                         *)
(* RingBufferHandler keeps the last BUFFER_SIZE entries and hands every    *)
(* entry to the queue of each subscriber, unless that queue is full.  A    *)
(* websocket of /logs/stream subscribes its queue, then accepts, and sends *)
(* what it takes from the queue; a client that has gone is noticed only    *)
(* when something is sent to it.  Entries are numbered as they are logged. *)
(***************************************************************************)
EXTENDS Naturals, Sequences

CONSTANTS
  Streams,   \* requests of logs_stream_ws
  RingSize,  \* BUFFER_SIZE
  QueueSize, \* SUBSCRIBER_QUEUE_SIZE
  MaxLogged  \* bound: entries logged

ASSUME StreamAssumption ==
  RingSize \in Nat \ {0} /\ QueueSize \in Nat \ {0} /\ MaxLogged \in Nat

VARIABLES
  ring,     \* buffer
  subs,     \* subscribers
  feed,     \* [Streams -> the queue of the stream]
  stream,   \* [Streams -> where logs_stream_ws is]
  holds,    \* [Streams -> the entry it is sending, or 0]
  \* history
  logged,   \* how many entries have been logged
  received, \* [Streams -> what its client has received]
  first,    \* [Streams -> how many entries were logged before it subscribed]
  missed    \* [Streams -> the entries it missed while its queue was full]

streamVars == <<ring, subs, feed, stream, holds, logged, received, first, missed>>

\* The numbers of the entries.
Logs == 1..MaxLogged

StreamTypeOK ==
  /\ ring \in Seq(Logs) /\ Len(ring) <= RingSize
  /\ subs \in SUBSET Streams
  /\ feed \in [Streams -> Seq(Logs)] /\ \A s \in Streams : Len(feed[s]) <= QueueSize
  /\ stream \in [Streams -> {"idle", "accepting", "waiting", "sending", "ended", "not accepted"}]
  /\ holds \in [Streams -> Logs \cup {0}]
  /\ logged \in Logs \cup {0}
  /\ received \in [Streams -> Seq(Logs)]
  /\ first \in [Streams -> Logs \cup {0}] /\ missed \in [Streams -> SUBSET Logs]

StreamInit ==
  /\ ring = <<>> /\ subs = {} /\ logged = 0
  /\ feed = [s \in Streams |-> <<>>] /\ received = [s \in Streams |-> <<>>]
  /\ stream = [s \in Streams |-> "idle"]
  /\ holds = [s \in Streams |-> 0] /\ first = [s \in Streams |-> 0]
  /\ missed = [s \in Streams |-> {}]

NoRoom(s) == Len(feed[s]) >= QueueSize

-----------------------------------------------------------------------------
\* The deque with maxlen.
Ringed(entries) == IF Len(entries) > RingSize THEN Tail(entries) ELSE entries

\* emit
Emit ==
  LET entry == logged + 1
  IN /\ logged < MaxLogged
     /\ logged' = entry
     /\ ring' = Ringed(Append(ring, entry))
     /\ feed' = [s \in Streams |->
                   IF s \in subs /\ ~NoRoom(s) THEN Append(feed[s], entry) ELSE feed[s]]
     /\ missed' = [s \in Streams |->
                     IF s \in subs /\ Len(feed[s]) = QueueSize THEN missed[s] \cup {entry}
                     ELSE missed[s]]
     /\ UNCHANGED <<subs, stream, holds, received, first>>

\* logs_stream_ws, once the origin and the session token are right.
Subscribe(s) ==
  /\ stream[s] = "idle"
  /\ subs' = subs \cup {s}
  /\ stream' = [stream EXCEPT ![s] = "accepting"]
  /\ first' = [first EXCEPT ![s] = logged]
  /\ UNCHANGED <<ring, feed, holds, logged, received, missed>>

\* accept raises, outside of the try: the queue stays subscribed.
AcceptFails(s) ==
  /\ stream[s] = "accepting"
  /\ stream' = [stream EXCEPT ![s] = "not accepted"]
  /\ UNCHANGED <<ring, subs, feed, holds, logged, received, first, missed>>

AcceptReturns(s) ==
  /\ stream[s] = "accepting"
  /\ stream' = [stream EXCEPT ![s] = "waiting"]
  /\ UNCHANGED <<ring, subs, feed, holds, logged, received, first, missed>>

\* Mutant of Taken1: the newest entry.
Taken1Newest(s) == feed[s][Len(feed[s])]

Taken1(s) == Head(feed[s])

GetReturns(s) ==
  /\ stream[s] = "waiting" /\ feed[s] # <<>>
  /\ holds' = [holds EXCEPT ![s] = Taken1(s)]
  /\ feed' = [feed EXCEPT ![s] = Tail(@)]
  /\ stream' = [stream EXCEPT ![s] = "sending"]
  /\ UNCHANGED <<ring, subs, logged, received, first, missed>>

SendJson(s) ==
  /\ stream[s] = "sending"
  /\ received' = [received EXCEPT ![s] = Append(@, holds[s])]
  /\ holds' = [holds EXCEPT ![s] = 0]
  /\ stream' = [stream EXCEPT ![s] = "waiting"]
  /\ UNCHANGED <<ring, subs, feed, logged, first, missed>>

\* The finally clause.
Unsubscribed(s) == subs \ {s}

\* The client has gone, or the server ends while the stream waits.
StreamEnds(s) ==
  /\ stream[s] \in {"sending", "waiting"}
  /\ stream' = [stream EXCEPT ![s] = "ended"]
  /\ subs' = Unsubscribed(s)
  /\ UNCHANGED <<ring, feed, holds, logged, received, first, missed>>

StreamNext ==
  \/ Emit
  \/ \E s \in Streams :
       \/ Subscribe(s) \/ AcceptFails(s) \/ AcceptReturns(s)
       \/ GetReturns(s) \/ SendJson(s) \/ StreamEnds(s)

StreamSpec == StreamInit /\ [][StreamNext]_streamVars

-----------------------------------------------------------------------------
\* What a stream has received, holds, and finds in its queue.
Promised(s) ==
  (IF holds[s] = 0 THEN received[s] ELSE Append(received[s], holds[s])) \o feed[s]

\* The sequence has the numbers of the set, each once and in order.
Lists(entries, wanted) ==
  /\ \A j, k \in DOMAIN entries : j < k => entries[j] < entries[k]
  /\ {entries[k] : k \in DOMAIN entries} = wanted

(***************************************************************************)
(* A subscribed stream has, or still will get, every entry since it        *)
(* subscribed, once and in order, but those that came while its queue was  *)
(* full; the entries logged between its subscription and its accept, and   *)
(* while another stream comes or goes, are not lost.                       *)
(***************************************************************************)
StreamsFaithful ==
  \A s \in subs : Lists(Promised(s), ((first[s] + 1)..logged) \ missed[s])

\* The handler feeds no queue but those of the streams in progress, and those
\* whose accept failed.
SubscribersLive ==
  \A s \in subs : stream[s] \in {"accepting", "waiting", "sending", "not accepted"}

\* Every client receives the entries in order, without those it had no room for,
\* and a stream that is over is fed no more.
StreamsSafe == StreamTypeOK /\ StreamsFaithful /\ SubscribersLive
=============================================================================

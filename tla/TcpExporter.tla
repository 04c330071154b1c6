---------------------------- MODULE TcpExporter ----------------------------
(***************************************************************************)
(* An exporter of a worker process (map_tcp.py, ground_truth_tcp.py,       *)
(* navigation_tcp.py, actor_tcp.py, camera_tcp.py): the event loop puts    *)
(* messages into a bounded queue and never waits, a thread takes them and  *)
(* sends them to a bridge that comes and goes.  An exporter that keeps     *)
(* sends what was recorded once per scene, and again only what another     *)
(* scene pushed out of the queue; one that does not keep sends the newest  *)
(* state and drops what it cannot deliver.                                 *)
(*                                                                         *)
(* A message is its number: the scene, or the sequence number.             *)
(***************************************************************************)
EXTENDS Integers, Sequences, SequencesExt

CONSTANTS
  Scenes,       \* of the rollouts of the process
  MaxUpdates,   \* bound: updates of the state
  MaxOutages,   \* bound: how often the bridge goes away
  QueueSize     \* queue_size of an exporter that does not keep

ASSUME ExporterAssumption ==
  /\ Scenes \subseteq Nat \ {0} /\ MaxUpdates \in Nat /\ QueueSize \in Nat \ {0}

VARIABLES
  keeps,       \* whether this is the map's or the ground truth's exporter
  scheduled,   \* scheduled_keys
  sequence,    \* the last sequence number given out
  offer,       \* of the event loop: the message and how far publish is
  exports,     \* queue
  pending,     \* of the thread, 0 for None; Dead after an exception
  connection,  \* socket: none, open, or broken and not noticed
  bridge,      \* whether the receiver listens
  outages,     \* how often it went away
  received,    \* by the bridge, in order
  wasted       \* sent into a broken connection, or dropped for want of one

publisherVars == <<scheduled, sequence, offer>>
bridgeVars    == <<bridge, outages, received>>
exporterVars  == <<keeps, publisherVars, exports, pending, connection, bridgeVars, wasted>>

Dead == -1
NoOffer == [message |-> 0, at |-> "idle"]

\* Of the queue of a map or a ground truth.
Capacity == IF keeps THEN 1 ELSE QueueSize

ExporterInit ==
  /\ keeps \in BOOLEAN /\ scheduled = {} /\ sequence = 0 /\ offer = NoOffer
  /\ exports = <<>> /\ pending = 0 /\ connection = "none"
  /\ bridge \in BOOLEAN /\ outages = 0 /\ received = <<>> /\ wasted = {}
----------------------------------------------------------------------------
(* publish, on the event loop                                                *)

\* publish_vector_map and publish, once per rollout: scheduled scenes are left
\* alone; one whose message cannot be built is not scheduled after all.
OfferScene(s) ==
  /\ keeps /\ offer = NoOffer /\ s \notin scheduled
  /\ scheduled' = scheduled \cup {s} /\ offer' = [message |-> s, at |-> "put"]
  /\ UNCHANGED <<keeps, sequence, exports, pending, connection, bridgeVars, wasted>>

\* publish_update.
OfferUpdate ==
  /\ ~keeps /\ offer = NoOffer /\ sequence < MaxUpdates
  /\ sequence' = sequence + 1 /\ offer' = [message |-> sequence', at |-> "put"]
  /\ UNCHANGED <<keeps, scheduled, exports, pending, connection, bridgeVars, wasted>>

\* put_nowait, the first and the second: what does not find room the second
\* time is dropped.
Put ==
  /\ offer.at \in {"put", "retry"}
  /\ IF Len(exports) < Capacity
       THEN exports' = Append(exports, offer.message) /\ offer' = NoOffer
       ELSE /\ exports' = exports
            /\ offer' = IF offer.at = "put" THEN [offer EXCEPT !.at = "replace"] ELSE NoOffer
  /\ UNCHANGED <<keeps, scheduled, sequence, pending, connection, bridgeVars, wasted>>

\* Mutant: the scene that is pushed out stays scheduled.
ReplaceForGood ==
  /\ offer.at = "replace" /\ offer' = [offer EXCEPT !.at = "retry"]
  /\ exports' = IF exports = <<>> THEN exports ELSE Tail(exports)
  /\ UNCHANGED <<keeps, scheduled, sequence, pending, connection, bridgeVars, wasted>>

\* get_nowait of the oldest, if the thread has not taken it meanwhile; its scene
\* may be offered again.
Replace ==
  /\ offer.at = "replace" /\ offer' = [offer EXCEPT !.at = "retry"]
  /\ IF exports = <<>>
       THEN UNCHANGED <<exports, scheduled>>
       ELSE exports' = Tail(exports) /\ scheduled' = scheduled \ {Head(exports)}
  /\ UNCHANGED <<keeps, sequence, pending, connection, bridgeVars, wasted>>
----------------------------------------------------------------------------
(* _worker                                                                   *)

TakeMessage ==
  /\ pending = 0 /\ exports # <<>>
  /\ pending' = Head(exports) /\ exports' = Tail(exports)
  /\ UNCHANGED <<keeps, publisherVars, connection, bridgeVars, wasted>>

\* The message cannot be delivered now.
GiveUpOn(message) ==
  IF keeps THEN UNCHANGED <<pending, wasted>>
  ELSE pending' = 0 /\ wasted' = wasted \cup {message}

\* _connect; it may time out, too.
Connect ==
  /\ pending > 0 /\ connection = "none"
  /\ \/ bridge /\ connection' = "open" /\ UNCHANGED <<pending, wasted>>
     \/ connection' = connection /\ GiveUpOn(pending)
  /\ UNCHANGED <<keeps, publisherVars, exports, bridgeVars>>

\* _send.
Send ==
  /\ pending > 0 /\ connection = "open"
  /\ received' = Append(received, pending) /\ pending' = 0
  /\ UNCHANGED <<keeps, publisherVars, exports, connection, bridge, outages, wasted>>

\* sendall on a connection that the peer left: it raises, or the kernel takes
\* the bytes before it knows.
SendBroken ==
  /\ pending > 0 /\ connection = "broken"
  /\ \/ connection' = "none" /\ GiveUpOn(pending)
     \/ connection' = connection /\ pending' = 0 /\ wasted' = wasted \cup {pending}
  /\ UNCHANGED <<keeps, publisherVars, exports, bridgeVars>>

\* An update that json.dumps refuses ends the thread: only OSErrors are caught.
SendRaises ==
  /\ pending > 0 /\ ~keeps /\ connection # "none"
  /\ pending' = Dead /\ wasted' = wasted \cup {pending}
  /\ UNCHANGED <<keeps, publisherVars, exports, connection, bridgeVars>>

BridgeGoes ==
  /\ bridge /\ outages < MaxOutages /\ bridge' = FALSE /\ outages' = outages + 1
  /\ connection' = IF connection = "open" THEN "broken" ELSE connection
  /\ UNCHANGED <<keeps, publisherVars, exports, pending, received, wasted>>

BridgeComes ==
  /\ ~bridge /\ bridge' = TRUE
  /\ UNCHANGED <<keeps, publisherVars, exports, pending, connection, outages, received, wasted>>

ExporterNext ==
  \/ (\E s \in Scenes : OfferScene(s)) \/ OfferUpdate \/ Put \/ Replace
  \/ TakeMessage \/ Connect \/ Send \/ SendBroken \/ SendRaises
  \/ BridgeGoes \/ BridgeComes

ExporterSpec == ExporterInit /\ [][ExporterNext]_exporterVars
----------------------------------------------------------------------------
IfAny(m) == IF m > 0 THEN <<m>> ELSE <<>>

\* What the exporter has not got rid of, oldest first.
InHand == IfAny(pending) \o exports \o IfAny(offer.message)

(* Whatever way the two threads cross at the queue, the second put finds     *)
(* room, which the map's exporter relies on; a scheduled scene is on its way *)
(* or was sent, once, so that leaving it alone is right, and one that was    *)
(* pushed out is not scheduled, so that its next rollout offers it again; an *)
(* exporter of state delivers in the order of the updates, and the newest is *)
(* never the one given up for room.                                          *)
ExportsKept ==
  /\ offer.at = "retry" => Len(exports) < Capacity
  /\ keeps =>
       /\ scheduled = ToSet(InHand) \cup ToSet(received) \cup wasted
       /\ \A i, j \in 1 .. Len(received \o InHand) :
            (received \o InHand)[i] = (received \o InHand)[j] => i = j
  /\ ~keeps =>
       /\ \A i, j \in 1 .. Len(received \o InHand) :
            i < j => (received \o InHand)[i] < (received \o InHand)[j]
       /\ sequence > 0 => sequence \in ToSet(received \o InHand) \cup wasted
=============================================================================

------------------------------ MODULE EventBus ------------------------------
(***************************************************************************)
(* The in-process event bus of app/events.py and the Server-Sent Events    *)
(* streams of app/routers/events.py that read from it.                     *)
(*                                                                         *)
(* The bus holds its lock across no await, so the lock is never contended  *)
(* and subscribe, unsubscribe and publish are atomic on the event loop.  A *)
(* stream is suspended while it waits for its queue and while a frame is   *)
(* being sent; requests publish, and other streams run, in between.        *)
(*                                                                         *)
(* An event is its user and its sequence number: the type and payload are  *)
(* passed through untouched.  sse_keepalive_seconds is taken as positive.  *)
(* Nothing of this outlives the process, so a restart is Init again.       *)
(***************************************************************************)
EXTENDS Integers, Sequences

CONSTANTS
  Users,
  Streams,    \* GET /events requests, each with its queue
  Capacity,   \* the queue's maxsize
  MaxSeq      \* bound: MaxSeq[u], how many events are published for u

ASSUME BusAssumption == Capacity \in Nat \ {0} /\ MaxSeq \in [Users -> Nat]

(* Wrong on purpose: the event goes out without its number.                *)
EventUnstamped(u, n) == [user |-> u]

Event(u, n) == [user |-> u, seq |-> n]
Events == [user : Users, seq : Nat]

VARIABLES
  subscribers,   \* _subscribers[u]; no entry and an empty set read the same
  sequences,     \* _sequences[u]
  queue,         \* queue[s]: the asyncio.Queue of stream s
  phase,         \* where stream s is, see Phases
  owner,         \* owner[s]: current_user of the request, set by Connect
  hand,          \* hand[s]: the event of the frame being sent, if any
  received,      \* history: the events whose frame the client has
  dropped,       \* history: the events a full queue of s refused
  start          \* history: the sequence number of the user at Connect

bus_vars == <<subscribers, sequences, queue, phase, owner, hand, received,
              dropped, start>>

(* idle: not connected.  starting: subscribed, event_stream not yet begun. *)
(* sending: suspended at a yield.  waiting: suspended in wait_for.         *)
(* closing: the client is gone, the finally block has not run.             *)
(* abandoned: the response was dropped before event_stream began.          *)
Phases == {"idle", "starting", "sending", "waiting", "closing", "abandoned",
           "closed"}

(***************************************************************************)
(* EventBus                                                                *)
(***************************************************************************)

Subscribe(u, s) == subscribers' = [subscribers EXCEPT ![u] = @ \cup {s}]

(* Wrong on purpose: drops the entry of the user with the first stream.    *)
UnsubscribeAll(u, s) == subscribers' = [subscribers EXCEPT ![u] = {}]

(* Wrong on purpose: leaves the queue registered.                          *)
UnsubscribeNever(u, s) == UNCHANGED subscribers

Unsubscribe(u, s) == subscribers' = [subscribers EXCEPT ![u] = @ \ {s}]

Full(s) == Len(queue[s]) >= Capacity

(* Wrong on purpose: the number is only drawn when somebody listens.       *)
PublishUncounted(u) ==
  LET e == Event(u, sequences[u] + 1)
      targets == {s \in subscribers[u] : ~Full(s)}
  IN  /\ sequences[u] < MaxSeq[u]
      /\ sequences' = [sequences EXCEPT ![u] = IF targets = {} THEN @ ELSE @ + 1]
      /\ queue' = [s \in Streams |-> IF s \in targets THEN Append(queue[s], e)
                                                      ELSE queue[s]]
      /\ dropped' = [s \in Streams |-> IF s \in subscribers[u] \ targets
                                         THEN dropped[s] \cup {e} ELSE dropped[s]]
      /\ UNCHANGED <<subscribers, phase, owner, hand, received, start>>

(* The number is drawn whether or not anybody listens; a full queue        *)
(* refuses the event, the others take it.                                  *)
Publish(u) ==
  LET e == Event(u, sequences[u] + 1)
  IN  /\ sequences[u] < MaxSeq[u]
      /\ sequences' = [sequences EXCEPT ![u] = @ + 1]
      /\ queue' = [s \in Streams |->
                     IF s \in subscribers[u] /\ ~Full(s)
                       THEN Append(queue[s], e) ELSE queue[s]]
      /\ dropped' = [s \in Streams |->
                       IF s \in subscribers[u] /\ Full(s)
                         THEN dropped[s] \cup {e} ELSE dropped[s]]
      /\ UNCHANGED <<subscribers, phase, owner, hand, received, start>>

(***************************************************************************)
(* stream_events                                                           *)
(***************************************************************************)

Goto(s, p) == phase' = [phase EXCEPT ![s] = p]

(* The handler subscribes and returns the response.                        *)
Connect(s, u) ==
  /\ phase[s] = "idle"
  /\ Goto(s, "starting")
  /\ Subscribe(u, s)
  /\ owner' = [owner EXCEPT ![s] = {u}]
  /\ start' = [start EXCEPT ![s] = sequences[u]]
  /\ UNCHANGED <<sequences, queue, hand, received, dropped>>

(* The server begins to iterate: the ": connected" frame.                  *)
Start(s) ==
  /\ phase[s] = "starting"
  /\ Goto(s, "sending")
  /\ UNCHANGED <<subscribers, sequences, queue, owner, hand, received, dropped, start>>

(* queue.get() returned the head, its frame is yielded.                    *)
Yield(s) == /\ hand' = [hand EXCEPT ![s] = <<Head(queue[s])>>]
            /\ queue' = [queue EXCEPT ![s] = Tail(@)]
            /\ Goto(s, "sending")

(* The frame is sent.  wait_for does not suspend when the queue has an     *)
(* event: its frame is next.                                               *)
Sent(s) ==
  /\ phase[s] = "sending"
  /\ received' = [received EXCEPT ![s] = @ \o hand[s]]
  /\ \/ queue[s] # << >> /\ Yield(s)
     \/ /\ queue[s] = << >>
        /\ hand' = [hand EXCEPT ![s] = << >>]
        /\ Goto(s, "waiting")
        /\ UNCHANGED queue
  /\ UNCHANGED <<subscribers, sequences, owner, dropped, start>>

Take(s) ==
  /\ phase[s] = "waiting"
  /\ queue[s] # << >>
  /\ Yield(s)
  /\ UNCHANGED <<subscribers, sequences, owner, received, dropped, start>>

(* Wrong on purpose: the timed-out get has already removed the event.      *)
KeepAliveLosing(s) ==
  /\ phase[s] = "waiting"
  /\ queue' = [queue EXCEPT ![s] = IF @ = << >> THEN @ ELSE Tail(@)]
  /\ Goto(s, "sending")
  /\ UNCHANGED <<subscribers, sequences, owner, hand, received, dropped, start>>

(* The timeout may fire just when an event arrives; the event stays in the *)
(* queue.                                                                  *)
KeepAlive(s) ==
  /\ phase[s] = "waiting"
  /\ Goto(s, "sending")
  /\ UNCHANGED <<subscribers, sequences, queue, owner, hand, received, dropped, start>>

(* The client is gone.  An event whose frame was being sent is lost with   *)
(* it.  The finally block runs in a later step.                            *)
Disconnect(s) ==
  /\ phase[s] \in {"sending", "waiting"}
  /\ Goto(s, "closing")
  /\ hand' = [hand EXCEPT ![s] = << >>]
  /\ UNCHANGED <<subscribers, sequences, queue, owner, received, dropped, start>>

(* The client is gone before the server iterates: an async generator that  *)
(* never began has no finally block to run.                                *)
Abandon(s) ==
  /\ phase[s] = "starting"
  /\ Goto(s, "abandoned")
  /\ UNCHANGED <<subscribers, sequences, queue, owner, hand, received, dropped, start>>

Cleanup(s) ==
  /\ phase[s] = "closing"
  /\ Goto(s, "closed")
  /\ \A u \in owner[s] : Unsubscribe(u, s)
  /\ UNCHANGED <<sequences, queue, owner, hand, received, dropped, start>>

Init ==
  /\ subscribers = [u \in Users |-> {}]
  /\ sequences = [u \in Users |-> 0]
  /\ queue = [s \in Streams |-> << >>]
  /\ phase = [s \in Streams |-> "idle"]
  /\ owner = [s \in Streams |-> {}]
  /\ hand = [s \in Streams |-> << >>]
  /\ received = [s \in Streams |-> << >>]
  /\ dropped = [s \in Streams |-> {}]
  /\ start = [s \in Streams |-> 0]

Step(s) == Start(s) \/ Sent(s) \/ Take(s) \/ Cleanup(s)

Next == \/ \E u \in Users : Publish(u)
        \/ \E s \in Streams, u \in Users : Connect(s, u)
        \/ \E s \in Streams : Step(s) \/ KeepAlive(s) \/ Disconnect(s) \/ Abandon(s)

Spec == Init /\ [][Next]_bus_vars

(* The event loop runs what is ready, and a connected client reads what it *)
(* is sent.  A stream whose timer keeps winning still sends its keep-alive *)
(* and looks at the queue then, so Sent is enough for progress.            *)
FairSpec == Spec /\ \A s \in Streams : WF_bus_vars(Step(s))

-----------------------------------------------------------------------------
(***************************************************************************)
(* Properties                                                              *)
(***************************************************************************)

Owns(u, s) == u \in owner[s]

(* Type invariant.                                                         *)
TypeOK ==
  /\ subscribers \in [Users -> SUBSET Streams]
  /\ sequences \in [Users -> Nat]
  /\ queue \in [Streams -> Seq(Events)]
  /\ phase \in [Streams -> Phases]
  /\ owner \in [Streams -> SUBSET Users]
  /\ hand \in [Streams -> Seq(Events)]
  /\ received \in [Streams -> Seq(Events)]
  /\ dropped \in [Streams -> SUBSET Events]
  /\ start \in [Streams -> Nat]

Elements(q) == {q[i] : i \in 1 .. Len(q)}
Increasing(q) == \A i, j \in 1 .. Len(q) : i < j => q[i].seq < q[j].seq

(* All that stream s has, or will have, to show for the queue.             *)
Pipeline(s) == received[s] \o hand[s] \o queue[s]

Since(u, s) == {Event(u, n) : n \in (start[s] + 1) .. sequences[u]}

AccountedAt(s) ==
  \A u \in Users :
    Owns(u, s) /\ phase[s] \in {"starting", "sending", "waiting"} =>
      /\ Since(u, s) = Elements(Pipeline(s)) \cup dropped[s]
      /\ Elements(Pipeline(s)) \cap dropped[s] = {}
      /\ Increasing(Pipeline(s))

(* Every event of the user since the stream connected is either dropped by *)
(* a full queue or in the stream's pipeline, never both, in publication    *)
(* order and once; no event of another user is (publish, event_stream).    *)
Accounted == \A s \in Streams : AccountedAt(s)

GapMeansDroppedAt(s) ==
  \A u \in owner[s] : \A i \in 1 .. Len(received[s]) - 1 :
    \A n \in received[s][i].seq + 1 .. received[s][i + 1].seq - 1 :
      Event(u, n) \in dropped[s]

(* What events.py promises its clients: between two consecutive events a   *)
(* stream delivered, a jump in seq means that exactly those numbers were   *)
(* dropped by backpressure.  It holds even of a stream that has closed.    *)
GapMeansDropped == \A s \in Streams : GapMeansDroppedAt(s)

RegisteredAt(s) ==
  \A u \in Users :
    /\ Owns(u, s) /\ phase[s] \in {"starting", "sending", "waiting"}
         => s \in subscribers[u]
    /\ s \in subscribers[u] => Owns(u, s) /\ phase[s] # "closed"

(* A stream whose client is there is registered with its owner: another    *)
(* stream of the user closing first does not cut it off.  Registered with  *)
(* anyone else, or after its clean-up, it is never (unsubscribe).          *)
RegisteredWhileOpen == \A s \in Streams : RegisteredAt(s)

(* An idle stream has nothing.  Any other has the one owner it was         *)
(* connected with; a frame is only in its hand while it is being sent.     *)
OwnedAt(s) ==
  /\ phase[s] # "sending" => hand[s] = << >>
  /\ phase[s] = "idle" => /\ owner[s] = {} /\ dropped[s] = {}
                          /\ queue[s] = << >> /\ received[s] = << >>
  /\ phase[s] # "idle" => \E u \in Users : owner[s] = {u} /\ start[s] <= sequences[u]

(* What a stream has or had, also when it is closed, was published.        *)
PublishedAt(s) ==
  \A e \in Elements(Pipeline(s)) \cup dropped[s] :
    e.user \in owner[s] /\ e.seq \in 1 .. sequences[e.user]

(* The inductive invariant behind the safety properties.                   *)
StreamInv(s) == /\ OwnedAt(s) /\ PublishedAt(s)
                /\ AccountedAt(s) /\ GapMeansDroppedAt(s) /\ RegisteredAt(s)
BusInv == TypeOK /\ \A s \in Streams : StreamInv(s)

(* Every event that reached a queue reaches the client, or the stream ends.*)
Delivered ==
  \A s \in Streams, u \in Users : \A n \in 1 .. MaxSeq[u] :
    Event(u, n) \in Elements(queue[s])
      ~> \/ Event(u, n) \in Elements(received[s])
         \/ phase[s] \in {"closing", "abandoned", "closed"}

(* A stream that began and lost its client ends up unregistered            *)
(* (event_stream).                                                         *)
CleansUp ==
  \A s \in Streams, u \in Users :
    phase[s] = "closing" ~> s \notin subscribers[u]
=============================================================================

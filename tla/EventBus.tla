------------------------------ MODULE EventBus ------------------------------
(***************************************************************************)
(* Events.  A handler or a worker commits a change and then publishes an   *)
(* event about it to a topic exchange.  The logger's queue is bound to     *)
(* every event, the notifier's to the two match events.  Each subscriber   *)
(* takes one message at a time and acknowledges it when it is done: the    *)
(* logger after it has appended a line to events.jsonl and synced it, the  *)
(* notifier after it has written to its console.  Whoever starts first     *)
(* declares the queues; the broker, the disk and every process may fail.   *)
(*                                                                         *)
(* An event stands for one change and its emit_event.  Queues are durable  *)
(* and messages persistent, so a broker that restarts is one that did not  *)
(* answer for a while.                                                     *)
(***************************************************************************)
EXTENDS Integers, SequencesExt

CONSTANTS
    ApiEvents,        \* published by the API: item.*, request.failed, and
    ConfirmedEvents,  \*   match.confirmed
    WorkerEvents,     \* published by the workers: image.processed, and
    PotentialEvents   \*   match.potential_found

ASSUME EventBusAssumption ==
    /\ ApiEvents \cap WorkerEvents = {}
    /\ ConfirmedEvents \subseteq ApiEvents /\ PotentialEvents \subseteq WorkerEvents

Events == ApiEvents \cup WorkerEvents
Services == {"logger", "notifier"}
Processes == Services \cup {"api"}

VARIABLES
    fate,    \* event -> "none", or what became of it since its change is saved
    bound,   \* the routing keys queues are bound with
    todo,    \* process -> the keys its startup still has to bind
    at,      \* process -> where it is
    queue,   \* service -> its queue; the service holds the head until its ack
    lines,   \* service -> what it has written; a repeat of the last line is left out
    torn,    \* the events events.jsonl ends in half a line of
    garbled, \* events in events.jsonl only behind half a line
    routed   \* history: service -> what its queue has been given

file == <<torn, garbled>>
vars == <<fate, bound, todo, at, queue, lines, file, routed>>

LoggerBindings == <<"#">>
NotifierBindings == <<"match.potential_found", "match.confirmed">>
Bindings ==
    [p \in Processes |->
        CASE p = "logger" -> LoggerBindings
          [] p = "notifier" -> NotifierBindings
          [] p = "api" -> LoggerBindings \o NotifierBindings]
Keys == {"#", "match.potential_found", "match.confirmed"}

\* The services whose queue is bound to the event's routing key.
Receivers(e) ==
    {s \in Services :
        \/ s = "logger" /\ "#" \in bound
        \/ s = "notifier" /\ e \in PotentialEvents /\ "match.potential_found" \in bound
        \/ s = "notifier" /\ e \in ConfirmedEvents /\ "match.confirmed" \in bound}

Message(s) == Head(queue[s])

TypeOK ==
    /\ fate \in [Events -> {"none", "saved", "sent", "lost"}]
    /\ bound \subseteq Keys
    /\ todo \in [Processes -> Seq(Keys)]
    /\ at \in [Processes -> {"down", "starting", "up", "write", "ack"}]
    /\ queue \in [Services -> Seq(Events)]
    /\ \A s \in Services : at[s] \in {"write", "ack"} => queue[s] # <<>>
    /\ lines \in [Services -> Seq(Events)]
    /\ torn \subseteq Events /\ garbled \subseteq Events
    /\ routed \in [Services -> Seq(Events)]

Init ==
    /\ fate = [e \in Events |-> "none"]
    /\ bound = {}
    /\ todo = [p \in Processes |-> <<>>]
    /\ at = [p \in Processes |-> "down"]
    /\ queue = [s \in Services |-> <<>>]
    /\ lines = [s \in Services |-> <<>>]
    /\ torn = {} /\ garbled = {}
    /\ routed = [s \in Services |-> <<>>]

Go(p, place) == at' = [at EXCEPT ![p] = place]

-----------------------------------------------------------------------------
(* Publishers *)

\* The change is committed.  An API that is down changes nothing.
Save(e) ==
    /\ fate[e] = "none"
    /\ e \in ApiEvents => at["api"] = "up"
    /\ fate' = [fate EXCEPT ![e] = "saved"]
    /\ UNCHANGED <<bound, todo, at, queue, lines, file, routed>>

\* publish_event reaches the broker: a queue of each receiver gets the message.
\* That the confirm may be lost changes nothing but a line of the publisher's log.
Publish(e) ==
    /\ fate[e] = "saved" /\ Receivers(e) # {}
    /\ fate' = [fate EXCEPT ![e] = "sent"]
    /\ queue' = [s \in Services |->
                    IF s \in Receivers(e) THEN Append(queue[s], e) ELSE queue[s]]
    /\ routed' = [s \in Services |->
                     IF s \in Receivers(e) THEN Append(routed[s], e) ELSE routed[s]]
    /\ UNCHANGED <<bound, todo, at, lines, file>>

\* The broker does not answer, no queue is bound to the key, or the publisher
\* dies.  emit_event logs a warning; nobody tries again.
LoseEvent(e) ==
    /\ fate[e] = "saved"
    /\ fate' = [fate EXCEPT ![e] = "lost"]
    /\ UNCHANGED <<bound, todo, at, queue, lines, file, routed>>

-----------------------------------------------------------------------------
(* Starting and stopping *)

Start(p) ==
    /\ at[p] = "down"
    /\ Go(p, "starting")
    /\ todo' = [todo EXCEPT ![p] = Bindings[p]]
    /\ UNCHANGED <<fate, bound, queue, lines, file, routed>>

\* queue_declare and queue_bind, which change nothing the second time.
Bind(p) ==
    /\ at[p] = "starting" /\ todo[p] # <<>>
    /\ bound' = bound \cup {Head(todo[p])}
    /\ todo' = [todo EXCEPT ![p] = Tail(@)]
    /\ UNCHANGED <<fate, at, queue, lines, file, routed>>

\* prepare_event_queues is best effort: the API starts with what it could bind.
Started(p) ==
    /\ at[p] = "starting"
    /\ todo[p] = <<>> \/ p = "api"
    /\ Go(p, "up")
    /\ todo' = [todo EXCEPT ![p] = <<>>]
    /\ UNCHANGED <<fate, bound, queue, lines, file, routed>>

\* What the requests of an API that stops have saved and not published.
Unpublished(p) ==
    IF p = "api" THEN {e \in ApiEvents : fate[e] = "saved"} ELSE {}

\* Mutant: the subscriber consumes with auto_ack=True.
StopAutoAck(p) ==
    /\ at[p] # "down"
    /\ Go(p, "down")
    /\ todo' = [todo EXCEPT ![p] = <<>>]
    /\ fate' = [e \in Events |-> IF e \in Unpublished(p) THEN "lost" ELSE fate[e]]
    /\ queue' = IF at[p] = "write" THEN [queue EXCEPT ![p] = Tail(@)] ELSE queue
    /\ UNCHANGED <<bound, lines, file, routed>>

\* A process dies, or loses the broker.  A message that is not acknowledged stays
\* at the head of its queue.
Stop(p) ==
    /\ at[p] # "down"
    /\ Go(p, "down")
    /\ todo' = [todo EXCEPT ![p] = <<>>]
    /\ fate' = [e \in Events |-> IF e \in Unpublished(p) THEN "lost" ELSE fate[e]]
    /\ UNCHANGED <<bound, queue, lines, file, routed>>

-----------------------------------------------------------------------------
(* Subscribers *)

\* Mutant: an empty delivery is handled like a message.
TakeNothing(s) ==
    /\ at[s] = "up"
    /\ Go(s, "write")
    /\ UNCHANGED <<fate, bound, todo, queue, lines, file, routed>>

Take(s) ==
    /\ at[s] = "up" /\ queue[s] # <<>>
    /\ Go(s, "write")
    /\ UNCHANGED <<fate, bound, todo, queue, lines, file, routed>>

WithLine(written, e) ==
    IF written # <<>> /\ Last(written) = e THEN written ELSE Append(written, e)
AddLine(s) == lines' = [lines EXCEPT ![s] = WithLine(@, Message(s))]

\* A whole line gets to the disk, where it continues half a line if there is one.
AppendRecord ==
    LET e == Message("logger")
    IN /\ AddLine("logger")
       /\ torn' = {}
       /\ garbled' = IF torn # {} THEN garbled \cup ({e} \ ToSet(lines["logger"]))
                     ELSE garbled \ {e}

\* write, flush and fsync.
WriteLog ==
    /\ at["logger"] = "write"
    /\ AppendRecord
    /\ Go("logger", "ack")
    /\ UNCHANGED <<fate, bound, todo, queue, routed>>

\* One of them fails, or the logger dies here: none, half or all of the line has
\* got to the disk, and the logger stops.
FailLog ==
    /\ at["logger"] = "write"
    /\ \/ UNCHANGED <<lines, file>>
       \/ torn' = torn \cup {Message("logger")} /\ UNCHANGED <<lines, garbled>>
       \/ AppendRecord
    /\ Go("logger", "down")
    /\ UNCHANGED <<fate, bound, todo, queue, routed>>

WriteConsole ==
    /\ at["notifier"] = "write"
    /\ AddLine("notifier")
    /\ Go("notifier", "ack")
    /\ UNCHANGED <<fate, bound, todo, queue, file, routed>>

\* Mutant: the message is given back instead.
AckRequeue(s) ==
    /\ at[s] = "ack"
    /\ queue' = [queue EXCEPT ![s] = Append(Tail(@), Head(@))]
    /\ Go(s, "up")
    /\ UNCHANGED <<fate, bound, todo, lines, file, routed>>

Ack(s) ==
    /\ at[s] = "ack"
    /\ queue' = [queue EXCEPT ![s] = Tail(@)]
    /\ Go(s, "up")
    /\ UNCHANGED <<fate, bound, todo, lines, file, routed>>

Serve(s) ==
    \/ Bind(s) \/ Started(s)
    \/ Take(s) \/ Ack(s)
    \/ s = "logger" /\ WriteLog
    \/ s = "notifier" /\ WriteConsole

-----------------------------------------------------------------------------
Next ==
    \/ \E e \in Events : Save(e) \/ Publish(e) \/ LoseEvent(e)
    \/ \E p \in Processes : Start(p) \/ Stop(p)
    \/ Bind("api") \/ Started("api")
    \/ \E s \in Services : Serve(s)
    \/ FailLog

Spec == Init /\ [][Next]_vars

\* A subscriber that was started goes on; nobody has to start one.
FairSpec == Spec /\ \A s \in Services : WF_vars(Serve(s))

-----------------------------------------------------------------------------
(* Properties *)

\* What each subscriber has written is what its queue was given, in that order and
\* none skipped, over any number of stops and redeliveries: a repeat comes right
\* after the line it repeats.
LoggerChannel == INSTANCE Channel WITH sent <- routed["logger"], heard <- lines["logger"]
NotifierChannel ==
    INSTANCE Channel WITH sent <- routed["notifier"], heard <- lines["notifier"]
ImplementsChannels == LoggerChannel!Spec /\ NotifierChannel!Spec

\* Every queued event is acknowledged unless its subscriber stops: no message
\* goes round for ever or waits behind one that does.
QueuesDrain ==
    \A s \in Services, e \in Events :
       e \in ToSet(queue[s]) ~> e \notin ToSet(queue[s]) \/ at[s] = "down"

\* Half a line spoils only the record of its own event: the message it was of is
\* not acknowledged, so it is the next one that is written, whatever was published
\* and whoever was stopped in the meantime.
HalfLineSpoilsItsOwnEvent == [][garbled' \ garbled \subseteq torn]_vars

\* Violated: every event that was logged has a line of its own, a record that can
\* be read back (MESSAGE_ARCHITECTURE.md, Events).
LinesAreRecords == garbled = {}

=============================================================================

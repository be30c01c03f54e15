--------------------------- MODULE EventBusProofs ---------------------------
(***************************************************************************)
(* For any number of events, stops and redeliveries: each subscriber       *)
(* writes down what its queue was given, in that order and none skipped.   *)
(***************************************************************************)
EXTENDS EventBus, SequenceTheorems, TLAPS

-----------------------------------------------------------------------------
(* Types *)

LEMMA BindingsAreKeys == Bindings \in [Processes -> Seq(Keys)]
<1>1. LoggerBindings \in Seq(Keys) /\ NotifierBindings \in Seq(Keys)
  BY DEF LoggerBindings, NotifierBindings, Keys
<1>2. LoggerBindings \o NotifierBindings \in Seq(Keys)
  BY <1>1, ConcatProperties
<1> QED
  BY <1>1, <1>2 DEF Bindings, Processes, Services

LEMMA MessageIsEvent ==
    ASSUME TypeOK, NEW s \in Services, at[s] \in {"write", "ack"}
    PROVE  /\ Message(s) \in Events /\ queue[s] # <<>>
           /\ queue[s] \in Seq(Events) /\ Tail(queue[s]) \in Seq(Events)
BY HeadTailProperties DEF TypeOK, Message

LEMMA PublishersKeepType ==
    ASSUME TypeOK, NEW e \in Events, Save(e) \/ Publish(e) \/ LoseEvent(e)
    PROVE  TypeOK'
<1>1. CASE Save(e)
  BY <1>1 DEF Save, TypeOK, file
<1>2. CASE LoseEvent(e)
  BY <1>2 DEF LoseEvent, TypeOK, file
<1>3. CASE Publish(e)
  <2>1. \A s \in Services : /\ Append(queue[s], e) \in Seq(Events)
                            /\ Append(queue[s], e) # <<>>
                            /\ Append(routed[s], e) \in Seq(Events)
    <3>1. ASSUME NEW s \in Services
          PROVE  /\ Append(queue[s], e) \in Seq(Events)
                 /\ Append(queue[s], e) # <<>>
                 /\ Append(routed[s], e) \in Seq(Events)
      <4>1. queue[s] \in Seq(Events) /\ routed[s] \in Seq(Events)
        BY DEF TypeOK
      <4> QED
        BY <4>1, AppendProperties
    <3> QED
      BY <3>1
  <2>2. queue' \in [Services -> Seq(Events)] /\ routed' \in [Services -> Seq(Events)]
    BY <1>3, <2>1 DEF Publish, TypeOK
  <2>3. \A s \in Services : queue[s] # <<>> => queue'[s] # <<>>
    BY <1>3, <2>1 DEF Publish
  <2>4. fate' \in [Events -> {"none", "saved", "sent", "lost"}]
    BY <1>3 DEF Publish, TypeOK
  <2> QED
    BY <1>3, <2>2, <2>3, <2>4 DEF Publish, TypeOK, file
<1> QED
  BY <1>1, <1>2, <1>3

LEMMA ProcessesKeepType ==
    ASSUME TypeOK, NEW p \in Processes, Start(p) \/ Bind(p) \/ Started(p) \/ Stop(p)
    PROVE  TypeOK'
<1>1. CASE Start(p)
  <2>1. todo' \in [Processes -> Seq(Keys)]
    BY <1>1, BindingsAreKeys DEF Start, TypeOK
  <2> QED
    BY <1>1, <2>1 DEF Start, Go, TypeOK, file, Processes
<1>2. CASE Bind(p)
  <2>1. Head(todo[p]) \in Keys /\ Tail(todo[p]) \in Seq(Keys)
    BY <1>2, HeadTailProperties DEF Bind, TypeOK
  <2>2. bound' \subseteq Keys /\ todo' \in [Processes -> Seq(Keys)]
    BY <1>2, <2>1 DEF Bind, TypeOK
  <2> QED
    BY <1>2, <2>2 DEF Bind, TypeOK, file
<1>3. <<>> \in Seq(Keys)
  OBVIOUS
<1>4. CASE Started(p)
  <2>1. todo' \in [Processes -> Seq(Keys)]
    BY <1>3, <1>4 DEF Started, TypeOK
  <2> QED
    BY <1>4, <2>1 DEF Started, Go, TypeOK, file, Processes
<1>5. CASE Stop(p)
  <2>1. todo' \in [Processes -> Seq(Keys)]
    BY <1>3, <1>5 DEF Stop, TypeOK
  <2>2. fate' \in [Events -> {"none", "saved", "sent", "lost"}]
    BY <1>5 DEF Stop, TypeOK
  <2> QED
    BY <1>5, <2>1, <2>2 DEF Stop, Go, TypeOK, file, Processes
<1> QED
  BY <1>1, <1>2, <1>4, <1>5

\* A line is added, or the one there repeated.
LEMMA AddLineType ==
    ASSUME TypeOK, NEW s \in Services, at[s] = "write", AddLine(s)
    PROVE  lines' \in [Services -> Seq(Events)]
<1>1. Append(lines[s], Message(s)) \in Seq(Events)
  BY MessageIsEvent, AppendProperties DEF TypeOK
<1> QED
  BY <1>1 DEF AddLine, WithLine, TypeOK

LEMMA AppendRecordType ==
    ASSUME TypeOK, at["logger"] = "write", AppendRecord
    PROVE  /\ lines' \in [Services -> Seq(Events)]
           /\ torn' \subseteq Events /\ garbled' \subseteq Events
<1>1. "logger" \in Services
  BY DEF Services
<1>2. Message("logger") \in Events
  BY <1>1, MessageIsEvent
<1>3. lines' \in [Services -> Seq(Events)]
  BY <1>1, AddLineType DEF AppendRecord
<1> QED
  BY <1>2, <1>3 DEF AppendRecord, TypeOK

LEMMA SubscribersKeepType ==
    ASSUME TypeOK, NEW s \in Services,
           Take(s) \/ Ack(s) \/ WriteLog \/ FailLog \/ WriteConsole
    PROVE  TypeOK'
<1>1. CASE Take(s)
  BY <1>1 DEF Take, Go, TypeOK, file, Processes
<1>2. CASE Ack(s)
  <2>1. queue' \in [Services -> Seq(Events)]
    BY <1>2, MessageIsEvent DEF Ack, TypeOK
  <2> QED
    BY <1>2, <2>1 DEF Ack, Go, TypeOK, file, Processes
<1>3. CASE WriteLog
  BY <1>3, AppendRecordType DEF WriteLog, Go, TypeOK, Processes
<1>4. CASE FailLog
  <2>1. Message("logger") \in Events
    BY <1>4, MessageIsEvent DEF FailLog, Services
  <2>2. /\ lines' \in [Services -> Seq(Events)]
        /\ torn' \subseteq Events /\ garbled' \subseteq Events
    BY <1>4, <2>1, AppendRecordType DEF FailLog, TypeOK, file
  <2> QED
    BY <1>4, <2>2 DEF FailLog, Go, TypeOK, Processes
<1>5. CASE WriteConsole
  <2>1. lines' \in [Services -> Seq(Events)]
    BY <1>5, AddLineType DEF WriteConsole, Services
  <2> QED
    BY <1>5, <2>1 DEF WriteConsole, Go, TypeOK, file, Processes
<1> QED
  BY <1>1, <1>2, <1>3, <1>4, <1>5

LEMMA InitTypeCorrect == Init => TypeOK
<1>1. <<>> \in Seq(Events) /\ <<>> \in Seq(Keys)
  OBVIOUS
<1> SUFFICES ASSUME Init PROVE TypeOK
  OBVIOUS
<1>2. \A s \in Services : at[s] = "down"
  BY DEF Init, Processes
<1>3. /\ fate \in [Events -> {"none", "saved", "sent", "lost"}]
      /\ todo \in [Processes -> Seq(Keys)]
      /\ at \in [Processes -> {"down", "starting", "up", "write", "ack"}]
  BY <1>1 DEF Init
<1>4. /\ queue \in [Services -> Seq(Events)]
      /\ lines \in [Services -> Seq(Events)]
      /\ routed \in [Services -> Seq(Events)]
  BY <1>1 DEF Init
<1> QED
  BY <1>2, <1>3, <1>4 DEF Init, TypeOK

\* Events, queues, bindings and lines keep their types, and a subscriber that has
\* taken a message finds it at the head of its queue.
THEOREM EventsTypeCorrect == Spec => []TypeOK
<1>1. Init => TypeOK
  BY InitTypeCorrect
<1>2. TypeOK /\ [Next]_vars => TypeOK'
  <2> SUFFICES ASSUME TypeOK, [Next]_vars PROVE TypeOK'
    OBVIOUS
  <2>1. CASE UNCHANGED vars
    BY <2>1 DEF vars, file, TypeOK
  <2>2. CASE Next
    <3>1. "api" \in Processes /\ Services \subseteq Processes
      BY DEF Processes
    <3>2. "logger" \in Services /\ "notifier" \in Services
      BY DEF Services
    <3> QED
      BY <2>2, <3>1, <3>2, PublishersKeepType, ProcessesKeepType, SubscribersKeepType
      DEF Next, Serve
  <2> QED
    BY <2>1, <2>2
<1> QED
  BY <1>1, <1>2, PTL DEF Spec

-----------------------------------------------------------------------------
(* One subscriber's queue q, everything it was given r, and its lines l *)

\* The queue is the end of what it was given, the lines are the beginning, and
\* together they leave nothing out: what is not in the queue has its line, and of
\* the queue only the head may have one.  No event was given twice.
InOrder(q, r, l) ==
    /\ \A m, n \in 1 .. Len(r) : r[m] = r[n] => m = n
    /\ Len(q) <= Len(r)
    /\ \A n \in 1 .. Len(q) : q[n] = r[Len(r) - Len(q) + n]
    /\ Len(l) \in {Len(r) - Len(q), Len(r) - Len(q) + 1}
    /\ Len(l) <= Len(r)
    /\ \A n \in 1 .. Len(l) : l[n] = r[n]

\* The message is in hand and its line is written.
Written(q, r, l) == Len(l) = Len(r) - Len(q) + 1

LEMMA PublishedInOrder ==
    ASSUME NEW q \in Seq(Events), NEW r \in Seq(Events), NEW l \in Seq(Events),
           InOrder(q, r, l), NEW e \in Events, \A n \in 1 .. Len(r) : r[n] # e
    PROVE  /\ InOrder(Append(q, e), Append(r, e), l)
           /\ Written(q, r, l) => Written(Append(q, e), Append(r, e), l)
<1> DEFINE qe == Append(q, e)
           re == Append(r, e)
<1>1. /\ Len(qe) = Len(q) + 1 /\ qe[Len(q) + 1] = e
      /\ \A n \in 1 .. Len(q) : qe[n] = q[n]
  BY AppendProperties
<1>2. /\ Len(re) = Len(r) + 1 /\ re[Len(r) + 1] = e
      /\ \A n \in 1 .. Len(r) : re[n] = r[n]
  BY AppendProperties
<1>3. Len(q) \in Nat /\ Len(r) \in Nat /\ Len(l) \in Nat
  BY LenProperties
<1> HIDE DEF qe, re
<1>4. \A m, n \in 1 .. Len(re) : re[m] = re[n] => m = n
  <2> SUFFICES ASSUME NEW m \in 1 .. Len(re), NEW n \in 1 .. Len(re), re[m] = re[n]
               PROVE  m = n
    OBVIOUS
  <2>1. \A k \in 1 .. Len(re) : k \in 1 .. Len(r) \/ k = Len(r) + 1
    BY <1>2, <1>3
  <2>2. \A k \in 1 .. Len(r) : re[k] = r[k] /\ re[k] # e
    BY <1>2
  <2>3. CASE m = Len(r) + 1 \/ n = Len(r) + 1
    BY <1>2, <2>1, <2>2, <2>3
  <2>4. CASE m \in 1 .. Len(r) /\ n \in 1 .. Len(r)
    BY <2>2, <2>4 DEF InOrder
  <2> QED
    BY <2>1, <2>3, <2>4
<1>5. \A n \in 1 .. Len(qe) : qe[n] = re[Len(re) - Len(qe) + n]
  <2> SUFFICES ASSUME NEW n \in 1 .. Len(qe)
               PROVE  qe[n] = re[Len(re) - Len(qe) + n]
    OBVIOUS
  <2>1. CASE n = Len(q) + 1
    <3>1. Len(re) - Len(qe) + n = Len(r) + 1
      BY <1>1, <1>2, <1>3, <2>1
    <3> QED
      BY <1>1, <1>2, <2>1, <3>1
  <2>2. CASE n \in 1 .. Len(q)
    <3>1. /\ Len(re) - Len(qe) + n = Len(r) - Len(q) + n
          /\ Len(r) - Len(q) + n \in 1 .. Len(r)
      BY <1>1, <1>2, <1>3, <2>2 DEF InOrder
    <3> QED
      BY <1>1, <1>2, <2>2, <3>1 DEF InOrder
  <2> QED
    BY <1>1, <1>3, <2>1, <2>2
<1>6. \A n \in 1 .. Len(l) : l[n] = re[n]
  BY <1>2, <1>3 DEF InOrder
<1>7. InOrder(qe, re, l)
  BY <1>1, <1>2, <1>3, <1>4, <1>5, <1>6 DEF InOrder
<1>8. Written(q, r, l) => Written(qe, re, l)
  BY <1>1, <1>2, <1>3 DEF Written
<1> QED
  BY <1>7, <1>8 DEF qe, re

\* Writing the head of the queue adds the line that is next, or none.
LEMMA WrittenInOrder ==
    ASSUME NEW q \in Seq(Events), NEW r \in Seq(Events), NEW l \in Seq(Events),
           InOrder(q, r, l), q # <<>>
    PROVE  /\ InOrder(q, r, WithLine(l, Head(q)))
           /\ Written(q, r, WithLine(l, Head(q)))
           /\ \/ WithLine(l, Head(q)) = l
              \/ /\ Len(l) < Len(r)
                 /\ WithLine(l, Head(q)) = Append(l, r[Len(l) + 1])
<1> DEFINE m == WithLine(l, Head(q))
<1>1. Len(q) \in Nat /\ Len(r) \in Nat /\ Len(l) \in Nat
  BY LenProperties
<1>2. Len(q) >= 1 /\ Head(q) = q[1] /\ Head(q) \in Events
  BY <1>1, EmptySeq, HeadTailProperties
<1> DEFINE next == Len(r) - Len(q) + 1
<1>3. next \in 1 .. Len(r) /\ Head(q) = r[next]
  BY <1>1, <1>2 DEF InOrder
<1>4. l # <<>> => Len(l) \in 1 .. Len(r) /\ Last(l) = r[Len(l)]
  BY <1>1, EmptySeq DEF InOrder, Last
<1>5. l # <<>> => (Last(l) = Head(q) <=> Len(l) = next)
  BY <1>3, <1>4 DEF InOrder
<1>6. CASE Len(l) = next
  <2>1. l # <<>>
    BY <1>3, <1>6
  <2>2. m = l
    BY <1>5, <1>6, <2>1 DEF WithLine
  <2>3. Written(q, r, l)
    BY <1>6 DEF Written
  <2> QED
    BY <2>2, <2>3
<1>7. CASE Len(l) # next
  <2>1. Len(l) = Len(r) - Len(q)
    BY <1>1, <1>7 DEF InOrder
  <2>2. m = Append(l, Head(q))
    BY <1>5, <1>7 DEF WithLine
  <2>3. /\ Len(m) = Len(l) + 1 /\ m[Len(l) + 1] = Head(q)
        /\ \A n \in 1 .. Len(l) : m[n] = l[n]
    BY <1>2, <2>2, AppendProperties
  <2>4. Len(l) + 1 = next
    BY <1>1, <2>1
  <2>5. Len(m) \in 1 .. Len(r) /\ \A n \in 1 .. Len(m) : m[n] = r[n]
    BY <1>1, <1>3, <2>3, <2>4 DEF InOrder
  <2>6. InOrder(q, r, m) /\ Written(q, r, m)
    BY <1>1, <2>1, <2>3, <2>5 DEF InOrder, Written
  <2> QED
    BY <1>1, <1>3, <2>2, <2>4, <2>6
<1> QED
  BY <1>6, <1>7

\* A message is acknowledged after its line is written.
LEMMA AckedInOrder ==
    ASSUME NEW q \in Seq(Events), NEW r \in Seq(Events), NEW l \in Seq(Events),
           InOrder(q, r, l), Written(q, r, l), q # <<>>
    PROVE  InOrder(Tail(q), r, l)
<1>1. Len(q) \in Nat /\ Len(r) \in Nat /\ Len(l) \in Nat
  BY LenProperties
<1>2. /\ Tail(q) \in Seq(Events) /\ Len(Tail(q)) = Len(q) - 1
      /\ \A n \in 1 .. Len(Tail(q)) : Tail(q)[n] = q[n + 1]
  BY HeadTailProperties
<1>3. Len(q) >= 1
  BY <1>1, EmptySeq
<1>4. \A n \in 1 .. Len(Tail(q)) : Tail(q)[n] = r[Len(r) - Len(Tail(q)) + n]
  <2> SUFFICES ASSUME NEW n \in 1 .. Len(Tail(q))
               PROVE  Tail(q)[n] = r[Len(r) - Len(Tail(q)) + n]
    OBVIOUS
  <2>1. n + 1 \in 1 .. Len(q) /\ Len(r) - Len(Tail(q)) + n = Len(r) - Len(q) + (n + 1)
    BY <1>1, <1>2, <1>3
  <2> QED
    BY <1>2, <2>1 DEF InOrder
<1> QED
  BY <1>1, <1>2, <1>3, <1>4 DEF InOrder, Written

-----------------------------------------------------------------------------
(* The channels *)

\* What ImplementsChannels rests on: events are published once, and every queue is
\* in order with its lines.
ChannelInv ==
    /\ TypeOK
    /\ \A s \in Services :
          /\ \A n \in 1 .. Len(routed[s]) : fate[routed[s][n]] = "sent"
          /\ InOrder(queue[s], routed[s], lines[s])
          /\ at[s] = "ack" => Written(queue[s], routed[s], lines[s])

\* A step of Channel, or a stutter.
ChannelStep(s) ==
    \/ UNCHANGED <<routed[s], lines[s]>>
    \/ /\ \E e \in Events : routed[s]' = Append(routed[s], e)
       /\ UNCHANGED lines[s]
    \/ /\ Len(lines[s]) < Len(routed[s])
       /\ lines[s]' = Append(lines[s], routed[s][Len(lines[s]) + 1])
       /\ UNCHANGED routed[s]

LEMMA PublishersKeepChannels ==
    ASSUME ChannelInv, NEW e \in Events, Save(e) \/ Publish(e) \/ LoseEvent(e)
    PROVE  ChannelInv' /\ \A s \in Services : ChannelStep(s)
<1>1. TypeOK /\ TypeOK'
  BY PublishersKeepType DEF ChannelInv
<1>2. UNCHANGED <<at, lines>>
  BY DEF Save, Publish, LoseEvent
<1> SUFFICES ASSUME NEW s \in Services
             PROVE  /\ \A n \in 1 .. Len(routed'[s]) : fate'[routed'[s][n]] = "sent"
                    /\ InOrder(queue'[s], routed'[s], lines'[s])
                    /\ at'[s] = "ack" => Written(queue'[s], routed'[s], lines'[s])
                    /\ ChannelStep(s)
  BY <1>1 DEF ChannelInv
<1>3. /\ queue[s] \in Seq(Events) /\ routed[s] \in Seq(Events) /\ lines[s] \in Seq(Events)
      /\ \A n \in 1 .. Len(routed[s]) : routed[s][n] \in Events
      /\ Len(routed[s]) \in Nat
  BY <1>1, LenProperties DEF TypeOK
<1>4. /\ InOrder(queue[s], routed[s], lines[s])
      /\ at[s] = "ack" => Written(queue[s], routed[s], lines[s])
      /\ \A n \in 1 .. Len(routed[s]) : fate[routed[s][n]] = "sent"
  BY DEF ChannelInv
<1>5. \A n \in 1 .. Len(routed[s]) : routed[s][n] # e /\ fate'[routed[s][n]] = "sent"
  <2>1. fate[e] # "sent"
    BY DEF Save, Publish, LoseEvent
  <2>2. \A f \in Events : f # e => fate'[f] = fate[f]
    BY <1>1 DEF Save, Publish, LoseEvent, TypeOK
  <2> QED
    BY <1>3, <1>4, <2>1, <2>2
<1>6. CASE UNCHANGED <<queue[s], routed[s]>>
  BY <1>2, <1>4, <1>5, <1>6 DEF ChannelStep
<1>7. CASE Publish(e) /\ s \in Receivers(e)
  <2>1. queue'[s] = Append(queue[s], e) /\ routed'[s] = Append(routed[s], e)
    BY <1>7 DEF Publish
  <2>2. /\ InOrder(queue'[s], routed'[s], lines'[s])
        /\ at'[s] = "ack" => Written(queue'[s], routed'[s], lines'[s])
    BY <1>2, <1>3, <1>4, <1>5, <2>1, PublishedInOrder
  <2>3. fate'[e] = "sent"
    BY <1>1, <1>7 DEF Publish, TypeOK
  <2>4. /\ Len(routed'[s]) = Len(routed[s]) + 1 /\ routed'[s][Len(routed[s]) + 1] = e
        /\ \A n \in 1 .. Len(routed[s]) : routed'[s][n] = routed[s][n]
    BY <1>3, <2>1, AppendProperties
  <2>5. \A n \in 1 .. Len(routed'[s]) : fate'[routed'[s][n]] = "sent"
    BY <1>3, <1>5, <2>3, <2>4, SMTT(60)
  <2> QED
    BY <1>2, <2>1, <2>2, <2>5 DEF ChannelStep
<1> QED
  BY <1>1, <1>6, <1>7, ZenonT(60) DEF Save, Publish, LoseEvent, TypeOK

LEMMA ProcessesKeepChannels ==
    ASSUME ChannelInv, NEW p \in Processes, Start(p) \/ Bind(p) \/ Started(p) \/ Stop(p)
    PROVE  ChannelInv' /\ \A s \in Services : ChannelStep(s)
<1>1. TypeOK /\ TypeOK'
  BY ProcessesKeepType DEF ChannelInv
<1>2. UNCHANGED <<queue, lines, routed>>
  BY DEF Start, Bind, Started, Stop
<1>3. \A f \in Events : fate[f] = "sent" => fate'[f] = "sent"
  BY <1>1 DEF Start, Bind, Started, Stop, Unpublished, TypeOK
<1>4. \A s \in Services : at'[s] = "ack" => at[s] = "ack"
  BY <1>1 DEF Start, Bind, Started, Stop, Go, TypeOK, Processes
<1>5. \A s \in Services : \A n \in 1 .. Len(routed[s]) : routed[s][n] \in Events
  BY <1>1 DEF TypeOK
<1> QED
  BY <1>1, <1>2, <1>3, <1>4, <1>5 DEF ChannelInv, ChannelStep

\* A subscriber writes a line, whether it lives to acknowledge it or not.
LEMMA AddLineKeepsChannels ==
    ASSUME ChannelInv, TypeOK', NEW s \in Services, at[s] = "write", AddLine(s),
           Go(s, "ack") \/ Go(s, "down"), UNCHANGED <<fate, queue, routed>>
    PROVE  ChannelInv' /\ \A t \in Services : ChannelStep(t)
<1>1. /\ queue[s] \in Seq(Events) /\ queue[s] # <<>>
      /\ routed[s] \in Seq(Events) /\ lines[s] \in Seq(Events)
  BY DEF ChannelInv, TypeOK
<1>2. lines'[s] = WithLine(lines[s], Head(queue[s]))
  BY DEF AddLine, Message, ChannelInv, TypeOK
<1>3. /\ InOrder(queue[s], routed[s], lines'[s])
      /\ Written(queue[s], routed[s], lines'[s])
      /\ \/ lines'[s] = lines[s]
         \/ /\ Len(lines[s]) < Len(routed[s])
            /\ lines'[s] = Append(lines[s], routed[s][Len(lines[s]) + 1])
  <2>1. InOrder(queue[s], routed[s], lines[s])
    BY DEF ChannelInv
  <2> QED
    BY <1>1, <1>2, <2>1, WrittenInOrder
<1>4. \A t \in Services : t # s => lines'[t] = lines[t] /\ at'[t] = at[t]
  BY DEF AddLine, Go, ChannelInv, TypeOK, Processes
<1>5. ChannelInv'
  BY <1>3, <1>4 DEF ChannelInv
<1>6. \A t \in Services : ChannelStep(t)
  BY <1>3, <1>4 DEF ChannelStep
<1> QED
  BY <1>5, <1>6

LEMMA SubscribersKeepChannels ==
    ASSUME ChannelInv, NEW s \in Services,
           Take(s) \/ Ack(s) \/ WriteLog \/ FailLog \/ WriteConsole
    PROVE  ChannelInv' /\ \A t \in Services : ChannelStep(t)
<1>1. TypeOK /\ TypeOK'
  BY SubscribersKeepType DEF ChannelInv
<1>2. "logger" \in Services /\ "notifier" \in Services
  BY DEF Services
<1>3. CASE Take(s)
  <2>1. \A t \in Services : at'[t] = "ack" => at[t] = "ack"
    BY <1>1, <1>3 DEF Take, Go, TypeOK, Processes
  <2> QED
    BY <1>1, <1>3, <2>1 DEF Take, ChannelInv, ChannelStep
<1>4. CASE Ack(s)
  <2>1. at[s] = "ack" /\ queue[s] # <<>> /\ queue[s] \in Seq(Events)
        /\ routed[s] \in Seq(Events) /\ lines[s] \in Seq(Events)
    BY <1>1, <1>4 DEF Ack, TypeOK
  <2>2. InOrder(Tail(queue[s]), routed[s], lines[s])
    BY <2>1, AckedInOrder DEF ChannelInv
  <2>3. /\ queue'[s] = Tail(queue[s]) /\ at'[s] = "up"
        /\ \A t \in Services : t # s => queue'[t] = queue[t] /\ at'[t] = at[t]
        /\ UNCHANGED <<fate, routed, lines>>
    BY <1>1, <1>4 DEF Ack, Go, TypeOK, Processes
  <2> QED
    BY <1>1, <2>2, <2>3 DEF ChannelInv, ChannelStep
<1>5. CASE WriteLog
  BY <1>1, <1>2, <1>5, AddLineKeepsChannels DEF WriteLog, AppendRecord
<1>6. CASE FailLog
  <2>1. CASE AppendRecord
    BY <1>1, <1>2, <1>6, <2>1, AddLineKeepsChannels DEF FailLog, AppendRecord
  <2>2. CASE UNCHANGED lines
    <3>1. \A t \in Services : at'[t] = "ack" => at[t] = "ack"
      BY <1>1, <1>6 DEF FailLog, Go, TypeOK, Processes
    <3> QED
      BY <1>1, <1>6, <2>2, <3>1 DEF FailLog, ChannelInv, ChannelStep
  <2> QED
    BY <1>6, <2>1, <2>2 DEF FailLog
<1>7. CASE WriteConsole
  BY <1>1, <1>2, <1>7, AddLineKeepsChannels DEF WriteConsole
<1> QED
  BY <1>3, <1>4, <1>5, <1>6, <1>7

LEMMA NextKeepsChannels ==
    ASSUME ChannelInv, [Next]_vars
    PROVE  ChannelInv' /\ \A s \in Services : ChannelStep(s)
<1>1. CASE UNCHANGED vars
  BY <1>1 DEF vars, file, ChannelInv, TypeOK, ChannelStep
<1>2. CASE Next
  <2>1. "api" \in Processes /\ Services \subseteq Processes
    BY DEF Processes
  <2>2. "logger" \in Services /\ "notifier" \in Services
    BY DEF Services
  <2> QED
    BY <1>2, <2>1, <2>2, PublishersKeepChannels, ProcessesKeepChannels,
       SubscribersKeepChannels
    DEF Next, Serve
<1> QED
  BY <1>1, <1>2

LEMMA InitChannels == Init => ChannelInv
<1> SUFFICES ASSUME Init PROVE ChannelInv
  OBVIOUS
<1>1. TypeOK
  BY InitTypeCorrect
<1>2. \A s \in Services : /\ queue[s] = <<>> /\ routed[s] = <<>> /\ lines[s] = <<>>
                          /\ at[s] = "down"
  BY DEF Init, Processes
<1>3. InOrder(<<>>, <<>>, <<>>)
  BY DEF InOrder
<1> QED
  BY <1>1, <1>2, <1>3 DEF ChannelInv

\* Each subscriber writes down what its queue was given, in that order and none
\* skipped: a stop loses nothing and a redelivery repeats only the last line.
THEOREM EventsImplementChannels == Spec => ImplementsChannels
<1>1. Init => LoggerChannel!Init /\ NotifierChannel!Init
  BY DEF Init, LoggerChannel!Init, NotifierChannel!Init, Services
<1>2. ChannelInv /\ [Next]_vars => ChannelInv'
  BY NextKeepsChannels
<1>3. ChannelInv /\ [Next]_vars =>
         /\ [LoggerChannel!Next]_<<routed["logger"], lines["logger"]>>
         /\ [NotifierChannel!Next]_<<routed["notifier"], lines["notifier"]>>
  <2> SUFFICES ASSUME ChannelInv, [Next]_vars
               PROVE  /\ [LoggerChannel!Next]_<<routed["logger"], lines["logger"]>>
                      /\ [NotifierChannel!Next]_<<routed["notifier"], lines["notifier"]>>
    OBVIOUS
  <2>1. ChannelStep("logger") /\ ChannelStep("notifier")
    BY NextKeepsChannels DEF Services
  <2> QED
    BY <2>1 DEF ChannelStep, LoggerChannel!Next, LoggerChannel!Send, LoggerChannel!Hear,
                NotifierChannel!Next, NotifierChannel!Send, NotifierChannel!Hear
<1> QED
  BY <1>1, <1>2, <1>3, InitChannels, PTL
  DEF Spec, ImplementsChannels, LoggerChannel!Spec, NotifierChannel!Spec

-----------------------------------------------------------------------------
(* Half a line *)

\* The half line events.jsonl ends in is of the message at the head of the logger's
\* queue, which is neither written whole nor acknowledged since.
TornInHand ==
    \A e \in torn : /\ queue["logger"] # <<>> /\ Message("logger") = e
                    /\ at["logger"] # "ack"

LEMMA NextKeepsTornInHand ==
    ASSUME TypeOK, TornInHand, [Next]_vars
    PROVE  TornInHand' /\ garbled' \ garbled \subseteq torn
<1>1. "logger" \in Services /\ "logger" \in Processes /\ queue["logger"] \in Seq(Events)
  BY DEF Services, Processes, TypeOK
<1>2. ASSUME UNCHANGED <<queue, file>>, at'["logger"] = "ack" => at["logger"] = "ack"
      PROVE  TornInHand' /\ garbled' \ garbled \subseteq torn
  BY <1>2 DEF TornInHand, Message, file
<1>3. ASSUME NEW e \in Events, Publish(e)
      PROVE  TornInHand' /\ garbled' \ garbled \subseteq torn
  <2>1. queue'["logger"] \in {queue["logger"], Append(queue["logger"], e)}
    BY <1>1, <1>3 DEF Publish
  <2>2. queue["logger"] # <<>> =>
           queue'["logger"] # <<>> /\ Head(queue'["logger"]) = Head(queue["logger"])
    BY <1>1, <2>1, AppendProperties, HeadTailProperties, EmptySeq
  <2> QED
    BY <1>3, <2>2 DEF Publish, TornInHand, Message, file
<1>4. ASSUME NEW s \in Services, Ack(s)
      PROVE  TornInHand' /\ garbled' \ garbled \subseteq torn
  <2>1. CASE s = "logger"
    BY <1>4, <2>1 DEF Ack, TornInHand, file
  <2>2. CASE s # "logger"
    <3>1. UNCHANGED <<queue["logger"], at["logger"], file>>
      BY <1>1, <1>4, <2>2 DEF Ack, Go, TypeOK
    <3> QED
      BY <3>1 DEF TornInHand, Message, file
  <2> QED
    BY <2>1, <2>2
<1>5. ASSUME AppendRecord
      PROVE  TornInHand' /\ garbled' \ garbled \subseteq torn
  BY <1>5 DEF AppendRecord, TornInHand
<1>6. CASE FailLog
  <2>1. CASE UNCHANGED file
    BY <1>1, <1>2, <1>6, <2>1 DEF FailLog, Go, TypeOK
  <2>2. CASE torn' = torn \cup {Message("logger")} /\ UNCHANGED garbled
    <3>1. at'["logger"] = "down" /\ queue["logger"] # <<>> /\ UNCHANGED queue
      BY <1>1, <1>6 DEF FailLog, Go, TypeOK
    <3> QED
      BY <2>2, <3>1 DEF TornInHand, Message
  <2> QED
    BY <1>5, <1>6, <2>1, <2>2 DEF FailLog
<1>7. ASSUME NEW e \in Events, Save(e) \/ LoseEvent(e)
      PROVE  TornInHand' /\ garbled' \ garbled \subseteq torn
  BY <1>2, <1>7 DEF Save, LoseEvent
<1>8. ASSUME NEW p \in Processes, Start(p) \/ Stop(p) \/ Bind(p) \/ Started(p)
      PROVE  TornInHand' /\ garbled' \ garbled \subseteq torn
  <2>1. at'["logger"] = "ack" => at["logger"] = "ack"
    BY <1>1, <1>8 DEF Start, Stop, Bind, Started, Go, TypeOK
  <2> QED
    BY <1>2, <1>8, <2>1 DEF Start, Stop, Bind, Started
<1>9. ASSUME NEW s \in Services, Take(s)
      PROVE  TornInHand' /\ garbled' \ garbled \subseteq torn
  <2>1. at'["logger"] = "ack" => at["logger"] = "ack"
    BY <1>1, <1>9 DEF Take, Go, TypeOK
  <2> QED
    BY <1>2, <1>9, <2>1 DEF Take
<1>10. CASE WriteConsole
  <2>1. at'["logger"] = "ack" => at["logger"] = "ack"
    BY <1>1, <1>10 DEF WriteConsole, Go, TypeOK
  <2> QED
    BY <1>2, <1>10, <2>1 DEF WriteConsole
<1>11. CASE WriteLog
  BY <1>5, <1>11 DEF WriteLog
<1>12. CASE UNCHANGED vars
  BY <1>2, <1>12 DEF vars
<1>13. Services \subseteq Processes /\ "api" \in Processes
  BY DEF Processes
<1> QED
  BY <1>3, <1>4, <1>6, <1>7, <1>8, <1>9, <1>10, <1>11, <1>12, <1>13 DEF Next, Serve

\* Half a line spoils only the record of its own event: a logger that died in a
\* write has not acknowledged the message, and gets it again before any other.
THEOREM EventsHalfLineSpoilsItsOwn == Spec => HalfLineSpoilsItsOwnEvent
<1>1. Init => TornInHand
  BY DEF Init, TornInHand
<1>2. TypeOK /\ TornInHand /\ [Next]_vars => TornInHand'
  BY NextKeepsTornInHand
<1>3. TypeOK /\ TornInHand /\ [Next]_vars => [garbled' \ garbled \subseteq torn]_vars
  BY NextKeepsTornInHand
<1> QED
  BY <1>1, <1>2, <1>3, EventsTypeCorrect, PTL DEF Spec, HalfLineSpoilsItsOwnEvent

=============================================================================

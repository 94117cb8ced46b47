------------------------- MODULE EngineProcessProofs -------------------------
(***************************************************************************)
(* Proofs about the engine process, for every capacity of the event        *)
(* channel and every number of events.                                     *)
(***************************************************************************)
EXTENDS EngineProcessProps, TLAPS, SequenceTheorems, FiniteSetTheorems

OneReport == \E k \in DOMAIN out : Reports = {k} /\ out[k].type = "report"

\* Where main is tells what reports there are.
PhaseInv ==
    /\ client = "prepare" => main = "none"
    /\ main \in {"none", "read", "run", "report"} => Reports = {}
    /\ main = "return" \/ code = 0 => OneReport
    /\ client \in {"returned", "key error"} => code = 0
    /\ client # "no report"

\* Events are on their way in the order they were emitted: the written ones, the
\* one with the writer, those in the channel.
OrderInv ==
    /\ \A w \in Written : (pump # 0 => w < pump) /\ \A n \in InChannel : w < n
    /\ pump # 0 => \A n \in InChannel : pump < n
    /\ \A j, k \in DOMAIN chan : j < k => chan[j] < chan[k]
    /\ emitted <= events

PInv == ProcessTypeOK /\ EventsAccountedFor /\ ReportOvertakesFew /\ PhaseInv /\ OrderInv

-----------------------------------------------------------------------------
(* Lines and the channel *)

LEMMA LineValues ==
    /\ \A n \in 1..MaxEvents : /\ Line("event", n) \in Lines /\ IsEvent(Line("event", n))
                               /\ ~IsReport(Line("event", n)) /\ Line("event", n).event = n
    /\ \A type \in {"accepted", "report", "error"} :
         /\ Line(type, 0) \in Lines /\ ~IsEvent(Line(type, 0)) /\ Line(type, 0).type = type
         /\ IsReport(Line(type, 0)) <=> type # "accepted"
    /\ \A l \in Lines : IsEvent(l) =>
         l.event \in 1..MaxEvents /\ l = Line("event", l.event) /\ l.type # "report" /\ ~IsReport(l)
<1>1. \A n \in 1..MaxEvents : /\ Line("event", n) \in Lines /\ IsEvent(Line("event", n))
                              /\ ~IsReport(Line("event", n)) /\ Line("event", n).event = n
  BY DEF Lines, Line, IsEvent, IsReport
<1>2. \A type \in {"accepted", "report", "error"} :
         /\ Line(type, 0) \in Lines /\ ~IsEvent(Line(type, 0)) /\ Line(type, 0).type = type
         /\ IsReport(Line(type, 0)) <=> type # "accepted"
  BY DEF Lines, Line, IsEvent, IsReport
<1>3. ASSUME NEW l \in Lines, IsEvent(l)
      PROVE  l.event \in 1..MaxEvents /\ l = Line("event", l.event) /\ l.type # "report"
             /\ ~IsReport(l)
  <2>1. PICK n \in 1..MaxEvents : l = Line("event", n)
    BY <1>2, <1>3 DEF Lines
  <2> QED
    BY <1>1, <2>1 DEF Line
<1> QED
  BY <1>1, <1>2, <1>3

LEMMA OutDomain ==
    ASSUME ProcessTypeOK
    PROVE  /\ Len(out) \in Nat /\ DOMAIN out = 1..Len(out)
           /\ \A k \in DOMAIN out : k \in Nat /\ out[k] \in Lines /\ 1..k \subseteq DOMAIN out
           /\ \A k \in DOMAIN out : IsEvent(out[k]) => out[k].event \in 1..MaxEvents
<1>1. Len(out) \in Nat /\ DOMAIN out = 1..Len(out) /\ \A k \in 1..Len(out) : out[k] \in Lines
  BY LenProperties, ElementOfSeq DEF ProcessTypeOK
<1>2. \A k \in 1..Len(out) : k \in Nat /\ 1..k \subseteq 1..Len(out)
  BY <1>1
<1> QED
  BY <1>1, <1>2, LineValues

LEMMA Writing ==
    ASSUME ProcessTypeOK, NEW l \in Lines, Write(l)
    PROVE  /\ out' \in Seq(Lines) /\ DOMAIN out' = DOMAIN out \cup {Len(out) + 1}
           /\ Len(out) + 1 \in Nat
           /\ out'[Len(out) + 1] = l
           /\ \A k \in DOMAIN out : out'[k] = out[k] /\ k < Len(out) + 1
           /\ IsEvent(l) => Written' = Written \cup {l.event}
           /\ ~IsEvent(l) => Written' = Written
           /\ IsReport(l) => Reports' = Reports \cup {Len(out) + 1}
           /\ ~IsReport(l) => Reports' = Reports
<1>1. /\ out' \in Seq(Lines) /\ Len(out') = Len(out) + 1 /\ out'[Len(out) + 1] = l
      /\ \A k \in 1..Len(out) : out'[k] = out[k]
  BY AppendProperties DEF ProcessTypeOK, Write
<1>2. Len(out) \in Nat /\ DOMAIN out = 1..Len(out)
  BY OutDomain
<1>3. DOMAIN out' = 1..(Len(out) + 1)
  BY <1>1, LenProperties
<1>4. 1..(Len(out) + 1) = 1..Len(out) \cup {Len(out) + 1}
  BY <1>2
<1>5. \A k \in 1..Len(out) : k < Len(out) + 1
  BY <1>2
<1>6. /\ DOMAIN out' = DOMAIN out \cup {Len(out) + 1}
      /\ \A k \in DOMAIN out : out'[k] = out[k] /\ k < Len(out) + 1
  BY <1>1, <1>2, <1>3, <1>4, <1>5, Zenon
<1>7. PICK e : e = Len(out) + 1
  OBVIOUS
<1>8. DOMAIN out' = DOMAIN out \cup {e} /\ out'[e] = l /\ \A k \in DOMAIN out : out'[k] = out[k]
  BY <1>1, <1>6, <1>7
<1>9. IsEvent(l) => Written' = Written \cup {l.event}
  BY <1>8 DEF Written, IsEvent
<1>10. ~IsEvent(l) => Written' = Written
  BY <1>8 DEF Written, IsEvent
<1>11. /\ IsReport(l) => Reports' = Reports \cup {e}
       /\ ~IsReport(l) => Reports' = Reports
  BY <1>8 DEF Reports, IsReport
<1> QED
  BY <1>1, <1>2, <1>6, <1>7, <1>9, <1>10, <1>11

LEMMA ChanDomain ==
    ASSUME ProcessTypeOK
    PROVE  /\ Len(chan) \in Nat /\ DOMAIN chan = 1..Len(chan)
           /\ \A k \in DOMAIN chan : k \in Nat /\ chan[k] \in 1..MaxEvents
           /\ InChannel \subseteq 1..MaxEvents
<1>1. Len(chan) \in Nat /\ DOMAIN chan = 1..Len(chan)
      /\ \A k \in 1..Len(chan) : chan[k] \in 1..MaxEvents
  BY LenProperties, ElementOfSeq DEF ProcessTypeOK
<1>2. \A k \in 1..Len(chan) : k \in Nat
  BY <1>1
<1> QED
  BY <1>1, <1>2 DEF InChannel

LEMMA Sending ==
    ASSUME ProcessTypeOK, NEW n \in 1..MaxEvents, chan' = Append(chan, n)
    PROVE  /\ chan' \in Seq(1..MaxEvents) /\ Len(chan') = Len(chan) + 1
           /\ DOMAIN chan' = DOMAIN chan \cup {Len(chan) + 1} /\ chan'[Len(chan) + 1] = n
           /\ \A k \in DOMAIN chan : chan'[k] = chan[k] /\ k < Len(chan) + 1
           /\ InChannel' = InChannel \cup {n}
<1>1. /\ chan' \in Seq(1..MaxEvents) /\ Len(chan') = Len(chan) + 1 /\ chan'[Len(chan) + 1] = n
      /\ \A k \in 1..Len(chan) : chan'[k] = chan[k]
  BY AppendProperties DEF ProcessTypeOK
<1>2. Len(chan) \in Nat /\ DOMAIN chan = 1..Len(chan)
  BY ChanDomain
<1>3. DOMAIN chan' = 1..(Len(chan) + 1)
  BY <1>1, LenProperties
<1>4. 1..(Len(chan) + 1) = 1..Len(chan) \cup {Len(chan) + 1}
  BY <1>2
<1>5. \A k \in 1..Len(chan) : k < Len(chan) + 1
  BY <1>2
<1>6. /\ DOMAIN chan' = DOMAIN chan \cup {Len(chan) + 1}
      /\ \A k \in DOMAIN chan : chan'[k] = chan[k] /\ k < Len(chan) + 1
  BY <1>1, <1>2, <1>3, <1>4, <1>5, Zenon
<1>7. PICK e : e = Len(chan) + 1
  OBVIOUS
<1>8. DOMAIN chan' = DOMAIN chan \cup {e} /\ chan'[e] = n /\ \A k \in DOMAIN chan : chan'[k] = chan[k]
  BY <1>1, <1>6, <1>7
<1>9. InChannel' = InChannel \cup {n}
  BY <1>8 DEF InChannel
<1> QED
  BY <1>1, <1>6, <1>9

LEMMA Receiving ==
    ASSUME ProcessTypeOK, chan # <<>>, chan' = Tail(chan)
    PROVE  /\ chan' \in Seq(1..MaxEvents) /\ Len(chan') = Len(chan) - 1
           /\ 1 \in DOMAIN chan /\ Head(chan) = chan[1] /\ Head(chan) \in 1..MaxEvents
           /\ \A k \in DOMAIN chan' : /\ k \in Nat /\ k > 0
                                      /\ k + 1 \in DOMAIN chan /\ chan'[k] = chan[k + 1]
           /\ InChannel = InChannel' \cup {Head(chan)}
<1>1. /\ Len(chan) \in Nat \ {0} /\ DOMAIN chan = 1..Len(chan)
  BY EmptySeq, LenProperties DEF ProcessTypeOK
<1>2. /\ chan' \in Seq(1..MaxEvents) /\ Len(chan') = Len(chan) - 1 /\ Head(chan) \in 1..MaxEvents
      /\ \A k \in 1..Len(chan') : chan'[k] = chan[k + 1]
  BY HeadTailProperties DEF ProcessTypeOK
<1>3. Head(chan) = chan[1]
  BY <1>1 DEF ProcessTypeOK
<1>4. DOMAIN chan' = 1..Len(chan')
  BY <1>2, LenProperties
<1>5. \A k \in 1..(Len(chan) - 1) : k \in Nat /\ k > 0 /\ k + 1 \in 1..Len(chan)
  BY <1>1
<1>6. \A k \in 1..Len(chan) : k = 1 \/ (k - 1 \in 1..(Len(chan) - 1) /\ (k - 1) + 1 = k)
  BY <1>1
<1>7. 1 \in DOMAIN chan
  BY <1>1
<1>8. \A k \in DOMAIN chan' : k \in Nat /\ k > 0 /\ k + 1 \in DOMAIN chan /\ chan'[k] = chan[k + 1]
  BY <1>1, <1>2, <1>4, <1>5
<1>9. \A k \in DOMAIN chan : k = 1 \/ (k - 1 \in DOMAIN chan' /\ (k - 1) + 1 = k)
  BY <1>1, <1>2, <1>4, <1>6
<1>10. InChannel = InChannel' \cup {chan[1]}
  <2>1. ASSUME NEW k \in DOMAIN chan PROVE chan[k] \in InChannel' \cup {chan[1]}
    BY <1>8, <1>9 DEF InChannel
  <2>2. ASSUME NEW k \in DOMAIN chan' PROVE chan'[k] \in InChannel
    BY <1>8 DEF InChannel
  <2>3. chan[1] \in InChannel
    BY <1>7 DEF InChannel
  <2> QED
    BY <2>1, <2>2, <2>3 DEF InChannel
<1> QED
  BY <1>2, <1>3, <1>7, <1>8, <1>10

\* The channel holds no more events than it has room for.
LEMMA ChannelSize ==
    ASSUME ProcessTypeOK
    PROVE  IsFiniteSet(InChannel) /\ Cardinality(InChannel) <= Capacity
<1>1. Len(chan) \in Nat /\ DOMAIN chan = 1..Len(chan) /\ Len(chan) <= Capacity
  BY ChanDomain DEF ProcessTypeOK
<1>2. IsFiniteSet(1..Len(chan)) /\ Cardinality(1..Len(chan)) = Len(chan)
  <2>1. 1 \in Int /\ Len(chan) \in Int
    BY <1>1
  <2>2. /\ IsFiniteSet(1..Len(chan))
        /\ Cardinality(1..Len(chan)) = IF 1 > Len(chan) THEN 0 ELSE Len(chan) - 1 + 1
    BY <2>1, FS_Interval
  <2>3. (IF 1 > Len(chan) THEN 0 ELSE Len(chan) - 1 + 1) = Len(chan)
    BY <1>1
  <2> QED
    BY <2>2, <2>3
<1>3. chan \in [1..Len(chan) -> InChannel]
  BY <1>1, LenProperties DEF InChannel, ProcessTypeOK
<1>4. chan \in Surjection(1..Len(chan), InChannel)
  BY <1>1, <1>3 DEF Surjection, InChannel
<1>5. IsFiniteSet(InChannel) /\ Cardinality(InChannel) <= Len(chan)
  BY <1>2, <1>4, FS_Surjection
<1>6. Cardinality(InChannel) \in Nat
  BY <1>5, FS_CardinalityType
<1> QED
  BY <1>1, <1>5, <1>6, ProcessAssumption

-----------------------------------------------------------------------------
LEMMA PInit == Init => PInv
<1> SUFFICES ASSUME Init PROVE PInv
  OBVIOUS
<1>1. out = <<>> /\ DOMAIN out = {} /\ chan = <<>> /\ DOMAIN chan = {} /\ Len(chan) = 0
  BY EmptySeq DEF Init
<1>2. Written = {} /\ InChannel = {} /\ Reports = {}
  BY <1>1 DEF Written, InChannel, Reports
<1>3. ProcessTypeOK
  <2>1. timed \in BOOLEAN /\ closed \in BOOLEAN /\ writing \in BOOLEAN /\ ~writing
    BY Zenon DEF Init
  <2>2. out \in Seq(Lines) /\ chan \in Seq(1..MaxEvents)
    BY <1>1, EmptySeq
  <2> QED
    BY <1>1, <2>1, <2>2, ProcessAssumption DEF Init, ProcessTypeOK, Clients, Running
<1>4. EventsAccountedFor
  <2>1. 1..emitted = {} /\ {pump} \ {0} = {} /\ dropped = {}
    BY DEF Init
  <2> QED
    BY <1>1, <1>2, <2>1 DEF EventsAccountedFor
<1>5. ReportOvertakesFew
  BY <1>1 DEF ReportOvertakesFew
<1>6. PhaseInv
  BY <1>2 DEF Init, PhaseInv, Running
<1>7. OrderInv
  BY <1>1, <1>2 DEF Init, OrderInv
<1> QED
  BY <1>3, <1>4, <1>5, <1>6, <1>7 DEF PInv

\* What is already written stays missed or not: later lines come after it.
LEMMA Overtaken ==
    ASSUME ProcessTypeOK, ReportOvertakesFew, NEW l \in Lines, Write(l),
           emitted' = emitted, dropped' = dropped, l.type # "report"
    PROVE  ReportOvertakesFew'
<1>1. /\ DOMAIN out' = DOMAIN out \cup {Len(out) + 1} /\ out'[Len(out) + 1] = l
      /\ \A k \in DOMAIN out : out'[k] = out[k]
  BY Writing
<1> SUFFICES ASSUME NEW k \in DOMAIN out', out'[k].type = "report"
             PROVE  Cardinality({n \in 1..emitted \ dropped :
                        \A j \in 1..k : out'[j] # Line("event", n)}) <= Capacity + 1
  BY DEF ReportOvertakesFew, Line
<1>2. k \in DOMAIN out /\ out[k].type = "report"
  BY <1>1
<1>3. \A j \in 1..k : out'[j] = out[j]
  BY <1>1, <1>2, OutDomain
<1>4. {n \in 1..emitted \ dropped : \A j \in 1..k : out'[j] # Line("event", n)} =
      {n \in 1..emitted \ dropped : \A j \in 1..k : out[j] # Line("event", n)}
  BY <1>3
<1> QED
  BY <1>2, <1>4 DEF ReportOvertakesFew

LEMMA PFatalAccept == ASSUME PInv, Fatal \/ Accept PROVE PInv'
<1>0. ProcessTypeOK /\ EventsAccountedFor /\ ReportOvertakesFew /\ PhaseInv /\ OrderInv
  BY DEF PInv
<1>1. PICK type \in {"accepted", "error"} :
        /\ code = Running /\ main = "read" /\ Write(Line(type, 0))
        /\ type = "accepted" => main' = "run" /\ code' = code
        /\ type = "error" => main' = "exited" /\ code' = 1
        /\ UNCHANGED <<emitted, chan, closed, dropped, timed, events, pump, writing, client>>
  BY DEF Fatal, Accept, Alive, MainUnchanged
<1>2. PICK l : l = Line(type, 0)
  OBVIOUS
<1>3. l \in Lines /\ ~IsEvent(l) /\ l.type # "report" /\ Write(l) /\ (IsReport(l) <=> type = "error")
  BY <1>1, <1>2, LineValues
<1>4. /\ out' \in Seq(Lines) /\ DOMAIN out' = DOMAIN out \cup {Len(out) + 1}
      /\ out'[Len(out) + 1] = l /\ Written' = Written
      /\ \A k \in DOMAIN out : out'[k] = out[k]
      /\ ~IsReport(l) => Reports' = Reports
  BY <1>0, <1>3, Writing
<1>5. ProcessTypeOK'
  BY <1>0, <1>1, <1>4 DEF ProcessTypeOK
<1>6. InChannel' = InChannel
  BY <1>1 DEF InChannel
<1>7. EventsAccountedFor'
  BY <1>0, <1>1, <1>3, <1>4, <1>6 DEF EventsAccountedFor, IsEvent
<1>8. ReportOvertakesFew'
  BY <1>0, <1>1, <1>3, Overtaken
<1>9. PhaseInv'
  <2>1. code # 0 /\ code' # 0
    BY <1>1 DEF Running
  <2>2. client \notin {"prepare", "returned", "key error", "no report"}
    BY <1>0, <1>1, <2>1 DEF PhaseInv
  <2>3. main' # "return" /\ (main' # "exited" => Reports' = {})
    BY <1>0, <1>1, <1>3, <1>4 DEF PhaseInv
  <2>4. client' = client /\ main' \in {"run", "exited"}
    BY <1>1
  <2> QED
    BY <2>1, <2>2, <2>3, <2>4 DEF PhaseInv
<1>10. OrderInv'
  BY <1>0, <1>1, <1>4, <1>6 DEF OrderInv
<1> QED
  BY <1>5, <1>7, <1>8, <1>9, <1>10 DEF PInv

\* The scheduler emits: the event is the latest, and in the channel or dropped.
LEMMA PEmit == ASSUME PInv, Emit PROVE PInv'
<1>0. ProcessTypeOK /\ EventsAccountedFor /\ ReportOvertakesFew /\ PhaseInv /\ OrderInv
  BY DEF PInv
<1>1. PICK n : n = emitted + 1
  OBVIOUS
<1>2. /\ main = "run" /\ emitted < events /\ emitted' = n /\ Offer(n)
      /\ UNCHANGED <<main, closed, out, code, timed, events, pump, writing, client>>
  BY <1>1 DEF Emit, MainUnchanged
<1>3. /\ emitted \in Nat /\ n \in 1..MaxEvents /\ n <= events /\ 1..n = 1..emitted \cup {n}
      /\ \A k \in 1..emitted : k < n
  BY <1>0, <1>1, <1>2, ProcessAssumption DEF ProcessTypeOK
<1>4. Written' = Written /\ Reports' = Reports
  BY <1>2 DEF Written, Reports
<1>5. Reports = {}
  BY <1>0, <1>2 DEF PhaseInv
<1>6. ReportOvertakesFew'
  BY <1>2, <1>5 DEF ReportOvertakesFew, Reports, IsReport
<1>7. PhaseInv'
  BY <1>0, <1>2, <1>4 DEF PhaseInv, OneReport
<1>8. CASE Len(chan) < Capacity
  <2>1. chan' = Append(chan, n) /\ dropped' = dropped
    BY <1>2, <1>8 DEF Offer
  <2>2. /\ chan' \in Seq(1..MaxEvents) /\ Len(chan') = Len(chan) + 1
        /\ DOMAIN chan' = DOMAIN chan \cup {Len(chan) + 1} /\ chan'[Len(chan) + 1] = n
        /\ \A k \in DOMAIN chan : chan'[k] = chan[k] /\ k < Len(chan) + 1
        /\ InChannel' = InChannel \cup {n}
    BY <1>0, <1>3, <2>1, Sending
  <2>3. ProcessTypeOK'
    <3>1. Len(chan') <= Capacity
      BY <1>0, <1>8, <2>2, ChanDomain, ProcessAssumption
    <3>2. emitted' \in 0..MaxEvents
      BY <1>2, <1>3
    <3> QED
      BY <1>0, <1>2, <2>1, <2>2, <3>1, <3>2 DEF ProcessTypeOK
  <2>4. EventsAccountedFor'
    BY <1>0, <1>2, <1>3, <1>4, <2>1, <2>2 DEF EventsAccountedFor
  <2>5. \A k \in DOMAIN chan : chan[k] < n
    BY <1>0, <1>3 DEF EventsAccountedFor, InChannel
  <2>6. OrderInv'
    <3>1. \A w \in Written' : (pump' # 0 => w < pump') /\ \A k \in InChannel' : w < k
      BY <1>0, <1>2, <1>3, <1>4, <2>2 DEF OrderInv, EventsAccountedFor
    <3>2. pump' # 0 => \A k \in InChannel' : pump' < k
      BY <1>0, <1>2, <1>3, <2>2 DEF OrderInv, EventsAccountedFor
    <3>3. ASSUME NEW j \in DOMAIN chan', NEW k \in DOMAIN chan', j < k PROVE chan'[j] < chan'[k]
      <4>1. Len(chan) + 1 \in Nat /\ \A x \in DOMAIN chan : x \in Nat
        BY <1>0, ChanDomain
      <4>2. j \in DOMAIN chan
        BY <2>2, <3>3, <4>1
      <4>3. CASE k \in DOMAIN chan
        BY <1>0, <2>2, <3>3, <4>2, <4>3 DEF OrderInv
      <4>4. CASE k = Len(chan) + 1
        BY <2>2, <2>5, <4>2, <4>4
      <4> QED
        BY <2>2, <4>3, <4>4
    <3> QED
      BY <1>2, <1>3, <3>1, <3>2, <3>3 DEF OrderInv
  <2> QED
    BY <1>6, <1>7, <2>3, <2>4, <2>6 DEF PInv
<1>9. CASE ~(Len(chan) < Capacity)
  <2>1. chan' = chan /\ dropped' = dropped \cup {n} /\ InChannel' = InChannel
    BY <1>2, <1>9 DEF Offer, InChannel
  <2>2. ProcessTypeOK'
    <3>1. emitted' \in 0..MaxEvents
      BY <1>2, <1>3
    <3> QED
      BY <1>0, <1>2, <1>3, <2>1, <3>1 DEF ProcessTypeOK
  <2>3. EventsAccountedFor'
    BY <1>0, <1>2, <1>3, <1>4, <2>1 DEF EventsAccountedFor
  <2>4. OrderInv'
    BY <1>0, <1>2, <1>3, <1>4, <2>1 DEF OrderInv
  <2> QED
    BY <1>6, <1>7, <2>2, <2>3, <2>4 DEF PInv
<1> QED
  BY <1>8, <1>9

LEMMA PEndRunExit == ASSUME PInv, EndRun \/ Exit PROVE PInv'
<1>0. ProcessTypeOK /\ EventsAccountedFor /\ ReportOvertakesFew /\ PhaseInv /\ OrderInv
  BY DEF PInv
<1>1. /\ UNCHANGED <<emitted, chan, dropped, out, timed, events, pump, writing, client>> /\ closed' \in BOOLEAN
      /\ code = Running /\ main \in {"run", "return"}
      /\ main = "run" => main' = "report" /\ code' = code
      /\ main = "return" => main' = "exited" /\ code' = 0
  BY <1>0, Zenon DEF EndRun, Exit, Alive, MainUnchanged, ProcessTypeOK
<1>2. Written' = Written /\ InChannel' = InChannel /\ Reports' = Reports /\ OneReport' = OneReport
  BY <1>1 DEF Written, InChannel, Reports, OneReport
<1>3. ProcessTypeOK'
  BY <1>0, <1>1 DEF ProcessTypeOK
<1>4. PhaseInv'
  <2>0. code # 0
    BY <1>1 DEF Running
  <2>1. client \notin {"prepare", "returned", "key error", "no report"}
    BY <1>0, <1>1, <2>0 DEF PhaseInv
  <2> QED
    BY <1>0, <1>1, <1>2, <2>0, <2>1 DEF PhaseInv
<1> QED
  BY <1>0, <1>1, <1>2, <1>3, <1>4 DEF PInv, EventsAccountedFor, ReportOvertakesFew, OrderInv

LEMMA PSendFails == ASSUME PInv, SendFails PROVE PInv'
<1>0. ProcessTypeOK /\ EventsAccountedFor /\ ReportOvertakesFew /\ PhaseInv /\ OrderInv
  BY DEF PInv
<1>1. /\ UNCHANGED <<emitted, chan, closed, dropped, out, timed, events, pump, writing, client>>
      /\ code = Running /\ code' = 1 /\ main' = "exited" /\ main \in {"read", "report"}
  BY DEF SendFails, Alive, MainUnchanged
<1>2. Written' = Written /\ InChannel' = InChannel /\ Reports' = Reports
  BY <1>1 DEF Written, InChannel, Reports
<1>3. ProcessTypeOK'
  BY <1>0, <1>1 DEF ProcessTypeOK
<1>4. PhaseInv'
  <2>0. code # 0 /\ code' # 0
    BY <1>1 DEF Running
  <2>1. client' \notin {"prepare", "returned", "key error", "no report"}
    BY <1>0, <1>1, <2>0 DEF PhaseInv
  <2> QED
    BY <1>1, <2>0, <2>1 DEF PhaseInv
<1> QED
  BY <1>0, <1>1, <1>2, <1>3, <1>4 DEF PInv, EventsAccountedFor, ReportOvertakesFew, OrderInv

\* The report may overtake what is in the channel and with the writer, no more.
LEMMA PSendReport == ASSUME PInv, SendReport PROVE PInv'
<1>0. ProcessTypeOK /\ EventsAccountedFor /\ ReportOvertakesFew /\ PhaseInv /\ OrderInv
  BY DEF PInv
<1>1. PICK l : l = Line("report", 0)
  OBVIOUS
<1>2. /\ code = Running /\ main = "report" /\ main' = "return" /\ Write(l)
      /\ UNCHANGED <<emitted, chan, closed, dropped, code, timed, events, pump, writing, client>>
  BY <1>1 DEF SendReport, Alive, MainUnchanged
<1>3. l \in Lines /\ ~IsEvent(l) /\ IsReport(l) /\ l.type = "report"
  BY <1>1, LineValues
<1>4. PICK e : e = Len(out) + 1
  OBVIOUS
<1>5. /\ out' \in Seq(Lines) /\ DOMAIN out' = DOMAIN out \cup {e} /\ out'[e] = l
      /\ Written' = Written /\ \A k \in DOMAIN out : out'[k] = out[k]
      /\ Reports' = Reports \cup {e}
  BY <1>0, <1>2, <1>3, <1>4, Writing
<1>6. Reports = {}
  BY <1>0, <1>2 DEF PhaseInv
<1>7. ProcessTypeOK'
  BY <1>0, <1>2, <1>5 DEF ProcessTypeOK
<1>8. InChannel' = InChannel
  BY <1>2 DEF InChannel
<1>9. EventsAccountedFor'
  BY <1>0, <1>2, <1>3, <1>5, <1>8 DEF EventsAccountedFor, IsEvent
<1>10. ReportOvertakesFew'
  <2> SUFFICES ASSUME NEW k \in DOMAIN out', out'[k].type = "report"
               PROVE  Cardinality({n \in 1..emitted \ dropped :
                          \A j \in 1..k : out'[j] # Line("event", n)}) <= Capacity + 1
    BY <1>2 DEF ReportOvertakesFew, Line
  <2> DEFINE M == {n \in 1..emitted \ dropped : \A j \in 1..k : out'[j] # Line("event", n)}
  <2>1. k = e
    BY <1>5, <1>6 DEF Reports, IsReport
  <2>2. DOMAIN out \subseteq 1..k
    <3>1. Len(out) \in Nat /\ DOMAIN out = 1..Len(out)
      BY <1>0, OutDomain
    <3> QED
      BY <1>4, <2>1, <3>1
  <2>3. M \subseteq InChannel \cup {pump}
    <3> SUFFICES ASSUME NEW n \in M PROVE n \in InChannel \cup {pump}
      OBVIOUS
    <3>1. n \notin Written
      <4> SUFFICES ASSUME NEW j \in DOMAIN out, IsEvent(out[j]), out[j].event = n PROVE FALSE
        BY DEF Written
      <4>1. out[j] = Line("event", n)
        BY <1>0, OutDomain, LineValues
      <4> QED
        BY <1>5, <2>2, <4>1
    <3>2. n \in 1..emitted /\ n \notin dropped
      OBVIOUS
    <3> QED
      BY <1>0, <3>1, <3>2 DEF EventsAccountedFor
  <2> HIDE DEF M
  <2>4. IsFiniteSet(InChannel) /\ Cardinality(InChannel) <= Capacity
    BY <1>0, ChannelSize
  <2>5. Cardinality(InChannel) \in Nat
    BY <2>4, FS_CardinalityType
  <2>6. /\ IsFiniteSet(InChannel \cup {pump})
        /\ Cardinality(InChannel \cup {pump}) \in Nat
        /\ Cardinality(InChannel \cup {pump}) <= Capacity + 1
    <3>1. /\ IsFiniteSet(InChannel \cup {pump})
          /\ Cardinality(InChannel \cup {pump}) =
               IF pump \in InChannel THEN Cardinality(InChannel) ELSE Cardinality(InChannel) + 1
      BY <2>4, FS_AddElement
    <3> QED
      BY <2>4, <2>5, <3>1, ProcessAssumption
  <2>7. IsFiniteSet(M) /\ Cardinality(M) <= Cardinality(InChannel \cup {pump})
    BY <2>3, <2>6, FS_Subset
  <2>8. Cardinality(M) \in Nat
    BY <2>7, FS_CardinalityType
  <2>9. Cardinality(M) <= Capacity + 1
    BY <2>6, <2>7, <2>8, ProcessAssumption
  <2> QED
    BY <2>9 DEF M
<1>11. PhaseInv'
  <2>0. code # 0
    BY <1>2 DEF Running
  <2>1. client \notin {"prepare", "returned", "key error", "no report"}
    BY <1>0, <1>2, <2>0 DEF PhaseInv
  <2>2. OneReport'
    <3>1. Reports' = {e} /\ e \in DOMAIN out' /\ out'[e].type = "report"
      BY <1>3, <1>5, <1>6
    <3> QED
      BY <3>1 DEF OneReport
  <2> QED
    BY <1>2, <2>0, <2>1, <2>2 DEF PhaseInv
<1>12. OrderInv'
  BY <1>0, <1>2, <1>5, <1>8 DEF OrderInv
<1> QED
  BY <1>7, <1>9, <1>10, <1>11, <1>12 DEF PInv

\* The writer takes the oldest event there is.
LEMMA PTakeEvent == ASSUME PInv, TakeEvent PROVE PInv'
<1>0. ProcessTypeOK /\ EventsAccountedFor /\ ReportOvertakesFew /\ PhaseInv /\ OrderInv
  BY DEF PInv
<1>1. PICK h : h = Head(chan)
  OBVIOUS
<1>2. /\ pump = 0 /\ chan # <<>> /\ pump' = h /\ chan' = Tail(chan) /\ out' = out
      /\ UNCHANGED <<writing, timed, events, main, emitted, closed, dropped, code, client>>
  BY <1>1 DEF TakeEvent, PumpUnchanged
<1>3. /\ chan' \in Seq(1..MaxEvents) /\ Len(chan') = Len(chan) - 1
      /\ 1 \in DOMAIN chan /\ h = chan[1] /\ h \in 1..MaxEvents
      /\ \A k \in DOMAIN chan' : /\ k \in Nat /\ k > 0
                                 /\ k + 1 \in DOMAIN chan /\ chan'[k] = chan[k + 1]
      /\ InChannel = InChannel' \cup {h}
  BY <1>0, <1>1, <1>2, Receiving
<1>4. Written' = Written /\ Reports' = Reports /\ OneReport' = OneReport
  BY <1>2 DEF Written, Reports, OneReport
<1>5. ProcessTypeOK'
  <2>1. Len(chan') <= Capacity
    BY <1>0, <1>3, ChanDomain, ProcessAssumption DEF ProcessTypeOK
  <2>2. pump' \in 0..MaxEvents
    BY <1>2, <1>3, ProcessAssumption
  <2> QED
    BY <1>0, <1>2, <1>3, <2>1, <2>2 DEF ProcessTypeOK
<1>6. h # 0
  BY <1>3, ProcessAssumption
<1>7. EventsAccountedFor'
  <2>1. {pump} \ {0} = {} /\ {pump'} \ {0} = {h}
    BY <1>2, <1>6
  <2> QED
    BY <1>0, <1>2, <1>3, <1>4, <2>1 DEF EventsAccountedFor
<1>8. OrderInv'
  <2>1. \A w \in Written' : (pump' # 0 => w < pump') /\ \A n \in InChannel' : w < n
    BY <1>0, <1>2, <1>3, <1>4 DEF OrderInv
  <2>2. ASSUME NEW n \in InChannel' PROVE h < n
    <3>1. PICK k \in DOMAIN chan' : n = chan'[k]
      BY <2>2 DEF InChannel
    <3>2. 1 < k + 1 /\ k + 1 \in DOMAIN chan /\ n = chan[k + 1]
      BY <1>3, <3>1
    <3> QED
      BY <1>0, <1>3, <3>2 DEF OrderInv
  <2>3. ASSUME NEW j \in DOMAIN chan', NEW k \in DOMAIN chan', j < k PROVE chan'[j] < chan'[k]
    <3>1. j + 1 < k + 1
      BY <1>3, <2>3
    <3> QED
      BY <1>0, <1>3, <2>3, <3>1 DEF OrderInv
  <2> QED
    BY <1>0, <1>2, <2>1, <2>2, <2>3 DEF OrderInv
<1>9. ReportOvertakesFew' /\ PhaseInv'
  BY <1>0, <1>2, <1>4 DEF ReportOvertakesFew, PhaseInv
<1> QED
  BY <1>5, <1>7, <1>8, <1>9 DEF PInv

LEMMA PBeginWrite == ASSUME PInv, BeginWrite PROVE PInv'
<1>0. ProcessTypeOK /\ EventsAccountedFor /\ ReportOvertakesFew /\ PhaseInv /\ OrderInv
  BY DEF PInv
<1>1. /\ UNCHANGED <<timed, events, main, emitted, chan, closed, dropped, pump, out, code, client>>
      /\ pump # 0 /\ writing' = TRUE
  BY DEF BeginWrite, PumpUnchanged
<1>2. Written' = Written /\ InChannel' = InChannel /\ Reports' = Reports /\ OneReport' = OneReport
  BY <1>1 DEF Written, InChannel, Reports, OneReport
<1>3. ProcessTypeOK'
  <2>1. writing' \in BOOLEAN /\ pump' # 0
    BY <1>1, Zenon
  <2> QED
    BY <1>0, <1>1, <2>1 DEF ProcessTypeOK
<1>4. EventsAccountedFor' /\ ReportOvertakesFew'
  BY <1>0, <1>1, <1>2 DEF EventsAccountedFor, ReportOvertakesFew
<1>5. OrderInv' /\ PhaseInv'
  BY <1>0, <1>1, <1>2 DEF OrderInv, PhaseInv
<1> QED
  BY <1>3, <1>4, <1>5 DEF PInv

\* The event written comes after all that are written, and before those queued.
LEMMA PEndWrite == ASSUME PInv, EndWrite PROVE PInv'
<1>0. ProcessTypeOK /\ EventsAccountedFor /\ ReportOvertakesFew /\ PhaseInv /\ OrderInv
  BY DEF PInv
<1>1. PICK l : l = Line("event", pump)
  OBVIOUS
<1>2. /\ code = Running /\ pump # 0 /\ Write(l) /\ pump' = 0 /\ chan' = chan /\ writing' = FALSE
      /\ UNCHANGED <<timed, events, main, emitted, closed, dropped, code, client>>
  BY <1>0, <1>1 DEF EndWrite, Alive, PumpUnchanged, ProcessTypeOK
<1>3. pump \in 1..MaxEvents
  BY <1>0, <1>2, ProcessAssumption DEF ProcessTypeOK
<1>4. l \in Lines /\ IsEvent(l) /\ ~IsReport(l) /\ l.event = pump /\ l.type # "report"
  BY <1>1, <1>3, LineValues DEF IsReport
<1>5. PICK e : e = Len(out) + 1
  OBVIOUS
<1>6. /\ out' \in Seq(Lines) /\ DOMAIN out' = DOMAIN out \cup {e} /\ out'[e] = l
      /\ e \in Nat /\ \A k \in DOMAIN out : out'[k] = out[k] /\ k < e
      /\ Written' = Written \cup {pump} /\ Reports' = Reports
  BY <1>0, <1>2, <1>4, <1>5, Writing
<1>7. InChannel' = InChannel
  BY <1>2 DEF InChannel
<1>8. ProcessTypeOK'
  <2>1. writing' \in BOOLEAN /\ ~writing'
    BY <1>2, Zenon
  <2> QED
    BY <1>0, <1>2, <1>6, <2>1, ProcessAssumption DEF ProcessTypeOK
<1>9. EventsAccountedFor'
  <2>1. {pump} \ {0} = {pump} /\ {pump'} \ {0} = {}
    BY <1>2
  <2>2. ASSUME NEW j \in DOMAIN out', NEW k \in DOMAIN out', j < k, IsEvent(out'[j]), IsEvent(out'[k])
        PROVE  out'[j].event < out'[k].event
    <3>1. j \in DOMAIN out
      BY <1>0, <1>6, <2>2, OutDomain
    <3>2. CASE k \in DOMAIN out
      BY <1>0, <1>6, <2>2, <3>1, <3>2 DEF EventsAccountedFor
    <3>3. CASE k = e
      <4>1. out[j].event \in Written
        BY <1>6, <2>2, <3>1 DEF Written
      <4> QED
        BY <1>0, <1>2, <1>4, <1>6, <3>1, <3>3, <4>1 DEF OrderInv
    <3> QED
      BY <1>6, <3>2, <3>3
  <2>3. Written' \cup InChannel' \cup dropped' \cup ({pump'} \ {0}) = 1..emitted'
    BY <1>0, <1>2, <1>6, <1>7, <2>1 DEF EventsAccountedFor
  <2> QED
    BY <2>2, <2>3 DEF EventsAccountedFor, IsEvent
<1>10. ReportOvertakesFew'
  BY <1>0, <1>2, <1>4, Overtaken
<1>11. PhaseInv'
  <2>1. code # 0
    BY <1>2 DEF Running
  <2>2. OneReport => OneReport'
    BY <1>6 DEF OneReport
  <2> QED
    BY <1>0, <1>2, <1>6, <2>1, <2>2 DEF PhaseInv
<1>12. OrderInv'
  BY <1>0, <1>2, <1>6, <1>7 DEF OrderInv
<1> QED
  BY <1>8, <1>9, <1>10, <1>11, <1>12 DEF PInv

-----------------------------------------------------------------------------
(* The SDK *)

LEMMA PClient == ASSUME PInv, ClientStep \/ Expire PROVE PInv'
<1>0. ProcessTypeOK /\ EventsAccountedFor /\ ReportOvertakesFew /\ PhaseInv /\ OrderInv
  BY DEF PInv
<1>1. EngineUnchanged
  BY DEF ClientStep, PrepareFails, Spawn, Collect, Expire
<1>2. Written' = Written /\ InChannel' = InChannel /\ Reports' = Reports /\ OneReport' = OneReport
  BY <1>1 DEF EngineUnchanged, Written, InChannel, Reports, OneReport
<1>3. EventsAccountedFor' /\ ReportOvertakesFew' /\ OrderInv'
  BY <1>0, <1>1, <1>2 DEF EngineUnchanged, EventsAccountedFor, ReportOvertakesFew, OrderInv
<1>4. OneReport => Reports # {}
  BY DEF OneReport
<1>5. CASE PrepareFails
  <2>1. client' = "unprepared" /\ main' = main /\ code' = code
    BY <1>5 DEF PrepareFails
  <2> QED
    BY <1>0, <1>1, <1>2, <1>3, <2>1 DEF PInv, ProcessTypeOK, EngineUnchanged, Clients, PhaseInv
<1>6. CASE Spawn
  <2>1. client = "prepare" /\ client' = "wait" /\ main' = "read" /\ code' = code
    BY <1>6 DEF Spawn
  <2> QED
    BY <1>0, <1>1, <1>2, <1>3, <2>1 DEF PInv, ProcessTypeOK, EngineUnchanged, Clients, PhaseInv
<1>7. CASE Expire
  <2>1. client' = "timeout" /\ code' = Killed /\ main' = main
    BY <1>7 DEF Expire
  <2> QED
    <3>1. code' # 0
      BY <2>1 DEF Killed
    <3>2. ProcessTypeOK'
      BY <1>0, <1>1, <2>1 DEF ProcessTypeOK, EngineUnchanged, Clients
    <3>3. PhaseInv'
      BY <1>0, <1>2, <2>1, <3>1 DEF PhaseInv
    <3> QED
      BY <1>3, <3>2, <3>3 DEF PInv
<1>8. CASE Collect
  <2>1. client' = Outcome /\ main' = main /\ code' = code /\ main = "exited"
    BY <1>8 DEF Collect
  <2>2. /\ Outcome \in {"exit status", "returned", "key error"}
        /\ Outcome # "exit status" => code = 0
    BY <1>0, <1>4, <2>1 DEF Outcome, PhaseInv
  <2> QED
    BY <1>0, <1>1, <1>2, <1>3, <2>1, <2>2
       DEF PInv, ProcessTypeOK, EngineUnchanged, Clients, PhaseInv
<1> QED
  BY <1>5, <1>6, <1>7, <1>8 DEF ClientStep

LEMMA PStep == ASSUME PInv, [Next]_vars PROVE PInv'
<1>1. CASE UNCHANGED vars
  <2>1. UNCHANGED <<Written, InChannel, Reports, OneReport>>
    BY <1>1 DEF vars, Written, InChannel, Reports, OneReport, IsEvent, IsReport
  <2>2. ProcessTypeOK' /\ EventsAccountedFor' /\ ReportOvertakesFew'
    BY <1>1, <2>1 DEF vars, PInv, ProcessTypeOK, EventsAccountedFor, ReportOvertakesFew
  <2>3. PhaseInv' /\ OrderInv'
    BY <1>1, <2>1 DEF vars, PInv, PhaseInv, OrderInv
  <2> QED
    BY <2>2, <2>3 DEF PInv
<1>2. CASE MainStep
  BY <1>2, PFatalAccept, PEmit, PEndRunExit, PSendReport, PSendFails DEF MainStep
<1>3. CASE PumpStep
  BY <1>3, PTakeEvent, PBeginWrite, PEndWrite DEF PumpStep
<1>4. CASE ClientStep \/ Expire
  BY <1>4, PClient
<1> QED
  BY <1>1, <1>2, <1>3, <1>4 DEF Next

LEMMA PInvHolds == Spec => []PInv
<1>1. PInv /\ [Next]_vars => PInv'
  BY PStep
<1> QED
  BY <1>1, PInit, PTL DEF Spec

\* The events the engine has emitted are written in order, dropped or on their
\* way, and its report overtakes at most one channel full and one event, whatever
\* the capacity and however main, the writer and the SDK interleave.
THEOREM OutputAccountedForCorrect == Spec => []OutputAccountedFor
<1>1. PInv => OutputAccountedFor
  BY DEF PInv, OutputAccountedFor
<1> QED
  BY <1>1, PInvHolds, PTL

\* Exit status 0 means exactly one report line, of the run; the SDK therefore never
\* finds a finished run without a report.
THEOREM StatusTellsReportCorrect == Spec => []StatusTellsReport
<1>1. PInv => StatusTellsReport
  BY DEF PInv, PhaseInv, OneReport, StatusTellsReport
<1> QED
  BY <1>1, PInvHolds, PTL
=============================================================================

--------------------------- MODULE TransportProofs ---------------------------
(***************************************************************************)
(* Proofs about the transport, for every set of invocations, every number  *)
(* of answers a client may give to one, and both kinds of transport.       *)
(***************************************************************************)
EXTENDS TransportProps, TLAPS, SequenceTheorems

\* Where an answer of the client to i can be: unread, with the pump, or in the
\* channel made for i.
Unread(i) == \E k \in DOMAIN input : input[k] = Answer(i)

\* Answers are neither made up nor multiplied on their way.
AnswerInv == \A i \in Invocations :
    /\ answers[i] = 0 =>
         ~Unread(i) /\ pump # Deliver(i) /\ chan[i] = 0 /\ outcome[i] # "answer"
    /\ answers[i] = 1 =>
         /\ \A j, k \in DOMAIN input : input[j] = Answer(i) /\ input[k] = Answer(i) => j = k
         /\ Unread(i) => pump # Deliver(i) /\ chan[i] = 0
         /\ pump = Deliver(i) => chan[i] = 0

\* A call has an outcome once it leaves its wait, and a reason for it.
OutcomeInv == \A i \in Invocations :
    /\ exec[i] \in {"none", "locking", "writing", "waiting"} => outcome[i] = "none"
    /\ exec[i] \in {"leaving", "returned"} => outcome[i] \in {"answer", "error", "context"}
    /\ outcome[i] = "context" => CtxDone(i)
    /\ exec[i] = "none" => answers[i] = 0

TInv == TransportTypeOK /\ PendingIsOpen /\ OneWriter /\ AnswerInv /\ OutcomeInv

-----------------------------------------------------------------------------
(* Values *)

LEMMA MessageValues ==
    /\ Cancel \in Messages
    /\ \A i \in Invocations : Answer(i) \in Messages /\ Answer(i) # Cancel
    /\ \A i \in Invocations : LongAnswer(i) \in Messages
    /\ \A i, j \in Invocations : LongAnswer(i) # Answer(j)
    /\ \A i, j \in Invocations : Answer(i) = Answer(j) => i = j
    /\ \A m \in Messages : m.kind = "answer" => m.to \in Invocations /\ m = Answer(m.to)
    /\ \A m \in Messages : m.kind = "cancel" => m = Cancel
<1>1. /\ Cancel \in Messages
      /\ \A i \in Invocations : Answer(i) \in Messages /\ LongAnswer(i) \in Messages
  BY DEF Messages
<1>2. /\ \A i \in Invocations : Answer(i) # Cancel
      /\ \A i, j \in Invocations : Answer(i) = Answer(j) => i = j
      /\ \A i, j \in Invocations : LongAnswer(i) # Answer(j)
  BY DEF Answer, LongAnswer, Cancel
<1>3. ASSUME NEW m \in Messages
      PROVE  /\ m.kind = "answer" => m.to \in Invocations /\ m = Answer(m.to)
             /\ m.kind = "cancel" => m = Cancel
  <2>1. CASE m = Cancel
    BY <2>1 DEF Cancel
  <2>2. ASSUME NEW i \in Invocations, m = Answer(i)
        PROVE  m.kind = "answer" /\ m.to = i
    BY <2>2 DEF Answer
  <2>3. ASSUME NEW i \in Invocations, m = LongAnswer(i)
        PROVE  m.kind # "answer" /\ m.kind # "cancel"
    BY <2>3 DEF LongAnswer
  <2> QED
    BY <2>1, <2>2, <2>3 DEF Messages, Cancel
<1> QED
  BY <1>1, <1>2, <1>3

LEMMA PumpValues ==
    /\ \A l \in {"unstarted", "scan", "check", "stopped", "failed"} : At(l) \in Pumps
    /\ \A i \in Invocations : Deliver(i) \in Pumps
    /\ \A i, j \in Invocations : Deliver(i) = Deliver(j) => i = j
    /\ \A l \in {"unstarted", "scan", "check", "stopped", "failed"}, i \in Invocations : At(l) # Deliver(i)
    /\ \A p \in Pumps : p.at = "deliver" => p.to \in Invocations /\ p = Deliver(p.to)
    /\ Checked \in Pumps /\ \A i \in Invocations : Checked # Deliver(i)
<1>1. /\ \A l \in {"unstarted", "scan", "check", "stopped", "failed"} : At(l) \in Pumps
      /\ \A i \in Invocations : Deliver(i) \in Pumps
  BY DEF Pumps
<1>2. /\ \A i, j \in Invocations : Deliver(i) = Deliver(j) => i = j
      /\ \A l \in {"unstarted", "scan", "check", "stopped", "failed"}, i \in Invocations :
           At(l) # Deliver(i)
  BY DEF At, Deliver
<1>3. ASSUME NEW p \in Pumps, p.at = "deliver" PROVE p.to \in Invocations /\ p = Deliver(p.to)
  <2>1. ASSUME NEW l \in {"unstarted", "scan", "check", "stopped", "failed"}, p = At(l) PROVE FALSE
    BY <1>3, <2>1 DEF At
  <2>2. PICK i \in Invocations : p = Deliver(i)
    BY <2>1 DEF Pumps
  <2> QED
    BY <2>2 DEF Deliver
<1>4. Checked \in {At("scan"), At("check")}
  BY DEF Checked
<1> QED
  BY <1>1, <1>2, <1>3, <1>4

-----------------------------------------------------------------------------
LEMMA SameLength ==
    ASSUME NEW m \in Nat, NEW n \in Nat, 1..m = 1..n
    PROVE  m = n
<1>1. CASE m < n
  <2>1. n \in 1..n /\ n \notin 1..m
    BY <1>1
  <2> QED
    BY <2>1
<1>2. CASE n < m
  <2>1. m \in 1..m /\ m \notin 1..n
    BY <1>2
  <2> QED
    BY <2>1
<1> QED
  BY <1>1, <1>2

LEMMA TInit == Init => TInv
<1> SUFFICES ASSUME Init PROVE TInv
  OBVIOUS
<1>1. TransportTypeOK
  <2>1. asked \in BOOLEAN /\ runDone \in BOOLEAN /\ client \in {"open", "closed", "gone"}
    BY Zenon DEF Init
  <2>3. output \in Seq(Lines) /\ Len(output) <= PipeRoom
    <3>1. PICK n \in 0..PipeRoom : output = [k \in 1..n |-> NoOne]
      BY DEF Init
    <3>2. n \in Nat /\ n <= PipeRoom
      BY TransportAssumption
    <3>3. output \in [1..n -> Lines]
      BY <3>1 DEF Lines
    <3>4. output \in Seq(Lines)
      BY <3>2, <3>3, SeqDef
    <3>5. Len(output) = n
      <4>1. Len(output) \in Nat /\ 1..Len(output) = 1..n
        BY <3>1, <3>4, LenProperties
      <4> QED
        BY <3>2, <4>1, SameLength
    <3> QED
      BY <3>2, <3>4, <3>5
  <2>2. input \in Seq(Messages)
    BY EmptySeq DEF Init
  <2> QED
    BY <2>1, <2>2, <2>3, PumpValues DEF Init, TransportTypeOK, ExecPCs, Outcomes
<1>2. PendingIsOpen /\ OneWriter
  BY DEF Init, PendingIsOpen, OneWriter, Open
<1>3. AnswerInv
  BY PumpValues DEF Init, AnswerInv, Unread
<1>4. OutcomeInv
  BY DEF Init, OutcomeInv
<1> QED
  BY <1>1, <1>2, <1>3, <1>4 DEF TInv

\* Execute: the map and the lock follow the calls, whichever way they leave.
LEMMA TExec ==
    ASSUME TInv, NEW i \in Invocations, Begin(i) \/ ExecStep(i)
    PROVE  TInv'
<1> USE DEF TInv, ExecGoto, Leave, clientVars
<1>1. TransportTypeOK'
  <2>1. /\ exec' \in [Invocations -> ExecPCs] /\ outcome' \in [Invocations -> Outcomes]
        /\ pending' \subseteq Invocations
    BY DEF TransportTypeOK, Begin, ExecStep, LockOut, Written, WriteFails, TakeResult, SeeDone,
           Return, ExecPCs, Outcomes
  <2>2. chan' \in [Invocations -> 0..1]
    <3>1. CASE TakeResult(i)
      <4>1. chan[i] - 1 \in 0..1
        BY <3>1 DEF TakeResult, TransportTypeOK
      <4> QED
        BY <3>1, <4>1 DEF TakeResult, TransportTypeOK
    <3>2. CASE ~TakeResult(i)
      BY <3>2 DEF TransportTypeOK, Begin, ExecStep, LockOut, Written, WriteFails, SeeDone, Return
    <3> QED
      BY <3>1, <3>2
  <2>3. output' \in Seq(Lines) /\ Len(output') <= PipeRoom
    <3>1. CASE Written(i)
      <4>1. /\ output \in Seq(Lines) /\ i \in Lines /\ Len(output) < PipeRoom
            /\ output' = Append(output, i)
        BY <3>1 DEF Written, TransportTypeOK, Lines
      <4>2. output' \in Seq(Lines) /\ Len(output') = Len(output) + 1 /\ Len(output) \in Nat
        BY <4>1, AppendProperties, LenProperties
      <4> QED
        BY <4>1, <4>2, TransportAssumption
    <3>2. CASE ~Written(i)
      <4>1. output' = output
        BY <3>2 DEF Begin, ExecStep, LockOut, WriteFails, TakeResult, SeeDone, Return
      <4> QED
        BY <4>1 DEF TransportTypeOK
    <3> QED
      BY <3>1, <3>2
  <2>4. UNCHANGED <<pump, input, client, asked, runDone, answers, timedOut, kind>>
    BY DEF Begin, ExecStep, LockOut, Written, WriteFails, TakeResult, SeeDone, Return
  <2> QED
    BY <2>1, <2>2, <2>3, <2>4 DEF TransportTypeOK
<1>2. PendingIsOpen'
  BY DEF TransportTypeOK, PendingIsOpen, Open, Begin, ExecStep, LockOut, Written, WriteFails,
         TakeResult, SeeDone, Return
<1>5. OneWriter'
  <2>0. exec \in [Invocations -> ExecPCs] /\ kind' = kind
    BY DEF TransportTypeOK, Begin, ExecStep, LockOut, Written, WriteFails, TakeResult, SeeDone,
           Return
  <2>1. CASE LockOut(i)
    BY <2>0, <2>1 DEF OneWriter, LockOut, OutFree, Grpc
  <2>2. CASE ~LockOut(i)
    <3>1. \A j \in Invocations : exec'[j] = "writing" => exec[j] = "writing"
      BY <2>0, <2>2 DEF Begin, ExecStep, Written, WriteFails, TakeResult, SeeDone, Return
    <3> QED
      BY <2>0, <3>1 DEF OneWriter, Grpc
  <2> QED
    BY <2>1, <2>2
<1>3. AnswerInv'
  <2>1. UNCHANGED <<pump, input, answers>>
    BY DEF Begin, ExecStep, LockOut, Written, WriteFails, TakeResult, SeeDone, Return
  <2>2. \A j \in Invocations : chan'[j] = chan[j] \/ chan'[j] = 0
    <3>1. CASE TakeResult(i)
      <4>1. chan[i] - 1 = 0 /\ chan' = [chan EXCEPT ![i] = chan[i] - 1]
        BY <3>1 DEF TakeResult, TransportTypeOK
      <4> QED
        BY <4>1 DEF TransportTypeOK
    <3>2. CASE ~TakeResult(i)
      BY <3>2 DEF Begin, ExecStep, LockOut, Written, WriteFails, SeeDone, Return
    <3> QED
      BY <3>1, <3>2
  <2>3. \A j \in Invocations : outcome'[j] = "answer" => outcome[j] = "answer" \/ chan[j] > 0
    BY DEF Begin, ExecStep, LockOut, Written, WriteFails, TakeResult, SeeDone, Return, TransportTypeOK
  <2> QED
    BY <2>1, <2>2, <2>3 DEF AnswerInv, Unread
<1>4. OutcomeInv'
  BY DEF OutcomeInv, TransportTypeOK, CtxDone, Begin, ExecStep, LockOut, Written, WriteFails,
         TakeResult, SeeDone, Return
<1> QED
  BY <1>1, <1>2, <1>3, <1>4, <1>5

-----------------------------------------------------------------------------
(* The pump *)

LEMMA Leftover ==
    ASSUME NEW n \in Nat, NEW k \in 0..n
    PROVE  (IF k + 1 <= n THEN n - (k + 1) + 1 ELSE 0) = n - k
<1>1. CASE k = n
  BY <1>1
<1>2. CASE k + 1 <= n
  BY <1>2
<1> QED
  BY <1>1, <1>2

\* What is left of the input when its first k messages are gone.
LEMMA Suffix ==
    ASSUME TransportTypeOK, NEW k \in 0..Len(input),
           NEW s, s = SubSeq(input, k + 1, Len(input))
    PROVE  /\ s \in Seq(Messages)
           /\ \A j \in DOMAIN s : j \in Nat /\ j > 0 /\ j + k \in DOMAIN input /\ s[j] = input[j + k]
<1>1. Len(input) \in Nat /\ DOMAIN input = 1..Len(input) /\ \A j \in 1..Len(input) : input[j] \in Messages
  BY LenProperties, ElementOfSeq DEF TransportTypeOK
<1>2. \A j \in k + 1 .. Len(input) : input[j] \in Messages
  BY <1>1
<1>3. /\ s \in Seq(Messages)
      /\ Len(s) = IF k + 1 <= Len(input) THEN Len(input) - (k + 1) + 1 ELSE 0
      /\ \A j \in 1 .. Len(input) - (k + 1) + 1 : s[j] = input[k + 1 + j - 1]
  BY <1>1, <1>2, SubSeqProperties
<1>4. DOMAIN s = 1..Len(s)
  BY <1>3, LenProperties
<1>5. Len(s) = Len(input) - k
  BY <1>1, <1>3, Leftover, Zenon
<1>6. ASSUME NEW j \in DOMAIN s
      PROVE  j \in Nat /\ j > 0 /\ j + k \in DOMAIN input /\ s[j] = input[j + k]
  <2>1. j \in 1 .. Len(input) - k
    BY <1>4, <1>5, <1>6
  <2>2. j \in Nat /\ j > 0 /\ j + k \in 1..Len(input) /\ k + 1 + j - 1 = j + k
        /\ j \in 1 .. Len(input) - (k + 1) + 1
    BY <1>1, <2>1
  <2>3. s[j] = input[k + 1 + j - 1]
    BY <1>3, <2>2
  <2> QED
    BY <1>1, <2>2, <2>3
<1> QED
  BY <1>3, <1>6

LEMMA TailSuffix ==
    ASSUME TransportTypeOK, input # <<>>
    PROVE  /\ Head(input) = input[1] /\ 1 \in DOMAIN input /\ Head(input) \in Messages
           /\ 1 \in 0..Len(input)
           /\ Tail(input) = SubSeq(input, 1 + 1, Len(input))
<1>1. Len(input) \in Nat \ {0} /\ DOMAIN input = 1..Len(input)
  BY EmptySeq, LenProperties DEF TransportTypeOK
<1>2. Head(input) = input[1] /\ Head(input) \in Messages
  BY HeadTailProperties DEF TransportTypeOK
<1>3. Tail(input) = SubSeq(input, 2, Len(input))
  BY TailIsSubSeq DEF TransportTypeOK
<1> QED
  BY <1>1, <1>2, <1>3

\* The pump's steps read some of the input and change at most one channel; the
\* run's context may end and never starts again.
LEMMA TPumpCommon ==
    ASSUME TInv, PumpUnchanged, pump' \in Pumps, input' \in Seq(Messages),
           chan' \in [Invocations -> 0..1], runDone' \in BOOLEAN, runDone => runDone'
    PROVE  TransportTypeOK' /\ PendingIsOpen' /\ OneWriter' /\ OutcomeInv'
<1> USE DEF TInv, PumpUnchanged
<1>1. TransportTypeOK'
  BY DEF TransportTypeOK
<1>2. PendingIsOpen' /\ OneWriter'
  BY DEF PendingIsOpen, OneWriter, Grpc, Open
<1>3. OutcomeInv'
  BY DEF OutcomeInv, CtxDone
<1> QED
  BY <1>1, <1>2, <1>3

\* Reading on, without taking an answer out of the input to deliver it.
LEMMA TReadOn ==
    ASSUME TInv, PumpUnchanged, NEW k \in 0..Len(input),
           input' = SubSeq(input, k + 1, Len(input)), chan' = chan,
           \A i \in Invocations : pump' # Deliver(i)
    PROVE  AnswerInv'
<1>1. \A j \in DOMAIN input' : j \in Nat /\ j + k \in DOMAIN input /\ input'[j] = input[j + k]
  BY Suffix DEF TInv
<1>2. \A i \in Invocations : Unread(i)' => Unread(i)
  BY <1>1 DEF Unread
<1>3. ASSUME NEW i \in Invocations, answers[i] = 1, NEW j \in DOMAIN input', NEW l \in DOMAIN input',
             input'[j] = Answer(i), input'[l] = Answer(i)
      PROVE  j = l
  <2>1. j + k = l + k
    BY <1>1, <1>3 DEF TInv, AnswerInv
  <2> QED
    BY <1>1, <2>1
<1>4. UNCHANGED <<answers, outcome>>
  BY DEF PumpUnchanged
<1> QED
  BY <1>2, <1>3, <1>4 DEF TInv, AnswerInv, Answer

LEMMA TPump == ASSUME TInv, PumpStep \/ Break PROVE TInv'
<1> USE DEF TInv
<1>0. /\ TransportTypeOK /\ chan \in [Invocations -> 0..1] /\ runDone \in BOOLEAN
      /\ input \in Seq(Messages) /\ pump \in Pumps
  BY DEF TransportTypeOK
<1>1. CASE Start
  <2>1. PICK k \in 0..Len(input) : input' = SubSeq(input, k + 1, Len(input))
    BY <1>1 DEF Start
  <2>2. pump' = At("scan") /\ chan' = chan /\ runDone' = runDone /\ PumpUnchanged
    BY <1>1 DEF Start
  <2>3. input' \in Seq(Messages)
    BY <1>0, <2>1, Suffix
  <2>4. AnswerInv'
    BY <2>1, <2>2, TReadOn, PumpValues
  <2> QED
    BY <1>0, <2>2, <2>3, <2>4, TPumpCommon, PumpValues
<1>2. CASE ReadAnswer
  <2>0. /\ input # <<>> /\ input' = Tail(input) /\ Head(input).kind = "answer"
        /\ pump' = IF Head(input).to \in pending THEN Deliver(Head(input).to) ELSE At("scan")
        /\ pump = At("scan") /\ chan' = chan /\ runDone' = runDone /\ PumpUnchanged
    BY <1>2 DEF ReadAnswer
  <2>2. /\ Head(input) = input[1] /\ 1 \in DOMAIN input /\ Head(input) \in Messages
        /\ 1 \in 0..Len(input) /\ input' = SubSeq(input, 1 + 1, Len(input))
    BY <1>0, <2>0, TailSuffix
  <2>3. PICK i \in Invocations : i = Head(input).to /\ input[1] = Answer(i)
    BY <2>0, <2>2, MessageValues
  <2>1. /\ pump' = IF i \in pending THEN Deliver(i) ELSE At("scan")
        /\ pump = At("scan") /\ chan' = chan /\ runDone' = runDone /\ PumpUnchanged
    BY <2>0, <2>3
  <2>4. /\ input' \in Seq(Messages)
        /\ \A j \in DOMAIN input' : /\ j \in Nat /\ j > 0 /\ j + 1 \in DOMAIN input
                                    /\ input'[j] = input[j + 1]
    BY <1>0, <2>2, Suffix
  <2>5. CASE i \notin pending
    <3>1. pump' = At("scan")
      BY <2>1, <2>5
    <3>2. AnswerInv'
      BY <2>1, <2>2, <3>1, TReadOn, PumpValues
    <3> QED
      BY <1>0, <2>1, <2>4, <3>1, <3>2, TPumpCommon, PumpValues
  <2>6. CASE i \in pending
    <3>1. pump' = Deliver(i) /\ pump' \in Pumps
      BY <2>1, <2>3, <2>6, PumpValues
    <3>2. \A u \in Invocations : Unread(u)' => Unread(u)
      BY <2>4 DEF Unread
    <3>3. Unread(i)
      BY <2>2, <2>3 DEF Unread
    <3>4. answers[i] # 0
      BY <2>3, <3>3 DEF AnswerInv
    <3>5. answers[i] = 1 => ~Unread(i)' /\ chan[i] = 0
      <4> SUFFICES ASSUME answers[i] = 1 PROVE ~Unread(i)' /\ chan[i] = 0
        OBVIOUS
      <4>1. ASSUME NEW j \in DOMAIN input', input'[j] = Answer(i) PROVE FALSE
        <5>1. j + 1 = 1
          BY <2>2, <2>3, <2>4, <4>1 DEF AnswerInv
        <5> QED
          BY <2>4, <5>1
      <4>2. ~Unread(i)'
        BY <4>1 DEF Unread, Answer
      <4>3. chan[i] = 0
        BY <2>3, <3>3 DEF AnswerInv
      <4> QED
        BY <4>2, <4>3
    <3>6. ASSUME NEW u \in Invocations, answers[u] = 1, NEW j \in DOMAIN input',
                 NEW l \in DOMAIN input', input'[j] = Answer(u), input'[l] = Answer(u)
          PROVE  j = l
      <4>1. j + 1 = l + 1
        BY <2>4, <3>6 DEF AnswerInv
      <4> QED
        BY <2>4, <4>1
    <3>7. UNCHANGED <<answers, outcome>>
      BY <2>1 DEF PumpUnchanged
    <3>8. \A u \in Invocations \ {i} : pump' # Deliver(u)
      BY <2>3, <3>1, PumpValues
    <3>9. AnswerInv'
      <4>1. ASSUME NEW u \in Invocations, answers[u] = 0
            PROVE  ~Unread(u)' /\ pump' # Deliver(u) /\ chan'[u] = 0 /\ outcome'[u] # "answer"
        <5>1. u # i
          BY <3>4, <4>1
        <5> QED
          BY <2>1, <3>2, <3>7, <3>8, <4>1, <5>1 DEF AnswerInv
      <4>2. ASSUME NEW u \in Invocations, answers[u] = 1
            PROVE  /\ Unread(u)' => pump' # Deliver(u) /\ chan'[u] = 0
                   /\ pump' = Deliver(u) => chan'[u] = 0
        <5>1. CASE u = i
          BY <2>1, <3>5, <4>2, <5>1
        <5>2. CASE u # i
          BY <2>1, <3>2, <3>8, <4>2, <5>2 DEF AnswerInv
        <5> QED
          BY <5>1, <5>2
      <4> QED
        BY <3>6, <3>7, <4>1, <4>2 DEF AnswerInv, Answer, Deliver
    <3> QED
      BY <1>0, <2>1, <2>4, <3>1, <3>9, TPumpCommon
  <2> QED
    BY <2>5, <2>6
<1>3. CASE ReadCancel
  <2>1. /\ input # <<>> /\ input' = Tail(input) /\ pump' = Checked
        /\ chan' = chan /\ runDone' = TRUE /\ PumpUnchanged
    BY <1>3 DEF ReadCancel
  <2>2. 1 \in 0..Len(input) /\ input' = SubSeq(input, 1 + 1, Len(input))
    BY <1>0, <2>1, TailSuffix
  <2>3. input' \in Seq(Messages)
    BY <1>0, <2>2, Suffix
  <2>4. AnswerInv'
    BY <2>1, <2>2, TReadOn, PumpValues
  <2> QED
    BY <1>0, <2>1, <2>3, <2>4, TPumpCommon, PumpValues
<1>4. CASE SendResult
  <2> DEFINE i == pump.to
  <2>1. /\ pump.at = "deliver" /\ chan[i] < Room /\ chan' = [chan EXCEPT ![i] = @ + 1]
        /\ pump' = Checked /\ input' = input /\ runDone' = runDone /\ PumpUnchanged
    BY <1>4 DEF SendResult
  <2>2. i \in Invocations /\ pump = Deliver(i)
    BY <1>0, <2>1, PumpValues
  <2>3. chan[i] + 1 \in 0..1
    BY <1>0, <2>1, <2>2 DEF Room
  <2>4. chan' \in [Invocations -> 0..1]
    BY <1>0, <2>1, <2>3
  <2>5. UNCHANGED <<answers, outcome>>
    BY <2>1 DEF PumpUnchanged
  <2>6. \A u \in Invocations : pump' # Deliver(u)
    BY <2>1, PumpValues
  <2>7. answers[i] # 0 /\ (answers[i] = 1 => ~Unread(i))
    BY <2>2 DEF AnswerInv
  <2>8. AnswerInv'
    BY <1>0, <2>1, <2>2, <2>5, <2>6, <2>7 DEF AnswerInv, Unread
  <2> QED
    BY <1>0, <2>1, <2>4, <2>8, TPumpCommon, PumpValues
<1>5. CASE Check \/ InputEnds \/ MeetLong \/ Break
  <2>1. /\ pump' \in {At("scan"), At("stopped"), At("failed")}
        /\ chan' = chan /\ input' = input /\ PumpUnchanged
        /\ runDone' \in BOOLEAN /\ (runDone => runDone')
    BY <1>0, <1>5 DEF Check, InputEnds, MeetLong, Break, ReadingFails, RunDoneAtInputEnd, Grpc
  <2>2. pump' \in Pumps /\ \A u \in Invocations : pump' # Deliver(u)
    BY <2>1, PumpValues
  <2>3. AnswerInv'
    BY <2>1, <2>2 DEF AnswerInv, Unread, PumpUnchanged
  <2> QED
    BY <1>0, <2>1, <2>2, <2>3, TPumpCommon
<1> QED
  BY <1>1, <1>2, <1>3, <1>4, <1>5 DEF PumpStep

-----------------------------------------------------------------------------
(* The client, and time *)

LEMMA TClientAnswers == ASSUME TInv, NEW i \in Invocations, ClientAnswers(i) PROVE TInv'
<1> USE DEF TInv, ClientAnswers, execVars
<1>6. PICK m \in {Answer(i), LongAnswer(i)} : input' = Append(input, m)
  OBVIOUS
<1>0. /\ input \in Seq(Messages) /\ m \in Messages /\ answers \in [Invocations -> Nat]
      /\ input' = Append(input, m) /\ answers' = [answers EXCEPT ![i] = @ + 1]
      /\ \A u \in Invocations \ {i} : m # Answer(u)
  BY <1>6, MessageValues DEF TransportTypeOK
<1>1. /\ input' \in Seq(Messages)
      /\ Len(input) \in Nat /\ DOMAIN input = 1..Len(input) /\ DOMAIN input' = 1..(Len(input) + 1)
      /\ \A k \in 1..Len(input) : input'[k] = input[k]
      /\ input'[Len(input) + 1] = m
  BY <1>0, AppendProperties, LenProperties
<1>2. TransportTypeOK'
  BY <1>0, <1>1 DEF TransportTypeOK
<1>3. PendingIsOpen' /\ OneWriter'
  BY DEF PendingIsOpen, OneWriter, Grpc, Open
<1>4. OutcomeInv'
  BY <1>0 DEF OutcomeInv, CtxDone, Knows
<1>5. AnswerInv'
  <2>1. ASSUME NEW u \in Invocations \ {i}
        PROVE  /\ answers'[u] = answers[u] /\ Unread(u)' <=> Unread(u)
               /\ \A k \in DOMAIN input' : input'[k] = Answer(u) =>
                    k \in DOMAIN input /\ input[k] = Answer(u)
    <3>1. ASSUME NEW k \in DOMAIN input', input'[k] = Answer(u)
          PROVE  k \in DOMAIN input /\ input[k] = Answer(u)
      <4>1. k # Len(input) + 1
        BY <1>0, <1>1, <3>1
      <4> QED
        BY <1>1, <3>1, <4>1
    <3>2. \A k \in DOMAIN input : k \in DOMAIN input' /\ input'[k] = input[k]
      BY <1>1
    <3> QED
      BY <1>0, <3>1, <3>2 DEF Unread, Answer
  <2>2. answers'[i] = answers[i] + 1 /\ answers[i] \in Nat
    BY <1>0
  <2>3. answers'[i] = 1 =>
          /\ \A k \in DOMAIN input' : input'[k] = Answer(i) => k = Len(input) + 1
          /\ pump # Deliver(i) /\ chan[i] = 0
    <3> SUFFICES ASSUME answers'[i] = 1
                 PROVE  /\ \A k \in DOMAIN input' : input'[k] = Answer(i) => k = Len(input) + 1
                        /\ pump # Deliver(i) /\ chan[i] = 0
      OBVIOUS
    <3>1. answers[i] = 0
      BY <2>2
    <3>2. ~Unread(i) /\ pump # Deliver(i) /\ chan[i] = 0
      BY <3>1 DEF AnswerInv
    <3> QED
      BY <1>1, <3>2 DEF Unread
  <2>4. UNCHANGED <<pump, chan, outcome>>
    OBVIOUS
  <2> SUFFICES ASSUME NEW u \in Invocations
               PROVE  /\ answers'[u] = 0 =>
                           ~Unread(u)' /\ pump' # Deliver(u) /\ chan'[u] = 0 /\ outcome'[u] # "answer"
                      /\ answers'[u] = 1 =>
                           /\ \A j, k \in DOMAIN input' :
                                input'[j] = Answer(u) /\ input'[k] = Answer(u) => j = k
                           /\ Unread(u)' => pump' # Deliver(u) /\ chan'[u] = 0
                           /\ pump' = Deliver(u) => chan'[u] = 0
    BY DEF AnswerInv, Answer, Deliver
  <2>5. CASE u = i
    BY <2>2, <2>3, <2>4, <2>5
  <2>6. CASE u # i
    BY <2>1, <2>4, <2>6 DEF AnswerInv
  <2> QED
    BY <2>5, <2>6
<1> QED
  BY <1>2, <1>3, <1>4, <1>5

LEMMA TClientOther ==
    ASSUME TInv, ClientCancels \/ ClientCloses \/ ClientReads \/ (\E i \in Invocations : TimeOut(i))
                 \/ UNCHANGED vars
    PROVE  TInv'
<1> USE DEF TInv, execVars, clientVars
<1>1. CASE ClientCancels
  <2>0. /\ input \in Seq(Messages) /\ Cancel \in Messages /\ input' = Append(input, Cancel)
    BY <1>1, MessageValues DEF TransportTypeOK, ClientCancels
  <2>1. /\ input' \in Seq(Messages)
        /\ Len(input) \in Nat /\ DOMAIN input = 1..Len(input) /\ DOMAIN input' = 1..(Len(input) + 1)
        /\ \A k \in 1..Len(input) : input'[k] = input[k]
        /\ input'[Len(input) + 1] = Cancel
    BY <2>0, AppendProperties, LenProperties
  <2>2. ASSUME NEW u \in Invocations, NEW k \in DOMAIN input', input'[k] = Answer(u)
        PROVE  k \in DOMAIN input /\ input[k] = Answer(u)
    <3>1. k # Len(input) + 1
      BY <2>1, <2>2, MessageValues
    <3> QED
      BY <2>1, <2>2, <3>1
  <2>3. \A u \in Invocations : Unread(u)' => Unread(u)
    BY <2>2 DEF Unread, Answer
  <2>4. TransportTypeOK'
    BY <1>1, <2>1 DEF TransportTypeOK, ClientCancels
  <2>5. PendingIsOpen' /\ OneWriter' /\ OutcomeInv'
    BY <1>1 DEF PendingIsOpen, OneWriter, Grpc, Open, OutcomeInv, CtxDone, ClientCancels
  <2>6. AnswerInv'
    BY <1>1, <2>2, <2>3 DEF AnswerInv, Answer, Deliver, ClientCancels
  <2> QED
    BY <2>4, <2>5, <2>6
<1>2. CASE ClientCloses
  <2>1. TransportTypeOK'
    BY <1>2 DEF TransportTypeOK, ClientCloses
  <2> QED
    BY <1>2, <2>1 DEF PendingIsOpen, OneWriter, Grpc, Open, OutcomeInv, CtxDone, AnswerInv, Unread,
                      ClientCloses
<1>5. CASE ClientReads
  <2>1. output' \in Seq(Lines) /\ Len(output') <= PipeRoom
    <3>1. /\ output \in Seq(Lines) /\ output # <<>> /\ output' = Tail(output)
          /\ Len(output) <= PipeRoom
      BY <1>5 DEF ClientReads, TransportTypeOK
    <3>2. output' \in Seq(Lines) /\ Len(output') = Len(output) - 1 /\ Len(output) \in Nat
      BY <3>1, HeadTailProperties, LenProperties
    <3> QED
      BY <3>1, <3>2, TransportAssumption
  <2>2. TransportTypeOK'
    BY <1>5, <2>1 DEF TransportTypeOK, ClientReads
  <2> QED
    BY <1>5, <2>2 DEF PendingIsOpen, OneWriter, Grpc, Open, OutcomeInv, CtxDone, AnswerInv, Unread,
                      ClientReads
<1>3. ASSUME NEW i \in Invocations, TimeOut(i) PROVE TInv'
  <2>1. TransportTypeOK'
    BY <1>3 DEF TransportTypeOK, TimeOut
  <2> QED
    BY <1>3, <2>1 DEF PendingIsOpen, OneWriter, Grpc, Open, OutcomeInv, CtxDone, AnswerInv, Unread,
                      TimeOut
<1>4. CASE UNCHANGED vars
  <2>1. TransportTypeOK'
    BY <1>4 DEF TransportTypeOK, vars
  <2> QED
    BY <1>4, <2>1 DEF vars, PendingIsOpen, OneWriter, Grpc, Open, OutcomeInv, CtxDone, AnswerInv,
                      Unread
<1> QED
  BY <1>1, <1>2, <1>3, <1>4, <1>5

LEMMA TStep == TInv /\ [Next]_vars => TInv'
BY TExec, TPump, TClientAnswers, TClientOther DEF Next, Idle

\* The inductive invariant holds in every run of the transport.
LEMMA TInvariant == Spec => []TInv
BY TInit, TStep, PTL DEF Spec

\* The map holds exactly the calls in progress, an invocation answered once never
\* blocks the pump, and on stdio one call at a time is in its write, whatever times
\* out, is cancelled or is left unread meanwhile.
THEOREM TransportCorrect == Spec => []TransportInv
<1>1. ASSUME TInv PROVE TransportInv
  <2>1. ASSUME pump.at = "deliver", answers[pump.to] = 1 PROVE chan[pump.to] < Room
    <3>1. pump.to \in Invocations /\ pump = Deliver(pump.to)
      BY <1>1, <2>1, PumpValues DEF TInv, TransportTypeOK
    <3>2. chan[pump.to] = 0
      BY <1>1, <2>1, <3>1 DEF TInv, AnswerInv
    <3> QED
      BY <3>2 DEF Room
  <2> QED
    BY <1>1, <2>1 DEF TInv, TransportInv, PumpNeverBlocks
<1> QED
  BY <1>1, TInvariant, PTL

-----------------------------------------------------------------------------
(* The contract of Execute *)

LEMMA ContractInit == Init => Contract!Init
BY DEF Init, Contract!Init, Call

LEMMA ContractStep == TInv /\ [Next]_vars => [Contract!Next]_Contract!vars
<1> SUFFICES ASSUME TInv, [Next]_vars PROVE [Contract!Next]_Contract!vars
  OBVIOUS
<1> DEFINE given == {i \in Invocations : answers[i] > 0}
           ended == {i \in Invocations : runDone \/ i \in timedOut}
<1> USE DEF TInv
<1>0. /\ exec \in [Invocations -> ExecPCs] /\ outcome \in [Invocations -> Outcomes]
      /\ answers \in [Invocations -> Nat]
  BY DEF TransportTypeOK
\* A call of Execute moves on without the scheduler seeing it.
<1>1. ASSUME NEW i \in Invocations,
             LockOut(i) \/ Written(i) \/ WriteFails(i) \/ TakeResult(i) \/ SeeDone(i)
      PROVE  UNCHANGED Contract!vars
  <2>1. Call' = Call
    BY <1>0, <1>1 DEF Call, LockOut, Written, WriteFails, TakeResult, SeeDone, Leave, ExecGoto
  <2>2. given' = given /\ ended' = ended
    BY <1>1 DEF LockOut, Written, WriteFails, TakeResult, SeeDone, clientVars
  <2> QED
    BY <2>1, <2>2 DEF Contract!vars
<1>2. ASSUME NEW i \in Invocations, Begin(i) PROVE Contract!Begin(i)
  <2>1. Call[i] = "none" /\ Call' = [Call EXCEPT ![i] = "open"]
    BY <1>0, <1>2 DEF Call, Begin, ExecGoto
  <2>2. given' = given /\ ended' = ended
    BY <1>2 DEF Begin, clientVars
  <2> QED
    BY <2>1, <2>2 DEF Contract!Begin
<1>3. ASSUME NEW i \in Invocations, Return(i) PROVE Contract!Return(i, outcome[i])
  <2>1. Call[i] = "open" /\ Call' = [Call EXCEPT ![i] = outcome[i]]
    BY <1>0, <1>3 DEF Call, Return, ExecGoto
  <2>2. given' = given /\ ended' = ended
    BY <1>3 DEF Return, clientVars
  <2>3. outcome[i] = "answer" => i \in given
    BY <1>0 DEF AnswerInv
  <2>4. outcome[i] = "context" => i \in ended
    BY DEF OutcomeInv, CtxDone
  <2> QED
    BY <2>1, <2>2, <2>3, <2>4 DEF Contract!Return
<1>4. ASSUME NEW i \in Invocations, Return(i) PROVE outcome[i] \in Contract!Outcomes
  BY <1>4 DEF Return, OutcomeInv, Contract!Outcomes
<1>5. ASSUME NEW i \in Invocations, ClientAnswers(i) PROVE Contract!Give(i)
  <2>1. Call' = Call /\ Call[i] # "none" /\ ended' = ended
    BY <1>0, <1>5 DEF Call, ClientAnswers, Knows, execVars, OutcomeInv
  <2>2. given' = given \cup {i}
    BY <1>0, <1>5 DEF ClientAnswers
  <2> QED
    BY <2>1, <2>2 DEF Contract!Give
<1>6. ASSUME NEW i \in Invocations, TimeOut(i) PROVE Contract!EndContexts({i})
  <2>1. Call' = Call /\ given' = given
    BY <1>6 DEF Call, TimeOut, execVars, clientVars
  <2>2. ended' = ended \cup {i}
    BY <1>6 DEF TimeOut
  <2> QED
    BY <2>1, <2>2 DEF Contract!EndContexts
\* The pump touches no call; when it ends the run's context it ends all of them.
<1>7. ASSUME PumpStep \/ Break PROVE UNCHANGED Contract!vars \/ Contract!EndContexts(Invocations)
  <2>1. PumpUnchanged
    BY <1>7 DEF PumpStep, Start, ReadAnswer, ReadCancel, SendResult, Check, InputEnds, MeetLong,
                Break, ReadingFails
  <2>2. Call' = Call /\ given' = given
    BY <2>1 DEF PumpUnchanged, Call
  <2>3. runDone' = runDone \/ runDone' = TRUE
    BY <1>7 DEF PumpStep, Start, ReadAnswer, ReadCancel, SendResult, Check, InputEnds, MeetLong,
                Break, ReadingFails,
                RunDoneAtInputEnd, Grpc, TransportTypeOK
  <2>4. CASE runDone' = runDone
    BY <2>1, <2>2, <2>4 DEF PumpUnchanged, Contract!vars
  <2>5. CASE runDone' = TRUE
    BY <2>1, <2>2, <2>5 DEF PumpUnchanged, Contract!EndContexts
  <2> QED
    BY <2>3, <2>4, <2>5
<1>8. ASSUME ClientCancels \/ ClientCloses \/ ClientReads \/ UNCHANGED vars
      PROVE  UNCHANGED Contract!vars
  BY <1>8 DEF ClientCancels, ClientCloses, ClientReads, clientVars, execVars, vars, Call, Contract!vars
<1> QED
  BY <1>1, <1>2, <1>3, <1>4, <1>5, <1>6, <1>7, <1>8 DEF Next, ExecStep, Idle, Contract!Next

\* Execute keeps the safety part of its contract with the scheduler: one return
\* per call, an answer only if the client gave one to this invocation, and a
\* context error only if its context is done.
THEOREM ContractStepsCorrect == Spec => Contract!Steps
<1>1. TInv /\ [Next]_vars => [Contract!Next]_Contract!vars
  BY ContractStep
<1> QED
  BY <1>1, ContractInit, TInvariant, PTL DEF Spec, Contract!Steps
==============================================================================

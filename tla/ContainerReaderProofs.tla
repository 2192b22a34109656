------------------------ MODULE ContainerReaderProofs ------------------------
(***************************************************************************)
(* Proofs about ContainerReader for any number of readers and reads, any   *)
(* image and any buffers.                                                  *)
(***************************************************************************)
EXTENDS ContainerReader, TLAPS

LEMMA SequenceFacts ==
    ASSUME NEW S, NEW s \in Seq(S), s # << >>
    PROVE  Head(s) \in S /\ Tail(s) \in Seq(S)
  OBVIOUS

LEMMA SingletonFacts ==
    ASSUME NEW c
    PROVE  /\ <<c>> # << >>
           /\ Head(<<c>>) = c
           /\ Tail(<<c>>) = << >>
           /\ Append(<< >>, c) = <<c>>
  OBVIOUS

LEMMA JobFacts ==
    /\ NoJob \in Jobs /\ NoJob.is = "nothing"
    /\ [is |-> "size"] \in Jobs /\ [is |-> "refused"] \in Jobs
    /\ \A c \in [offset: Nat, len: Nat] : [is |-> "read", req |-> c] \in Jobs
    /\ \A a \in Answers : a \in Jobs /\ a.is \in {"data", "error"}
  BY DEF Jobs, NoJob, Answers

\* A clipped request stays inside the image and asks for something.
LEMMA ClippedFits ==
    ASSUME NEW c \in [offset: Nat, len: Nat], c.len # 0, c.offset < Size
    PROVE  /\ Clipped(c) \in [offset: Nat, len: Nat]
           /\ Clipped(c).len > 0
           /\ Clipped(c).offset + Clipped(c).len <= Size
  BY SizeAssumption DEF Clipped, Least

\* The bytes of an answer are bytes of the image.
LEMMA AnswersAreTyped ==
    ASSUME NEW c \in [offset: Nat, len: Nat], c.offset + c.len <= Size,
           NEW a \in AnswersTo(c)
    PROVE  a \in Answers
<1>1. ASSUME NEW n \in 0..c.len
      PROVE  Bytes(c.offset, n) \in SUBSET (0..(Size - 1))
  BY SizeAssumption DEF Bytes
<1> QED BY <1>1 DEF AnswersTo, Answers

LEMMA InitIInv == Init => IInv
<1> SUFFICES ASSUME Init
             PROVE  IInv
  OBVIOUS
<1>1. TypeOK
  <2>1. NoCall \in [offset: Nat, len: Nat]
    BY DEF NoCall
  <2>2. NoJob \in Jobs
    BY JobFacts
  <2>3. << >> \in Seq({"size", "refused"}) /\ << >> \in Seq(Answers)
        /\ << >> \in Seq([offset: Nat, len: Nat])
    OBVIOUS
  <2>4. [r \in Readers |-> {}] \in [Readers -> SUBSET (0..(Size - 1))]
    OBVIOUS
  <2>5. [r \in Readers |-> 0] \in [Readers -> Nat]
        /\ [r \in Readers |-> "out"] \in [Readers -> {"out", "lock", "send", "recv"}]
    OBVIOUS
  <2>6. [r \in Readers |-> NoCall] \in [Readers -> [offset: Nat, len: Nat]]
    BY <2>1
  <2> QED BY <2>2, <2>3, <2>4, <2>5, <2>6
          DEF Init, TypeOK, OwnerStates, WorkerStates
<1>2. WorkerSound
  BY DEF Init, WorkerSound, ChannelsEmpty, NoJob
<1>3. \A r \in Readers : ReaderSound(r)
  BY ReadersAssumption DEF Init, ReaderSound, Free
<1>4. ChannelsEmpty
  BY DEF Init, ChannelsEmpty
<1> QED BY <1>1, <1>2, <1>3, <1>4 DEF IInv

LEMMA StepIInv ==
    ASSUME IInv, [Next]_vars
    PROVE  IInv'
<1> USE DEF vars, threadVars, channels, readerVars
<1>0. TypeOK /\ WorkerSound /\ (\A r \in Readers : ReaderSound(r))
      /\ ((\A r \in Readers : pc[r] # "recv") => ChannelsEmpty)
  BY DEF IInv
<1>1. CASE Spawn
  BY <1>0, <1>1 DEF IInv, TypeOK, WorkerSound, ReaderSound, InFlight, ChannelsEmpty, Spawn,
     OwnerStates, WorkerStates
<1>2. CASE Opened
  BY <1>0, <1>2 DEF IInv, TypeOK, WorkerSound, ReaderSound, InFlight, ChannelsEmpty, Opened,
     OwnerStates, WorkerStates
<1>3. CASE Refused
  BY <1>0, <1>3 DEF IInv, TypeOK, WorkerSound, ReaderSound, InFlight, ChannelsEmpty, Refused,
     OwnerStates, WorkerStates
<1>4. CASE Disconnected
  BY <1>0, <1>4 DEF IInv, TypeOK, WorkerSound, ReaderSound, InFlight, ChannelsEmpty, Disconnected,
     OwnerStates, WorkerStates
<1>5. CASE Drop
  BY <1>0, <1>5 DEF IInv, TypeOK, WorkerSound, ReaderSound, InFlight, ChannelsEmpty, Drop,
     OwnerStates, WorkerStates
<1>6. CASE Join
  BY <1>0, <1>6 DEF IInv, TypeOK, WorkerSound, ReaderSound, InFlight, ChannelsEmpty, Join,
     OwnerStates, WorkerStates
<1>7. CASE OpenContainer
  <2>1. TypeOK'
    BY <1>0, <1>7 DEF TypeOK, WorkerSound, OpenContainer, Exit, WorkerStates, Jobs, NoJob
  <2>2. WorkerSound'
    BY <1>0, <1>7 DEF TypeOK, WorkerSound, ChannelsEmpty, OpenContainer, Exit, NoJob
  <2>3. ASSUME NEW r \in Readers
        PROVE  ReaderSound(r)'
    BY <1>0, <1>7, <2>3 DEF TypeOK, WorkerSound, ReaderSound, InFlight, OpenContainer, Exit, NoJob
  <2>4. (\A r \in Readers : pc'[r] # "recv") => ChannelsEmpty'
    BY <1>0, <1>7 DEF TypeOK, WorkerSound, ChannelsEmpty, OpenContainer, Exit
  <2> QED BY <2>1, <2>2, <2>3, <2>4 DEF IInv
<1>8. CASE Report
  <2>1. TypeOK'
    BY <1>0, <1>8 DEF TypeOK, WorkerSound, Report, Exit, WorkerStates, Jobs, NoJob
  <2>2. WorkerSound'
    <3>1. owner = "waiting" /\ init = << >> /\ job.is \in {"size", "refused"}
      BY <1>0, <1>8 DEF TypeOK, WorkerSound, ChannelsEmpty, Report, OwnerStates
    <3>2. init' = <<job.is>>
      BY <1>8, <3>1, SingletonFacts DEF Report
    <3> QED BY <1>0, <1>8, <3>1, <3>2 DEF WorkerSound, ChannelsEmpty, Report, NoJob
  <2>3. ASSUME NEW r \in Readers
        PROVE  ReaderSound(r)'
    BY <1>0, <1>8, <2>3 DEF TypeOK, WorkerSound, ReaderSound, InFlight, Report, Exit, NoJob
  <2>4. (\A r \in Readers : pc'[r] # "recv") => ChannelsEmpty'
    BY <1>0, <1>8 DEF TypeOK, WorkerSound, ChannelsEmpty, Report, Exit
  <2> QED BY <2>1, <2>2, <2>3, <2>4 DEF IInv
<1>9. CASE Serve
  <2>1. TypeOK'
    <3>1. Head(req) \in [offset: Nat, len: Nat] /\ Tail(req) \in Seq([offset: Nat, len: Nat])
      BY <1>0, <1>9, SequenceFacts DEF TypeOK, Serve
    <3> QED BY <1>0, <1>9, <3>1, JobFacts DEF TypeOK, Serve, WorkerStates
  <2>2. WorkerSound'
    BY <1>0, <1>9 DEF TypeOK, WorkerSound, ChannelsEmpty, Serve, Exit, NoJob
  <2>3. ASSUME NEW r \in Readers
        PROVE  ReaderSound(r)'
    <3>1. ReaderSound(r) /\ (pc[r] = "recv" => req = <<call[r]>> /\ resp = << >>)
      BY <1>0, <1>9, <2>3 DEF ReaderSound, InFlight, Serve
    <3>2. pc[r] = "recv" => InFlight(call[r])'
      BY <1>9, <3>1, SingletonFacts DEF InFlight, Serve
    <3> QED BY <1>9, <3>1, <3>2 DEF ReaderSound, Serve
  <2>4. (\A r \in Readers : pc'[r] # "recv") => ChannelsEmpty'
    BY <1>0, <1>9 DEF TypeOK, WorkerSound, ChannelsEmpty, Serve, Exit
  <2> QED BY <2>1, <2>2, <2>3, <2>4 DEF IInv
<1>10. CASE ReadPositioned
  <2>1. TypeOK'
    <3>1. PICK r \in Readers : pc[r] = "recv"
      BY <1>0, <1>10 DEF ChannelsEmpty, ReadPositioned
    <3>2. /\ job = [is |-> "read", req |-> call[r]]
          /\ call[r] \in [offset: Nat, len: Nat]
          /\ call[r].offset + call[r].len <= Size
      BY <1>0, <1>10, <3>1 DEF TypeOK, ReaderSound, InFlight, ReadPositioned
    <3>3. job' \in AnswersTo(call[r])
      BY <1>10, <3>2 DEF ReadPositioned, AnswersTo
    <3>4. job' \in Jobs
      BY <3>2, <3>3, AnswersAreTyped, JobFacts
    <3> QED BY <1>0, <1>10, <3>4 DEF TypeOK, ReadPositioned, WorkerStates
  <2>2. WorkerSound'
    <3>1. job'.is \in {"data", "error"}
      BY <1>10 DEF ReadPositioned
    <3>2. owner = "open"
      BY <1>0, <1>10 DEF TypeOK, WorkerSound, ChannelsEmpty, ReadPositioned, OwnerStates
    <3> QED BY <1>0, <1>10, <3>1, <3>2 DEF WorkerSound, ReadPositioned
  <2>3. ASSUME NEW r \in Readers
        PROVE  ReaderSound(r)'
    <3>1. ReaderSound(r)
      BY <1>0
    <3>2. pc[r] = "recv" => InFlight(call[r])'
      <4>1. pc[r] = "recv" => /\ job = [is |-> "read", req |-> call[r]]
                              /\ req = << >> /\ resp = << >>
        BY <1>10, <3>1 DEF ReaderSound, InFlight, ReadPositioned
      <4>2. pc[r] = "recv" => job' \in AnswersTo(call[r])
        BY <1>10, <4>1 DEF ReadPositioned, AnswersTo
      <4> QED BY <1>10, <4>1, <4>2 DEF InFlight, ReadPositioned, AnswersTo
    <3> QED BY <1>10, <3>1, <3>2 DEF ReaderSound, ReadPositioned
  <2>4. (\A r \in Readers : pc'[r] # "recv") => ChannelsEmpty'
    BY <1>0, <1>10 DEF TypeOK, WorkerSound, ChannelsEmpty, ReadPositioned, Exit
  <2> QED BY <2>1, <2>2, <2>3, <2>4 DEF IInv
<1>11. CASE Answer
  <2>1. TypeOK'
    <3>1. PICK r \in Readers : pc[r] = "recv"
      BY <1>0, <1>11 DEF ChannelsEmpty, Answer
    <3>2. /\ job \in AnswersTo(call[r]) /\ resp = << >>
          /\ call[r] \in [offset: Nat, len: Nat]
          /\ call[r].offset + call[r].len <= Size
      BY <1>0, <1>11, <3>1 DEF TypeOK, ReaderSound, InFlight, Answer
    <3>3. job \in Answers
      BY <3>2, AnswersAreTyped
    <3>4. resp' \in Seq(Answers)
      BY <1>0, <1>11, <3>3 DEF TypeOK, Answer
    <3> QED BY <1>0, <1>11, <3>4, JobFacts DEF TypeOK, Answer, WorkerStates
  <2>2. WorkerSound'
    BY <1>0, <1>11 DEF TypeOK, WorkerSound, ChannelsEmpty, Answer, Exit, NoJob
  <2>3. ASSUME NEW r \in Readers
        PROVE  ReaderSound(r)'
    <3>1. ReaderSound(r)
      BY <1>0
    <3>2. pc[r] = "recv" => InFlight(call[r])'
      <4>1. pc[r] = "recv" => /\ job \in AnswersTo(call[r])
                              /\ req = << >> /\ resp = << >>
        BY <1>11, <3>1 DEF ReaderSound, InFlight, Answer
      <4>2. pc[r] = "recv" => resp' = <<job>>
        BY <1>11, <4>1, SingletonFacts DEF Answer
      <4> QED BY <1>11, <4>1, <4>2 DEF InFlight, Answer, AnswersTo
    <3> QED BY <1>11, <3>1, <3>2 DEF ReaderSound, Answer
  <2>4. (\A r \in Readers : pc'[r] # "recv") => ChannelsEmpty'
    BY <1>0, <1>11 DEF TypeOK, WorkerSound, ChannelsEmpty, Answer, Exit
  <2> QED BY <2>1, <2>2, <2>3, <2>4 DEF IInv
<1>12. CASE SourceDropped
  <2>1. TypeOK'
    BY <1>0, <1>12 DEF TypeOK, WorkerSound, SourceDropped, Exit, WorkerStates, Jobs, NoJob
  <2>2. WorkerSound'
    BY <1>0, <1>12 DEF TypeOK, WorkerSound, ChannelsEmpty, SourceDropped, Exit, NoJob
  <2>3. ASSUME NEW r \in Readers
        PROVE  ReaderSound(r)'
    BY <1>0, <1>12, <2>3 DEF TypeOK, WorkerSound, ReaderSound, InFlight, SourceDropped, Exit, NoJob
  <2>4. (\A r \in Readers : pc'[r] # "recv") => ChannelsEmpty'
    BY <1>0, <1>12 DEF TypeOK, WorkerSound, ChannelsEmpty, SourceDropped, Exit
  <2> QED BY <2>1, <2>2, <2>3, <2>4 DEF IInv
<1>13. CASE Panic
  <2>1. TypeOK'
    BY <1>0, <1>13 DEF TypeOK, WorkerSound, Panic, Exit, WorkerStates, Jobs, NoJob
  <2>2. WorkerSound'
    BY <1>0, <1>13 DEF TypeOK, WorkerSound, ChannelsEmpty, Panic, Exit, NoJob
  <2>3. ASSUME NEW r \in Readers
        PROVE  ReaderSound(r)'
    BY <1>0, <1>13, <2>3 DEF TypeOK, WorkerSound, ReaderSound, InFlight, Panic, Exit, NoJob
  <2>4. (\A r \in Readers : pc'[r] # "recv") => ChannelsEmpty'
    BY <1>0, <1>13 DEF TypeOK, WorkerSound, ChannelsEmpty, Panic, Exit
  <2> QED BY <2>1, <2>2, <2>3, <2>4 DEF IInv
<1>14. ASSUME NEW p \in Readers, ReadNothing(p)
      PROVE  IInv'
  <2>1. TypeOK'
    BY <1>0, <1>14 DEF TypeOK, WorkerSound, ReadNothing, Return
  <2>2. WorkerSound'
    BY <1>0, <1>14 DEF TypeOK, WorkerSound, ReaderSound, InFlight, ChannelsEmpty, ReadNothing, Return
  <2>3. ASSUME NEW r \in Readers
        PROVE  ReaderSound(r)'
    BY <1>0, <1>14, <2>3 DEF TypeOK, WorkerSound, ReaderSound, InFlight, ReadNothing, Return
  <2>4. (\A r \in Readers : pc'[r] # "recv") => ChannelsEmpty'
    BY <1>0, <1>14 DEF TypeOK, WorkerSound, ReaderSound, InFlight, ChannelsEmpty, ReadNothing, Return
  <2> QED BY <2>1, <2>2, <2>3, <2>4 DEF IInv
<1>15. ASSUME NEW p \in Readers, ReadAt(p)
      PROVE  IInv'
  <2>1. TypeOK'
    <3>1. PICK c \in Requests : c.len # 0 /\ c.offset < Size
                                 /\ call' = [call EXCEPT ![p] = Clipped(c)]
      BY <1>15 DEF ReadAt
    <3>2. Clipped(c) \in [offset: Nat, len: Nat]
      BY <3>1, RequestsAssumption, ClippedFits
    <3> QED BY <1>0, <1>15, <3>1, <3>2 DEF TypeOK, ReadAt
  <2>2. WorkerSound'
    BY <1>0, <1>15 DEF TypeOK, WorkerSound, ReaderSound, InFlight, ChannelsEmpty, ReadAt, Return
  <2>3. ASSUME NEW r \in Readers
        PROVE  ReaderSound(r)'
    <3>1. PICK c \in Requests : c.len # 0 /\ c.offset < Size
                                 /\ call' = [call EXCEPT ![p] = Clipped(c)]
      BY <1>15 DEF ReadAt
    <3>2. Clipped(c).len > 0 /\ Clipped(c).offset + Clipped(c).len <= Size
      BY <3>1, RequestsAssumption, ClippedFits
    <3>3. ReaderSound(r)
      BY <1>0
    <3>4. CASE r = p
      BY <1>0, <1>15, <3>1, <3>2, <3>3, <3>4 DEF TypeOK, ReaderSound, ReadAt
    <3>5. CASE r # p
      BY <1>0, <1>15, <3>1, <3>3, <3>5 DEF TypeOK, ReaderSound, InFlight, ReadAt
    <3> QED BY <3>4, <3>5
  <2>4. (\A r \in Readers : pc'[r] # "recv") => ChannelsEmpty'
    BY <1>0, <1>15 DEF TypeOK, WorkerSound, ReaderSound, InFlight, ChannelsEmpty, ReadAt, Return
  <2> QED BY <2>1, <2>2, <2>3, <2>4 DEF IInv
<1>16. ASSUME NEW p \in Readers, Lock(p)
      PROVE  IInv'
  <2>1. TypeOK'
    BY <1>0, <1>16 DEF TypeOK, WorkerSound, Lock, Return
  <2>2. WorkerSound'
    BY <1>0, <1>16 DEF TypeOK, WorkerSound, ReaderSound, InFlight, ChannelsEmpty, Lock, Return
  <2>3. ASSUME NEW r \in Readers
        PROVE  ReaderSound(r)'
    <3>1. ReaderSound(r) /\ p # Free /\ r # Free
      BY <1>0, ReadersAssumption DEF Free
    <3>2. CASE r = p
      BY <1>0, <1>16, <3>1, <3>2 DEF TypeOK, ReaderSound, Lock
    <3>3. CASE r # p
      BY <1>0, <1>16, <3>1, <3>3 DEF TypeOK, ReaderSound, Lock, Free
    <3> QED BY <3>2, <3>3
  <2>4. (\A r \in Readers : pc'[r] # "recv") => ChannelsEmpty'
    BY <1>0, <1>16 DEF TypeOK, WorkerSound, ReaderSound, InFlight, ChannelsEmpty, Lock, Return
  <2> QED BY <2>1, <2>2, <2>3, <2>4 DEF IInv
<1>17. ASSUME NEW p \in Readers, Send(p)
      PROVE  IInv'
  <2>1. TypeOK'
    BY <1>0, <1>17 DEF TypeOK, WorkerSound, Send, Return
  <2>2. WorkerSound'
    BY <1>0, <1>17 DEF TypeOK, WorkerSound, ReaderSound, InFlight, ChannelsEmpty, Send, Return
  <2>3. ASSUME NEW r \in Readers
        PROVE  ReaderSound(r)'
    <3>1. ReaderSound(r) /\ ReaderSound(p)
      BY <1>0
    <3>2. CASE r = p
      <4>1. \A q \in Readers : pc[q] # "recv"
        BY <1>0, <1>17 DEF ReaderSound, Send
      <4>2. ChannelsEmpty /\ owner = "open"
        BY <1>0, <1>17, <4>1 DEF WorkerSound, Send
      <4>3. worker = "serving" /\ req' = <<call[p]>> /\ resp = << >>
        BY <1>0, <1>17, <4>2, SingletonFacts DEF WorkerSound, ChannelsEmpty, Send
      <4> QED BY <1>0, <1>17, <3>1, <3>2, <4>3 DEF TypeOK, ReaderSound, InFlight, Send
    <3>3. CASE r # p
      BY <1>0, <1>17, <3>1, <3>3 DEF TypeOK, ReaderSound, Send
    <3> QED BY <3>2, <3>3
  <2>4. (\A r \in Readers : pc'[r] # "recv") => ChannelsEmpty'
    BY <1>0, <1>17 DEF TypeOK, WorkerSound, ReaderSound, InFlight, ChannelsEmpty, Send, Return
  <2> QED BY <2>1, <2>2, <2>3, <2>4 DEF IInv
<1>18. ASSUME NEW p \in Readers, Receive(p)
      PROVE  IInv'
  <2>1. TypeOK'
    <3>1. Head(resp) \in Answers /\ Tail(resp) \in Seq(Answers)
      BY <1>0, <1>18, SequenceFacts DEF TypeOK, Receive
    <3>2. (IF Head(resp).is = "data" THEN Head(resp).bytes ELSE {}) \in SUBSET (0..(Size - 1))
      BY <3>1 DEF Answers
    <3>3. NoCall \in [offset: Nat, len: Nat]
      BY DEF NoCall
    <3> QED BY <1>0, <1>18, <3>1, <3>2, <3>3 DEF TypeOK, Receive, Return
  <2>2. WorkerSound'
    BY <1>0, <1>18 DEF TypeOK, WorkerSound, ReaderSound, InFlight, ChannelsEmpty, Receive, Return
  <2>3. ASSUME NEW r \in Readers
        PROVE  ReaderSound(r)'
    <3>1. ReaderSound(r) /\ ReaderSound(p) /\ r # Free
      BY <1>0, ReadersAssumption DEF Free
    <3>2. CASE r = p
      BY <1>0, <1>18, <3>1, <3>2 DEF TypeOK, ReaderSound, Receive, Return
    <3>3. CASE r # p
      <4>1. pc[r] \notin {"send", "recv"}
        BY <1>18, <3>1, <3>3 DEF ReaderSound, Receive
      <4> QED BY <1>0, <1>18, <3>1, <3>3, <4>1 DEF TypeOK, ReaderSound, Receive, Return
    <3> QED BY <3>2, <3>3
  <2>4. (\A r \in Readers : pc'[r] # "recv") => ChannelsEmpty'
    BY <1>0, <1>18 DEF TypeOK, WorkerSound, ReaderSound, InFlight, ChannelsEmpty, Receive, Return
  <2> QED BY <2>1, <2>2, <2>3, <2>4 DEF IInv
<1>19. ASSUME NEW p \in Readers, WorkerGone(p)
      PROVE  IInv'
  <2>1. TypeOK'
    <3>1. NoCall \in [offset: Nat, len: Nat]
      BY DEF NoCall
    <3> QED BY <1>0, <1>19, <3>1 DEF TypeOK, WorkerGone, Return
  <2>2. WorkerSound'
    BY <1>0, <1>19 DEF TypeOK, WorkerSound, ReaderSound, InFlight, ChannelsEmpty, WorkerGone, Return
  <2>3. ASSUME NEW r \in Readers
        PROVE  ReaderSound(r)'
    <3>1. ReaderSound(r) /\ ReaderSound(p) /\ r # Free
      BY <1>0, ReadersAssumption DEF Free
    <3>2. CASE r = p
      BY <1>0, <1>19, <3>1, <3>2 DEF TypeOK, ReaderSound, WorkerGone, Return
    <3>3. CASE r # p
      <4>1. pc[r] \notin {"send", "recv"}
        BY <1>19, <3>1, <3>3 DEF ReaderSound, WorkerGone
      <4> QED BY <1>0, <1>19, <3>1, <3>3, <4>1 DEF TypeOK, ReaderSound, WorkerGone, Return
    <3> QED BY <3>2, <3>3
  <2>4. (\A r \in Readers : pc'[r] # "recv") => ChannelsEmpty'
    BY <1>0, <1>19 DEF TypeOK, WorkerSound, ReaderSound, InFlight, ChannelsEmpty, WorkerGone, Return
  <2> QED BY <2>1, <2>2, <2>3, <2>4 DEF IInv
<1>20. CASE UNCHANGED vars
  BY <1>0, <1>20 DEF IInv, TypeOK, WorkerSound, ReaderSound, InFlight, ChannelsEmpty
<1>21. CASE Leave
  <2>1. TypeOK'
    BY <1>0, <1>21 DEF TypeOK, WorkerSound, Leave, Exit, WorkerStates, Jobs, NoJob
  <2>2. WorkerSound'
    BY <1>0, <1>21 DEF TypeOK, WorkerSound, ChannelsEmpty, Leave, Exit, NoJob
  <2>3. ASSUME NEW r \in Readers
        PROVE  ReaderSound(r)'
    BY <1>0, <1>21, <2>3 DEF TypeOK, WorkerSound, ReaderSound, InFlight, Leave, Exit, NoJob
  <2>4. (\A r \in Readers : pc'[r] # "recv") => ChannelsEmpty'
    BY <1>0, <1>21 DEF TypeOK, WorkerSound, ChannelsEmpty, Leave, Exit
  <2> QED BY <2>1, <2>2, <2>3, <2>4 DEF IInv
<1> QED BY <1>1, <1>2, <1>3, <1>4, <1>5, <1>6, <1>7, <1>8, <1>9, <1>10, <1>11,
           <1>12, <1>13, <1>14, <1>15, <1>16, <1>17, <1>18, <1>19, <1>20, <1>21
        DEF Next, Owner, Worker, Read, Finished

\* Owner, worker and readers keep to the protocol, in whatever order they run.
THEOREM IInvInvariant == Spec => []IInv
<1>1. Init => IInv
  BY InitIInv
<1>2. IInv /\ [Next]_vars => IInv'
  BY StepIInv
<1> QED BY <1>1, <1>2, PTL DEF Spec

\* Every channel carries only its own kind of message, and every answer only
\* bytes of the image.
THEOREM TypeCorrect == Spec => []TypeOK
<1>1. IInv => TypeOK
  BY DEF IInv
<1> QED BY <1>1, IInvInvariant, PTL

\* At most one request or answer is under way, and none that nobody waits
\* for (read_at holds the mutex from send to receive).
THEOREM ExchangesDoNotMix == Spec => []OneExchange
<1>1. IInv => OneExchange
  <2> SUFFICES ASSUME IInv
               PROVE  OneExchange
    OBVIOUS
  <2>1. \A c : Len(<<c>>) = 1
    OBVIOUS
  <2>2. Len(<< >>) = 0
    OBVIOUS
  <2>3. CASE \E r \in Readers : pc[r] = "recv"
    <3>1. PICK r \in Readers : pc[r] = "recv"
      BY <2>3
    <3>2. InFlight(call[r])
      BY <3>1 DEF IInv, ReaderSound
    <3>3. Outstanding <= 1 /\ (worker # "exited" => Outstanding = 1)
      <4> DEFINE c == call[r]
      <4>1. Len(<<c>>) = 1
        BY <2>1
      <4>2. CASE worker = "serving" /\ req = <<c>> /\ resp = << >>
        BY <2>2, <4>1, <4>2 DEF Outstanding
      <4>3. CASE worker \in {"reading", "answering"} /\ req = << >> /\ resp = << >>
        BY <2>2, <4>3 DEF Outstanding
      <4>4. CASE worker = "serving" /\ req = << >> /\ \E a \in AnswersTo(c) : resp = <<a>>
        <5>1. Len(resp) = 1
          BY <2>1, <4>4
        <5> QED BY <2>2, <4>4, <5>1 DEF Outstanding
      <4>5. CASE worker = "exited" /\ req = << >> /\ resp = << >>
        BY <2>2, <4>5 DEF Outstanding
      <4> QED BY <3>2, <4>2, <4>3, <4>4, <4>5 DEF InFlight
    <3> QED BY <2>3, <3>3 DEF OneExchange
  <2>4. CASE ~\E r \in Readers : pc[r] = "recv"
    <3>1. ChannelsEmpty
      BY <2>4 DEF IInv
    <3> QED BY <2>2, <2>4, <3>1 DEF OneExchange, ChannelsEmpty, Outstanding
  <2> QED BY <2>3, <2>4
<1> QED BY <1>1, IInvInvariant, PTL

\* When open has failed or drop is done, the worker thread is gone.
THEOREM ThreadIsJoined == Spec => []NoThreadLeft
<1>1. IInv => NoThreadLeft
  BY DEF IInv, WorkerSound, NoThreadLeft
<1> QED BY <1>1, IInvInvariant, PTL

-----------------------------------------------------------------------------
(* The source is a PositionedRead: only the last step of a read shows.     *)

LEMMA InitRefines == Init => Source!Quiet
  BY DEF Init, Source!Quiet, NoCall, Source!NoCall

\* What a read returns is a prefix of the bytes at its offset.
LEMMA ReturnRefines ==
    ASSUME IInv, NEW r \in Readers, NEW bytes \in Source!Prefixes(call[r]),
           pc[r] # "out", Return(r, bytes)
    PROVE  Source!End(r)
<1>1. call[r] # NoCall
  BY DEF IInv, ReaderSound, NoCall
<1> QED BY <1>1 DEF Return, Source!End, NoCall, Source!NoCall

LEMMA NextRefines ==
    ASSUME IInv, [Next]_vars
    PROVE  [Source!ReadNext]_<<call, got>>
<1> USE DEF vars, threadVars, channels, readerVars
<1>1. CASE Owner \/ Worker \/ Finished \/ UNCHANGED vars
  BY <1>1 DEF Owner, Worker, Finished, Spawn, Opened, Refused, Disconnected,
              Drop, Join, OpenContainer, Report, Leave, Serve,
              ReadPositioned, Answer, SourceDropped, Panic, Exit
<1>2. ASSUME NEW r \in Readers, Read(r)
      PROVE  [Source!ReadNext]_<<call, got>>
  <2>0. TypeOK /\ ReaderSound(r)
    BY DEF IInv
  <2>1. CASE ReadNothing(r)
    <3>1. call[r] = NoCall /\ Source!EndAtOnce(r)
      BY <2>0, <2>1 DEF ReadNothing, ReaderSound, Source!EndAtOnce, NoCall, Source!NoCall
    <3> QED BY <3>1 DEF Source!ReadNext
  <2>2. CASE ReadAt(r)
    <3>1. PICK c \in Requests : c.len # 0 /\ c.offset < Size
                                /\ call' = [call EXCEPT ![r] = Clipped(c)]
      BY <2>2 DEF ReadAt
    <3>2. Clipped(c) \in [offset: Nat, len: Nat]
      BY <3>1, RequestsAssumption, ClippedFits
    <3>3. call[r] = NoCall /\ call'[r] = Clipped(c) /\ got' = got
      BY <2>0, <2>2, <3>1 DEF TypeOK, ReadAt, ReaderSound
    <3>4. Source!Begin(r)
      BY <3>1, <3>2, <3>3 DEF Source!Begin, Source!Calls, NoCall, Source!NoCall
    <3> QED BY <3>4 DEF Source!ReadNext
  <2>3. CASE Lock(r) \/ Send(r)
    BY <2>3 DEF Lock, Send
  <2>4. CASE Receive(r)
    <3>1. PICK a \in AnswersTo(call[r]) : resp = <<a>>
      BY <2>0, <2>4 DEF ReaderSound, InFlight, Receive
    <3>2. Head(resp) = a
      BY <3>1, SingletonFacts
    <3> DEFINE bytes == IF a.is = "data" THEN a.bytes ELSE {}
    <3>3. call[r] \in [offset: Nat, len: Nat] /\ call[r].offset + call[r].len <= Size
      BY <2>0, <2>4 DEF TypeOK, ReaderSound, Receive
    <3>4. bytes \in Source!Prefixes(call[r])
      <4>1. CASE a = [is |-> "error"]
        BY <4>1 DEF Source!Prefixes
      <4>2. CASE a # [is |-> "error"]
        <5>1. PICK n \in 0..call[r].len :
                 a = [is |-> "data", bytes |-> Bytes(call[r].offset, n)]
          BY <3>1, <4>2 DEF AnswersTo
        <5>2. bytes = Source!Bytes(call[r].offset, n)
          BY <5>1 DEF Bytes, Source!Bytes
        <5>3. call[r].offset + n <= Size
          BY <3>3, <5>1, SizeAssumption
        <5> QED BY <5>1, <5>2, <5>3 DEF Source!Prefixes
      <4> QED BY <4>1, <4>2
    <3>5. Source!End(r)
      BY <2>4, <3>2, <3>4, ReturnRefines DEF Receive
    <3> QED BY <3>5 DEF Source!ReadNext
  <2>5. CASE WorkerGone(r)
    <3>1. {} \in Source!Prefixes(call[r])
      BY DEF Source!Prefixes
    <3>2. Source!End(r)
      BY <2>5, <3>1, ReturnRefines DEF WorkerGone
    <3> QED BY <3>2 DEF Source!ReadNext
  <2> QED BY <1>2, <2>1, <2>2, <2>3, <2>4, <2>5 DEF Read
<1> QED BY <1>1, <1>2 DEF Next

\* ContainerSource keeps the promise of an ImageSource: each read returns a
\* prefix of its own bytes, whatever the readers and the worker do.
THEOREM SourceImplementsPositionedRead == Spec => ImplementsPositionedRead
<1>1. Init => Source!Quiet
  BY InitRefines
<1>2. IInv /\ [Next]_vars => [Source!ReadNext]_<<call, got>>
  BY NextRefines
<1> QED BY <1>1, <1>2, IInvInvariant, PTL
        DEF Spec, ImplementsPositionedRead, Source!ReadSpec
=============================================================================

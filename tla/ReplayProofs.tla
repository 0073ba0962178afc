---------------------------- MODULE ReplayProofs ----------------------------
(***************************************************************************)
(* Restarts of a replay that find the pipeline idle and the last driver    *)
(* gone.  While one worker writes the match, whatever crashes, failed      *)
(* writes, lost leases, commands and deaths of the replay service come     *)
(* between, the match holds only what the new driver has sent, and a       *)
(* replay that finishes leaves it complete.                                *)
(*                                                                         *)
(* The argument: the clearing leaves nothing of the old history but what   *)
(* a worker has in memory, and the reset marker is the first message that  *)
(* worker reads; from that marker on, the writer keeps in step with the    *)
(* durable log as in IngestProofs.                                         *)
(***************************************************************************)
EXTENDS Replay, IngestProofs

AtRest == {"down", "idle", "polling"}

\* The records put on the stream after message k.
Played(k) == {stream[m] : m \in k + 1 .. Len(stream)}

\* The next message the consumer looks at is the k-th, and nothing of its
\* memory is on its way to the store.
Due(c, k) ==
    /\ took[c] = {} /\ fresh[c] = {}
    /\ \/ pc[c] \in AtRest /\ cursor = k - 1
       \/ /\ pc[c] = "applying" /\ batch[c] # <<>> /\ Head(batch[c]) = k
          /\ BatchOrdered(c)

Ready(c) == ConsumerOK(c) /\ InStep(c)

\* The k-th message is the last reset marker, the store holds only records
\* that follow it, and holds those whose message has been acknowledged.
Since(c, k) ==
    /\ k \in 1 .. Len(stream) /\ stream[k] = Reset
    /\ \A m \in k + 1 .. Len(stream) : stream[m] \in Record
    /\ k - 1 <= cursor /\ pending \subseteq k .. cursor
    /\ Due(c, k) \/ Ready(c)
    /\ Flow(c)
    /\ fresh[c] \subseteq Played(k)
    /\ slog \subseteq Played(k)
    /\ state # NoDoc => state \subseteq slog
    /\ \A m \in k + 1 .. cursor : m \in pending \/ stream[m] \in slog

-----------------------------------------------------------------------------
(* The pipeline since the marker. *)

\* Until the marker is read the consumer touches nothing; when it is read, the
\* memory of the old history goes.
LEMMA DueStep ==
    ASSUME NEW c \in Worker, Sole(c), TypeOK, PhasesOK, Next,
           NEW k \in 1 .. Len(stream), stream[k] = Reset, Due(c, k)
    PROVE  Due(c, k)' \/ Ready(c)'
<1>0. /\ c \in Consumer /\ Reclaimer = {} /\ \A d \in Consumer : d = c
      /\ MemoryType /\ PhaseOK(c) /\ cursor \in Nat /\ took[c] = {} /\ fresh[c] = {}
      /\ k \in Nat /\ Len(stream) \in Nat
  BY ConsumersDistinct DEF Consumer, Sole, TypeOK, MemoryType, GroupType, PhasesOK, Due
<1>1. CASE UNCHANGED <<memory, cursor>>
  BY <1>1 DEF memory, Due, BatchOrdered
<1>2. CASE (\E m \in Record : Produce(m)) \/ ExpireDead \/ Lapse
  BY <1>1, <1>2 DEF Produce, ExpireDead, Lapse, groupVars
<1>3. CASE TakeLease(c) \/ NoticeLost(c) \/ GiveBack(c)
  BY <1>1, <1>3 DEF TakeLease, NoticeLost, GiveBack, groupVars
<1>4. CASE Poll(c) \/ ReadNothing(c) \/ Restart(c)
  <2>1. /\ pc[c] \in AtRest /\ pc'[c] \in AtRest /\ UNCHANGED cursor
        /\ took'[c] = {} /\ fresh'[c] = {}
    BY <1>0, <1>4 DEF Poll, ReadNothing, Restart, MemoryType, groupVars, AtRest
  <2> QED
    BY <2>1 DEF Due, AtRest
<1>5. CASE Read(c)
  <2>1. PICK n \in 1 .. BatchSize :
          /\ cursor' = cursor + n
          /\ batch' = [batch EXCEPT ![c] = [i \in 1 .. n |-> cursor + i]]
    BY <1>5 DEF Read
  <2>2. n \in Nat /\ n >= 1
    BY ParametersOK
  <2> DEFINE s == [i \in 1 .. n |-> cursor + i]
  <2>3. /\ s # <<>> /\ Head(s) = cursor + 1 /\ Len(s) = n
        /\ \A i, j \in 1 .. n : i < j => s[i] < s[j]
    BY <1>0, <2>2
  <2>4. /\ batch'[c] = s /\ took'[c] = {} /\ fresh'[c] = {} /\ pc'[c] = "applying"
        /\ pc[c] = "polling"
    BY <1>0, <1>5, <2>1 DEF Read, MemoryType
  <2>5. cursor = k - 1
    BY <2>4 DEF Due
  <2> HIDE DEF s
  <2>6. BatchOrdered(c)'
    BY <2>3, <2>4 DEF BatchOrdered
  <2> QED
    BY <1>0, <2>3, <2>4, <2>5, <2>6 DEF Due
<1>6. CASE ApplyReset(c)
  <2>1. /\ pc[c] = "applying" /\ pc'[c] = "applying" /\ log'[c] = NoLog /\ fresh'[c] = {}
        /\ batch[c] # <<>> /\ Head(batch[c]) = k /\ BatchOrdered(c)
        /\ took'[c] = {k} /\ UNCHANGED stream
        /\ batch' = [batch EXCEPT ![c] = Tail(@)]
    BY <1>0, <1>6 DEF ApplyReset, MemoryType, groupVars, Due, AtRest
  <2>2. BatchOrdered(c)'
    BY <1>0, <2>1, TakeOne
  <2>3. /\ PhaseOK(c)' /\ TakenIsHeld(c)' /\ TakenIsShown(c)' /\ HoldsDurable(c)'
        /\ InStep(c)'
    BY <2>1 DEF PhaseOK, TakenIsHeld, TakenIsShown, HoldsDurable, InStep
  <2> QED
    BY <2>2, <2>3 DEF Ready, ConsumerOK
<1>7. CASE Crash(c) \/ Stop(c)
  <2>1. /\ pc'[c] = "down" /\ batch'[c] = <<>> /\ took'[c] = {} /\ fresh'[c] = {}
        /\ log'[c] = NoLog
    BY <1>0, <1>7 DEF MemoryType, Crash, Stop, Forget
  <2>2. /\ BatchOrdered(c)' /\ PhaseOK(c)' /\ TakenIsHeld(c)' /\ TakenIsShown(c)'
        /\ HoldsDurable(c)' /\ InStep(c)'
    BY <2>1 DEF BatchOrdered, PhaseOK, TakenIsHeld, TakenIsShown, HoldsDurable, InStep
  <2> QED
    BY <2>2 DEF Ready, ConsumerOK
<1>8. ~ (\/ LoadLog(c) \/ LoadDoc(c) \/ ApplyRecord(c) \/ EndOfBatch(c)
         \/ AppendBatch(c) \/ NothingToProject(c) \/ Project(c) \/ PutState(c)
         \/ Conflict(c) \/ PutParts(c) \/ Publish(c) \/ Ack(c) \/ Fault(c))
  <2>1. \/ pc[c] \in AtRest
        \/ pc[c] = "applying" /\ batch[c] # <<>> /\ stream[Head(batch[c])] = Reset
    BY DEF Due
  <2> QED
    BY <2>1 DEF AtRest, LoadLog, LoadDoc, ApplyRecord, EndOfBatch, AppendBatch,
       NothingToProject, Project, PutState, Conflict, PutParts, Publish, Ack, Fault,
       SkipMessage, AppendFails, ProjectFails
<1> QED
  BY <1>0, <1>2, <1>3, <1>4, <1>5, <1>6, <1>7, <1>8 DEF Next, WorkerStep, Handle, Consumer

\* No other marker follows the k-th, so if one is next it is that one.
LEMMA SinceResetFirst ==
    ASSUME NEW c \in Consumer, TypeOK, NEW k, Since(c, k), Ready(c)
    PROVE  ResetFirst(c)
<1> SUFFICES ASSUME batch[c] # <<>>, stream[Head(batch[c])] = Reset PROVE took[c] = {}
  BY DEF ResetFirst
<1>1. /\ batch[c] \in Seq(1 .. cursor) /\ took[c] \subseteq 1 .. cursor
      /\ cursor \in Nat /\ cursor <= Len(stream) /\ Len(stream) \in Nat /\ k \in Nat
  BY DEF TypeOK, MemoryType, GroupType, Since
<1>2. /\ Head(batch[c]) = batch[c][1] /\ Head(batch[c]) \in 1 .. cursor
      /\ 1 \in DOMAIN batch[c] /\ Len(batch[c]) \in Nat \ {0} /\ 1 \in 1 .. Len(batch[c])
  BY <1>1, TailFacts
<1>3. InHand(c) \subseteq k .. cursor
  BY DEF Since, Flow
<1>4. Head(batch[c]) >= k
  BY <1>2, <1>3 DEF InHand
<1>5. Head(batch[c]) = k
  <2>1. Head(batch[c]) \notin k + 1 .. Len(stream)
    BY ValuesDistinct DEF Since
  <2> QED
    BY <1>1, <1>2, <1>4, <2>1
<1>6. \A m \in took[c] : m < k /\ m >= k
  BY <1>1, <1>2, <1>3, <1>5 DEF Ready, ConsumerOK, BatchOrdered, InHand
<1> QED
  BY <1>1, <1>6

LEMMA ReadyStep ==
    ASSUME NEW c \in Consumer, Sole(c), TypeOK, PhasesOK, Next, NEW k, Since(c, k), Ready(c)
    PROVE  Ready(c)'
<1>1. ResetFirst(c)
  BY SinceResetFirst
<1>2. InStep(c)'
  BY <1>1, InStepStep DEF Ready, Sole
<1>3. ConsumerOK(c)'
  BY <1>1, ConsumersStep DEF Ready, Sole
<1> QED
  BY <1>2, <1>3 DEF Ready

\* The stream only grows, and only by records.
LEMMA StreamStep ==
    ASSUME TypeOK, Next
    PROVE  /\ Len(stream) \in Nat /\ Len(stream') \in Nat /\ Len(stream) <= Len(stream')
           /\ \A m \in 1 .. Len(stream) : stream'[m] = stream[m]
           /\ \A m \in Len(stream) + 1 .. Len(stream') : stream'[m] \in Record
<1>0. stream \in Seq(Message) /\ Len(stream) \in Nat
  BY DEF TypeOK, GroupType
<1>1. ASSUME NEW r \in Record, Produce(r)
      PROVE  /\ Len(stream') = Len(stream) + 1
             /\ \A m \in 1 .. Len(stream) : stream'[m] = stream[m]
             /\ stream'[Len(stream) + 1] = r
  BY <1>0, <1>1, AppendFacts DEF Produce, Message
<1>2. ASSUME UNCHANGED stream
      PROVE  /\ Len(stream') \in Nat /\ Len(stream) <= Len(stream')
             /\ \A m \in 1 .. Len(stream) : stream'[m] = stream[m]
             /\ \A m \in Len(stream) + 1 .. Len(stream') : stream'[m] \in Record
  BY <1>0, <1>2
<1>3. CASE UNCHANGED stream
  BY <1>0, <1>2, <1>3
<1>4. CASE \E r \in Record : Produce(r)
  BY <1>0, <1>1, <1>4
<1> QED
  BY <1>3, <1>4, GroupFrame DEF Read, Ack, groupVars

\* A delivery goes on where the last one ended.
LEMMA DeliveryStep ==
    ASSUME TypeOK, Next
    PROVE  /\ cursor \in Nat /\ cursor' \in Nat /\ cursor <= cursor'
           /\ pending' \subseteq pending \cup (cursor + 1 .. cursor')
           /\ \A m \in cursor + 1 .. cursor' : m \in pending'
<1>0. cursor \in Nat
  BY DEF TypeOK, GroupType
<1>1. ASSUME NEW w \in Worker, Read(w)
      PROVE  \E n \in 1 .. BatchSize : /\ cursor' = cursor + n
                                       /\ pending' = pending \cup (cursor + 1 .. cursor + n)
  BY <1>1 DEF Read
<1>2. CASE UNCHANGED cursor /\ pending' \subseteq pending
  BY <1>0, <1>2
<1>3. CASE \E w \in Worker : Read(w)
  <2>1. PICK n \in 1 .. BatchSize :
            cursor' = cursor + n /\ pending' = pending \cup (cursor + 1 .. cursor + n)
    BY <1>1, <1>3
  <2> QED
    BY <1>0, <2>1, ParametersOK
<1> QED
  BY <1>2, <1>3, GroupFrame DEF Produce, Ack, groupVars

\* A consumer's new records are those of its batch.
LEMMA FreshStep ==
    ASSUME NEW c \in Consumer, Sole(c), TypeOK, Next
    PROVE  \/ fresh'[c] \subseteq fresh[c]
           \/ /\ batch[c] # <<>> /\ stream[Head(batch[c])] # Reset
              /\ fresh'[c] \subseteq fresh[c] \cup {stream[Head(batch[c])]}
<1>0. MemoryType /\ \A d \in Consumer : d = c
  BY DEF TypeOK, Sole
<1>1. CASE UNCHANGED memory
  BY <1>1 DEF memory
<1>2. CASE ApplyRecord(c)
  BY <1>0, <1>2 DEF ApplyRecord, MemoryType
<1>3. CASE AppendBatch(c)
  BY <1>0, <1>3 DEF AppendBatch, MemoryType
<1>4. ASSUME NEW k, Abandon(c, k) PROVE fresh'[c] \subseteq fresh[c]
  BY <1>0, <1>4 DEF Abandon, MemoryType
<1>5. CASE Conflict(c) \/ Ack(c) \/ AppendFails(c) \/ ProjectFails(c)
  BY <1>4, <1>5 DEF Conflict, Ack, AppendFails, ProjectFails
<1>6. CASE Crash(c) \/ Stop(c)
  BY <1>0, <1>6 DEF Crash, Stop, Forget, MemoryType
<1>7. CASE \/ Poll(c) \/ Read(c) \/ ReadNothing(c) \/ Claim(c) \/ Restart(c)
           \/ ApplyReset(c) \/ LoadLog(c) \/ LoadDoc(c) \/ SkipMessage(c)
  BY <1>7 DEF Poll, Read, ReadNothing, Claim, Restart, ApplyReset, LoadLog, LoadDoc, SkipMessage
<1>8. CASE \/ EndOfBatch(c) \/ NothingToProject(c) \/ Project(c) \/ PutState(c)
           \/ PutParts(c) \/ Publish(c)
  BY <1>8 DEF EndOfBatch, NothingToProject, Project, PutState, PutParts, Publish
<1> QED
  BY <1>0, <1>1, <1>2, <1>3, <1>5, <1>6, <1>7, <1>8, MemoryFrame DEF Step, Handle, Fault

\* What enters the log was new in the batch, and what enters the document is
\* the log.
LEMMA StoreStep ==
    ASSUME NEW c \in Consumer, Sole(c), Next, PhasesOK,
           pc[c] = "putting" => InStep(c)
    PROVE  /\ slog \subseteq slog' /\ slog' \subseteq slog \cup fresh[c]
           /\ state' \in {state, slog}
<1>0. PhaseOK(c) /\ \A d \in Consumer : d = c
  BY DEF PhasesOK, Sole
<1>1. CASE AppendBatch(c)
  BY <1>1 DEF AppendBatch
<1>2. CASE PutState(c)
  BY <1>0, <1>2 DEF PutState, PhaseOK, InStep
<1>3. CASE PutParts(c) \/ Publish(c) \/ ProjectFails(c) \/ UNCHANGED store
  BY <1>3 DEF PutParts, Publish, ProjectFails, store
<1> QED
  BY <1>0, <1>1, <1>2, <1>3, StoreFrame

LEMMA SinceStep ==
    ASSUME NEW c \in Worker, Sole(c), TypeOK, PhasesOK, Next, NEW k, Since(c, k)
    PROVE  Since(c, k)'
<1>0. /\ c \in Consumer /\ \A d \in Consumer : d = c
      /\ PhaseOK(c) /\ k \in 1 .. Len(stream) /\ k \in Nat
      /\ cursor \in Nat /\ cursor <= Len(stream) /\ pending \subseteq k .. cursor
      /\ Len(stream) \in Nat /\ batch[c] \in Seq(1 .. cursor)
  BY DEF Consumer, Sole, PhasesOK, TypeOK, GroupType, MemoryType, Since
<1>1. /\ k \in 1 .. Len(stream') /\ stream'[k] = Reset
      /\ \A m \in k + 1 .. Len(stream') : stream'[m] \in Record
      /\ Played(k) \subseteq Played(k)'
  <2>1. /\ Len(stream') \in Nat /\ Len(stream) <= Len(stream')
        /\ \A m \in 1 .. Len(stream) : stream'[m] = stream[m]
        /\ \A m \in Len(stream) + 1 .. Len(stream') : stream'[m] \in Record
    BY StreamStep
  <2>2. stream[k] = Reset /\ \A m \in k + 1 .. Len(stream) : stream[m] \in Record
    BY DEF Since
  <2>3. \A m \in k + 1 .. Len(stream) : m \in 1 .. Len(stream)
    BY <1>0
  <2>4. \A m \in k + 1 .. Len(stream') : stream'[m] \in Record
    BY <1>0, <2>1, <2>2, <2>3
  <2>5. Played(k) \subseteq Played(k)'
    BY <1>0, <2>1, <2>3 DEF Played
  <2> QED
    BY <1>0, <2>1, <2>2, <2>4, <2>5
<1>2. k - 1 <= cursor' /\ pending' \subseteq k .. cursor'
  <2>1. /\ k - 1 <= cursor /\ cursor <= cursor' /\ cursor' \in Nat
        /\ pending' \subseteq pending \cup (cursor + 1 .. cursor')
    BY DeliveryStep DEF Since
  <2>2. k .. cursor \subseteq k .. cursor' /\ cursor + 1 .. cursor' \subseteq k .. cursor'
    BY <1>0, <2>1
  <2> QED
    BY <1>0, <2>1, <2>2
<1>3. Due(c, k)' \/ Ready(c)'
  BY <1>0, DueStep, ReadyStep DEF Since
<1>4. pc[c] \in {"appending", "projecting", "putting", "parts", "publishing"} => InStep(c)
  BY DEF Since, Due, Ready, AtRest
<1>5. Flow(c)'
  BY <1>0, <1>4, FlowStep DEF Since
<1>6. fresh'[c] \subseteq Played(k)'
  <2>1. CASE fresh'[c] \subseteq fresh[c]
    BY <1>1, <2>1 DEF Since
  <2>2. CASE /\ batch[c] # <<>> /\ stream[Head(batch[c])] # Reset
             /\ fresh'[c] \subseteq fresh[c] \cup {stream[Head(batch[c])]}
    <3>1. Head(batch[c]) \in 1 .. cursor /\ Head(batch[c]) \in InHand(c)
      <4>1. Head(batch[c]) = batch[c][1] /\ 1 \in DOMAIN batch[c] /\ Head(batch[c]) \in 1 .. cursor
        BY <1>0, <2>2, TailFacts
      <4> QED
        BY <4>1 DEF InHand
    <3>2. Head(batch[c]) \in k + 1 .. Len(stream)
      BY <1>0, <2>2, <3>1 DEF Since, Flow
    <3> QED
      BY <1>1, <2>2, <3>2 DEF Since, Played
  <2> QED
    BY <1>0, <2>1, <2>2, FreshStep
<1>7. /\ slog \subseteq slog' /\ slog' \subseteq Played(k)'
      /\ state' # NoDoc => state' \subseteq slog'
  BY <1>0, <1>1, <1>4, StoreStep DEF Since
<1>8. ASSUME NEW m \in k + 1 .. cursor' PROVE m \in pending' \/ stream'[m] \in slog'
  <2>1. CASE m \in cursor + 1 .. cursor'
    BY <2>1, DeliveryStep
  <2>2. CASE m \in 1 .. cursor
    <3>1. stream'[m] = stream[m] /\ stream[m] \in Record /\ m \in k + 1 .. cursor
      BY <1>0, <2>2, StreamStep DEF Since
    <3>2. CASE m \in pending' \/ stream[m] \in slog
      BY <1>7, <3>1, <3>2
    <3>3. CASE m \in pending /\ m \notin pending'
      <4>1. m \in Acknowledged' /\ m \notin Acknowledged
        BY <1>0, <2>2, <3>3, DeliveryStep DEF Acknowledged
      <4>2. Ack(c) /\ m \in took[c]
        BY <1>0, <4>1, NewlyAcknowledged
      <4>3. pc[c] = "acking" /\ fresh[c] = {} /\ took[c] # {}
        BY <1>0, <4>2 DEF Ack, PhaseOK
      <4>4. TakenIsHeld(c) /\ InStep(c)
        BY <4>3 DEF Since, Due, Ready, ConsumerOK
      <4>5. stream[m] \in slog
        BY <3>1, <4>2, <4>3, <4>4, ValuesDistinct DEF TakenIsHeld, InStep
      <4> QED
        BY <1>7, <3>1, <4>5
    <3> QED
      BY <3>1, <3>2, <3>3 DEF Since
  <2> QED
    BY <1>0, <2>1, <2>2, DeliveryStep
<1> QED
  BY <1>1, <1>2, <1>3, <1>5, <1>6, <1>7, <1>8 DEF Since

-----------------------------------------------------------------------------
(* The drivers. *)

DriverType ==
    /\ stage \in [Driver -> Stage]
    /\ sent \in [Driver -> 0 .. Len(Schedule)]
    /\ current \in Driver
    /\ clean \in BOOLEAN

\* The current driver is between its clearing and its marker, or past it.
Waiting == stage[current] \in {"deleting", "resetting"}
Past == stage[current] \in {"starting", "playing", "ticking", "resting", "done"}

\* Nothing moves until the marker is on the stream.
Still ==
    /\ cursor = Len(stream) /\ pending = {}
    /\ \A c \in Consumer : pc[c] \in AtRest
    /\ slog = {} /\ sent[current] = 0
    /\ stage[current] = "resetting" => state = NoDoc /\ parts = NoDoc

OwnHistory(w) ==
    clean =>
        /\ Waiting \/ Past => Alone
        /\ Waiting => Still
        /\ Past => \E k \in Nat : Since(w, k) /\ Played(k) = SentBy(current)

ReplayInv(w) == TypeOK /\ PhasesOK /\ DriverType /\ OwnHistory(w)

\* Steps of the API, of the control loop and of a driver that touch neither
\* the match nor how much of a schedule has been sent.
Away ==
    \/ Start \/ (\E c \in {"", "pause", "stop"} : Command(c)) \/ Serve
    \/ \E d \in Driver : \/ StartPlaying(d) \/ Tick(d) \/ EndTick(d) \/ StopPlaying(d)
                         \/ Pause(d) \/ Finish(d) \/ StartOver(d)

LEMMA ReplaySteps ==
    ReplayNext <=> \/ Pipeline \/ Away
                   \/ \E d \in Driver : ClearLog(d) \/ DeleteMatch(d) \/ ProduceReset(d) \/ Play(d)
  BY DEF ReplayNext, Away, Drive

LEMMA AwayFrame == Away => UNCHANGED <<vars, clean, sent>>
<1>1. Start \/ (\E c \in {"", "pause", "stop"} : Command(c)) => UNCHANGED <<vars, clean, sent>>
  BY DEF Start, Command
<1>2. Serve => UNCHANGED <<vars, clean, sent>>
  BY DEF Serve, Listen, HearNothing, HearStart, Joined, ServiceRestart
<1>3. ASSUME NEW d \in Driver,
             \/ StartPlaying(d) \/ Tick(d) \/ EndTick(d) \/ StopPlaying(d)
             \/ Pause(d) \/ Finish(d) \/ StartOver(d)
      PROVE  UNCHANGED <<vars, clean, sent>>
  BY <1>3 DEF StartPlaying, Tick, EndTick, StopPlaying, Pause, Finish, StartOver
<1> QED
  BY <1>1, <1>2, <1>3 DEF Away

\* The steps of the pipeline, and a record that is played, are steps of Ingest.
LEMMA PipelineIsNext ==
    Pipeline => Next /\ UNCHANGED <<stage, sent, current, clean, stream>>
<1>1. ASSUME NEW w \in Worker, WorkerStep(w) \/ GiveBack(w) \/ Stop(w) PROVE UNCHANGED stream
  BY <1>1 DEF WorkerStep, TakeLease, NoticeLost, Poll, Read, ReadNothing, GiveBack, Stop, groupVars
<1>2. ExpireDead \/ Lapse => UNCHANGED stream
  BY DEF ExpireDead, Lapse, groupVars
<1>3. ASSUME NEW c \in Reclaimer, Claim(c) PROVE UNCHANGED stream
  BY <1>3 DEF Claim, groupVars
<1>4. ASSUME NEW c \in Consumer, Handle(c) PROVE UNCHANGED stream
  BY <1>4 DEF Handle, ApplyReset, LoadLog, LoadDoc, ApplyRecord, EndOfBatch, AppendBatch,
     NothingToProject, Project, PutState, Conflict, PutParts, Publish, Ack, groupVars
<1>5. ASSUME NEW c \in Consumer, Fault(c) \/ Crash(c) \/ Restart(c) PROVE UNCHANGED stream
  BY <1>5 DEF Fault, SkipMessage, AppendFails, ProjectFails, Crash, Restart, groupVars
<1> QED
  BY <1>1, <1>2, <1>3, <1>4, <1>5 DEF Pipeline, Next, driverVars

LEMMA PlayIsNext ==
    ASSUME DriverType, NEW d \in Driver, Play(d)
    PROVE  Next /\ stream' = Append(stream, Schedule[sent[d] + 1])
                /\ sent[d] + 1 \in 1 .. Len(Schedule)
<1>1. Schedule \in Seq(Record) /\ Len(Schedule) \in Nat /\ sent[d] \in 0 .. Len(Schedule)
  BY ReplayParameters DEF DriverType
<1>2. sent[d] + 1 \in 1 .. Len(Schedule)
  BY <1>1 DEF Play
<1>3. Schedule[sent[d] + 1] \in Record
  BY <1>1, <1>2
<1>4. Produce(Schedule[sent[d] + 1])
  BY DEF Play, Produce, pipelineVars
<1> QED
  BY <1>2, <1>3, <1>4 DEF Next, Play

-----------------------------------------------------------------------------
(* Types, whatever the restarts find. *)

LEMMA MatchTypeStep ==
    TypeOK /\ PhasesOK /\ DriverType /\ ReplayNext => TypeOK' /\ PhasesOK'
<1> SUFFICES ASSUME TypeOK, PhasesOK, DriverType, ReplayNext PROVE TypeOK' /\ PhasesOK'
  OBVIOUS
<1>1. CASE Next
  BY <1>1, TypeStep, PhaseStep
<1>2. CASE Away
  <2>1. UNCHANGED vars
    BY <1>2, AwayFrame
  <2> QED
    BY <2>1 DEF vars, groupVars, leaseVars, memory, store, budget, TypeOK, GroupType, LeaseType,
       MemoryType, StoreType, BudgetType, PhasesOK, PhaseOK
<1>3. ASSUME NEW d \in Driver, ClearLog(d) \/ DeleteMatch(d) PROVE TypeOK' /\ PhasesOK'
  <2>1. /\ UNCHANGED <<stream, pipelineVars, shown, announced>>
        /\ slog' = {} /\ state' \in {state, NoDoc} /\ parts' \in {parts, NoDoc}
    BY <1>3 DEF ClearLog, DeleteMatch
  <2>2. StoreType'
    BY <2>1 DEF TypeOK, StoreType
  <2> QED
    BY <2>1, <2>2 DEF pipelineVars, leaseVars, memory, budget, TypeOK, GroupType, LeaseType,
       MemoryType, BudgetType, PhasesOK, PhaseOK
<1>4. ASSUME NEW d \in Driver, ProduceReset(d) PROVE TypeOK' /\ PhasesOK'
  <2>1. stream' = Append(stream, Reset) /\ UNCHANGED <<store, pipelineVars>>
    BY <1>4 DEF ProduceReset
  <2>2. GroupType'
    <3>1. stream \in Seq(Message) /\ Len(stream) \in Nat /\ Reset \in Message
      BY DEF TypeOK, GroupType, Message
    <3>2. stream' \in Seq(Message) /\ Len(stream') = Len(stream) + 1
      BY <2>1, <3>1, AppendFacts
    <3> QED
      BY <2>1, <3>1, <3>2 DEF TypeOK, GroupType, pipelineVars
  <2> QED
    BY <2>1, <2>2 DEF pipelineVars, leaseVars, memory, budget, store, TypeOK, LeaseType,
       MemoryType, StoreType, BudgetType, PhasesOK, PhaseOK
<1> QED
  BY <1>1, <1>2, <1>3, <1>4, PipelineIsNext, PlayIsNext, ReplaySteps

LEMMA DriverTypeStep == DriverType /\ ReplayNext => DriverType'
<1> SUFFICES ASSUME DriverType, ReplayNext PROVE DriverType'
  OBVIOUS
<1> USE DEF DriverType, Stage
<1>1. CASE Pipeline
  BY <1>1, PipelineIsNext
<1>2. CASE Start \/ (\E c \in {"", "pause", "stop"} : Command(c)) \/ Listen \/ HearNothing
  BY <1>2 DEF Start, Command, Listen, HearNothing
<1>3. CASE HearStart \/ Joined
  BY <1>3 DEF HearStart, Joined, Spawn
<1>4. CASE ServiceRestart
  BY <1>4 DEF ServiceRestart
<1>5. ASSUME NEW d \in Driver, ClearLog(d) PROVE DriverType'
  BY <1>5, ReplayParameters DEF ClearLog, Quiet
<1>6. ASSUME NEW d \in Driver, Play(d) PROVE DriverType'
  <2>1. sent' = [sent EXCEPT ![d] = @ + 1] /\ UNCHANGED <<stage, current, clean>>
    BY <1>6 DEF Play
  <2>2. sent[d] + 1 \in 0 .. Len(Schedule)
    BY <1>6, PlayIsNext
  <2> QED
    BY <2>1, <2>2
<1>7. ASSUME NEW d \in Driver,
             \/ DeleteMatch(d) \/ ProduceReset(d) \/ StartPlaying(d) \/ Tick(d) \/ EndTick(d)
             \/ StopPlaying(d) \/ Pause(d) \/ Finish(d) \/ StartOver(d)
      PROVE  DriverType'
  BY <1>7 DEF DeleteMatch, ProduceReset, StartPlaying, Tick, EndTick, StopPlaying, Pause,
     Finish, StartOver
<1> QED
  BY <1>1, <1>2, <1>3, <1>4, <1>5, <1>6, <1>7 DEF ReplayNext, Serve, Drive

-----------------------------------------------------------------------------
(* Each new history is its driver's own. *)

LEMMA ReplayInvInit ==
    ASSUME NEW w \in Worker, Sole(w), ReplayInit
    PROVE  ReplayInv(w)
<1>0. Init /\ w \in Consumer
  BY DEF ReplayInit, Consumer
<1>1. TypeOK /\ PhasesOK
  BY <1>0, InitIInv DEF IInv, PhasesOK
<1>2. DriverType
  <2>1. Schedule \in Seq(Record) /\ First \in Driver
    BY ReplayParameters
  <2>2. 0 \in 0 .. Len(Schedule)
    BY <2>1
  <2> QED
    BY <2>1, <2>2 DEF ReplayInit, DriverType, Stage
<1>3. /\ current = First /\ stage[current] = "starting" /\ sent[current] = 0
      /\ \A d \in Driver \ {current} : stage[d] = "unborn"
  BY ReplayParameters DEF ReplayInit
<1>4. Since(w, 1)
  <2>1. /\ stream = <<Reset>> /\ Len(stream) = 1 /\ stream[1] = Reset /\ cursor = 0
        /\ pending = {} /\ slog = {} /\ state = NoDoc
    BY <1>0 DEF Init
  <2>2. Due(w, 1) /\ fresh[w] = {}
    BY <1>0 DEF Init, Due, AtRest
  <2>3. Flow(w)
    BY <1>0, InitFlow
  <2> QED
    BY <2>1, <2>2, <2>3 DEF Since
<1>5. Played(1) = {} /\ SentBy(current) = {}
  BY <1>0, <1>3 DEF Init, Played, SentBy
<1>6. OwnHistory(w)
  BY <1>3, <1>4, <1>5 DEF OwnHistory, Waiting, Past, Alone, Alive
<1> QED
  BY <1>1, <1>2, <1>6 DEF ReplayInv

\* While the marker is to come the pipeline has nothing to do.
LEMMA StillStep ==
    ASSUME NEW w \in Worker, Sole(w), TypeOK, Still, Pipeline
    PROVE  Still'
<1>0. /\ w \in Consumer /\ Reclaimer = {} /\ \A c \in Consumer : c = w
      /\ MemoryType /\ pc[w] \in AtRest /\ cursor \in Nat /\ Len(stream) \in Nat
  BY ConsumersDistinct DEF Consumer, Sole, TypeOK, GroupType, Still
<1>1. UNCHANGED <<stage, sent, current>>
  BY <1>0, PipelineIsNext
<1>2. ASSUME NEW c \in Consumer PROVE ~ (Handle(c) \/ Fault(c))
  BY <1>0, <1>2 DEF AtRest, Handle, ApplyReset, LoadLog, LoadDoc, ApplyRecord, EndOfBatch,
     AppendBatch, NothingToProject, Project, PutState, Conflict, PutParts, Publish, Ack,
     Fault, SkipMessage, AppendFails, ProjectFails
<1>3. ~ Read(w)
  <2>1. cursor = Len(stream)
    BY DEF Still
  <2>2. ASSUME NEW n \in 1 .. BatchSize PROVE ~ (cursor + n <= Len(stream))
    BY <1>0, <2>1, ParametersOK
  <2> QED
    BY <2>2 DEF Read
<1>4. CASE TakeLease(w) \/ NoticeLost(w) \/ GiveBack(w) \/ ExpireDead \/ Lapse
  BY <1>1, <1>4 DEF TakeLease, NoticeLost, GiveBack, ExpireDead, Lapse, groupVars, memory, store, Still
<1>5. CASE Poll(w) \/ ReadNothing(w) \/ Stop(w) \/ Crash(w) \/ Restart(w)
  <2>1. pc'[w] \in AtRest /\ UNCHANGED <<groupVars, store>>
    BY <1>0, <1>5 DEF Poll, ReadNothing, Stop, Crash, Restart, MemoryType, AtRest
  <2> QED
    BY <1>0, <1>1, <2>1 DEF groupVars, store, Still
<1> QED
  BY <1>0, <1>2, <1>3, <1>4, <1>5 DEF Pipeline, WorkerStep, Consumer

\* Where the current driver plays on after a step of somebody else's, it is
\* still the only one, and the match is at the same point of its history.
LEMMA AwayStep ==
    ASSUME DriverType, Away, Waiting \/ Past => Alone, (Waiting \/ Past)'
    PROVE  /\ current' = current /\ Alone'
           /\ Waiting' => stage'[current] = stage[current]
           /\ Past' => Past
<1> USE DEF Waiting, Past, Alone, DriverType
<1>1. CASE \/ Start \/ (\E c \in {"", "pause", "stop"} : Command(c)) \/ Listen \/ HearNothing
           \/ \E d \in Driver : Pause(d)
  <2>1. UNCHANGED <<stage, current>>
    BY <1>1 DEF Start, Command, Listen, HearNothing, Pause
  <2> QED
    BY <2>1 DEF Alive
<1>2. CASE HearStart \/ Joined
  <2>1. CASE UNCHANGED <<stage, current>>
    BY <2>1 DEF Alive
  <2>2. ASSUME NEW d \in Driver, Spawn(d) PROVE FALSE
    <3>1. stage'[current'] = "clearing"
      BY <2>2 DEF Spawn
    <3> QED
      BY <3>1
  <2> QED
    BY <1>2, <2>1, <2>2 DEF HearStart, Joined
<1>3. CASE ServiceRestart
  <2> DEFINE survivor == [d \in Driver |-> IF Alive(d) THEN "killed" ELSE stage[d]]
  <2>1. CASE stage' = survivor /\ UNCHANGED current
    <3>1. stage'[current] = stage[current] /\ \A d \in Driver : stage'[d] \in {"unborn", "done", "killed"}
      BY <2>1 DEF Alive
    <3> QED
      BY <2>1, <3>1 DEF Alive
  <2>2. ASSUME NEW d \in Driver, stage' = [survivor EXCEPT ![d] = "clearing"], current' = d
        PROVE  FALSE
    <3>1. stage'[current'] = "clearing"
      BY <2>2
    <3> QED
      BY <3>1
  <2> QED
    BY <1>3, <2>1, <2>2 DEF ServiceRestart
<1>4. ASSUME NEW d \in Driver,
             StartPlaying(d) \/ Tick(d) \/ EndTick(d) \/ StopPlaying(d) \/ Finish(d) \/ StartOver(d)
      PROVE  /\ current' = current /\ Alone'
             /\ Waiting' => stage'[current] = stage[current]
             /\ Past' => Past
  <2>1. /\ current' = current /\ stage[d] \in {"starting", "playing", "ticking", "resting"}
        /\ stage' = [stage EXCEPT ![d] = stage'[d]]
        /\ stage'[d] \in {"playing", "ticking", "done", "resting", "clearing"}
    BY <1>4 DEF StartPlaying, Tick, EndTick, StopPlaying, Finish, StartOver, Unfinished
  <2>2. CASE d = current
    BY <2>1, <2>2 DEF Alive
  <2>3. CASE d # current
    BY <2>1, <2>3 DEF Alive
  <2> QED
    BY <2>2, <2>3
<1> QED
  BY <1>1, <1>2, <1>3, <1>4 DEF Away, Serve

\* A driver that clears, deletes or marks while the history is the current
\* driver's own is that driver.
LEMMA OnlyTheCurrentDrives ==
    ASSUME NEW d \in Driver, Alone, Alive(d)
    PROVE  d = current
  BY DEF Alone

LEMMA ClearingStep ==
    ASSUME NEW w \in Worker, NEW d \in Driver, ReplayInv(w), ClearLog(d)
    PROVE  OwnHistory(w)'
<1> SUFFICES ASSUME clean'
             PROVE  /\ (Waiting \/ Past)' => Alone'
                    /\ Waiting' => Still'
                    /\ Past' => \E k \in Nat : Since(w, k)' /\ (Played(k) = SentBy(current))'
  BY DEF OwnHistory
<1>1. /\ clean /\ Quiet(d) /\ current' = current /\ slog' = {} /\ Alive(d)
      /\ stage' = [stage EXCEPT ![d] = "deleting"]
      /\ sent' = [sent EXCEPT ![d] = 0] /\ UNCHANGED <<stream, pipelineVars>>
  BY DEF ClearLog, ReplayInv, DriverType, Alive
<1>2. CASE d = current
  <2>1. stage'[current] = "deleting" /\ sent'[current] = 0
    BY <1>1, <1>2 DEF ReplayInv, DriverType
  <2>2. Alone'
    BY <1>1, <1>2 DEF Quiet, Alone, Alive, ReplayInv, DriverType
  <2>3. Still'
    BY <1>1, <2>1 DEF Quiet, Settled, Still, AtRest, pipelineVars, memory
  <2> QED
    BY <1>1, <2>1, <2>2, <2>3 DEF Waiting, Past
<1>3. CASE d # current
  <2>1. ~ Alone
    BY <1>1, <1>3 DEF Alone
  <2>2. ~ Waiting /\ ~ Past
    BY <1>1, <2>1 DEF ReplayInv, OwnHistory
  <2> QED
    BY <1>1, <1>3, <2>2 DEF Waiting, Past, ReplayInv, DriverType
<1> QED
  BY <1>2, <1>3

LEMMA DeletingStep ==
    ASSUME NEW w \in Worker, NEW d \in Driver, ReplayInv(w), DeleteMatch(d)
    PROVE  OwnHistory(w)'
<1>1. /\ clean' = clean /\ current' = current /\ slog' = {} /\ state' = NoDoc /\ parts' = NoDoc
      /\ Alive(d) /\ stage[d] = "deleting" /\ stage' = [stage EXCEPT ![d] = "resetting"]
      /\ sent' = sent /\ UNCHANGED <<stream, pipelineVars>>
  BY DEF DeleteMatch, Alive
<1> SUFFICES ASSUME clean
             PROVE  /\ (Waiting \/ Past)' => Alone'
                    /\ Waiting' => Still'
                    /\ Past' => \E k \in Nat : Since(w, k)' /\ (Played(k) = SentBy(current))'
  BY <1>1 DEF OwnHistory
<1>2. CASE d = current
  <2>1. Waiting /\ stage'[current] = "resetting"
    BY <1>1, <1>2 DEF Waiting, ReplayInv, DriverType
  <2>2. Alone /\ Still
    BY <2>1 DEF ReplayInv, OwnHistory
  <2>3. Alone'
    BY <1>1, <1>2, <2>2 DEF Alone, Alive, ReplayInv, DriverType
  <2>4. Still'
    BY <1>1, <2>2 DEF Still, pipelineVars, memory
  <2> QED
    BY <1>1, <2>1, <2>3, <2>4 DEF Waiting, Past
<1>3. CASE d # current
  <2>1. ~ Waiting /\ ~ Past
    BY <1>1, <1>3 DEF Alone, ReplayInv, OwnHistory
  <2> QED
    BY <1>1, <1>3, <2>1 DEF Waiting, Past, ReplayInv, DriverType
<1> QED
  BY <1>2, <1>3

\* The marker: nothing is before it that has not been acknowledged, and
\* whatever the worker remembers it is about to forget.
LEMMA MarkingStep ==
    ASSUME NEW w \in Worker, Sole(w), NEW d \in Driver, ReplayInv(w), ProduceReset(d)
    PROVE  OwnHistory(w)'
<1>1. /\ clean' = clean /\ current' = current /\ UNCHANGED <<store, pipelineVars>>
      /\ Alive(d) /\ stage[d] = "resetting" /\ stage' = [stage EXCEPT ![d] = "starting"]
      /\ sent' = sent /\ stream' = Append(stream, Reset)
  BY DEF ProduceReset, Alive
<1> SUFFICES ASSUME clean
             PROVE  /\ (Waiting \/ Past)' => Alone'
                    /\ Waiting' => Still'
                    /\ Past' => \E k \in Nat : Since(w, k)' /\ (Played(k) = SentBy(current))'
  BY <1>1 DEF OwnHistory
<1>2. CASE d = current
  <2>1. Waiting /\ stage'[current] = "starting"
    BY <1>1, <1>2 DEF Waiting, ReplayInv, DriverType
  <2>2. Alone /\ Still /\ state = NoDoc /\ parts = NoDoc
    BY <1>1, <1>2, <2>1 DEF ReplayInv, OwnHistory, Still
  <2>3. Alone'
    BY <1>1, <1>2, <2>2 DEF Alone, Alive, ReplayInv, DriverType
  <2>4. PICK k \in Nat : k = Len(stream) + 1 /\ Len(stream') = k /\ stream'[k] = Reset
    <3>1. stream \in Seq(Message) /\ Len(stream) \in Nat /\ Reset \in Message
      BY DEF ReplayInv, TypeOK, GroupType, Message
    <3> QED
      BY <1>1, <3>1, AppendFacts
  <2>5. /\ cursor' = k - 1 /\ pending' = {} /\ slog' = {} /\ state' = NoDoc /\ parts' = NoDoc
        /\ pc'[w] \in AtRest /\ batch'[w] = <<>> /\ took'[w] = {} /\ fresh'[w] = {}
    <3>1. w \in Consumer /\ PhaseOK(w) /\ pc[w] \in AtRest
      BY <2>2 DEF Consumer, ReplayInv, PhasesOK, Still
    <3> QED
      BY <1>1, <2>2, <2>4, <3>1 DEF pipelineVars, memory, store, Still, PhaseOK, AtRest
  <2>6. Due(w, k)'
    BY <2>5 DEF Due
  <2>7. Flow(w)'
    <3>1. InHand(w)' = {}
      BY <2>5 DEF InHand
    <3> QED
      BY <2>5, <3>1 DEF Flow, Complete, AtRest
  <2>8. Since(w, k)'
    BY <2>4, <2>5, <2>6, <2>7 DEF Since
  <2>9. Played(k)' = {} /\ SentBy(current)' = {}
    <3>1. sent'[current'] = 0
      BY <1>1, <2>2 DEF Still
    <3> QED
      BY <2>4, <3>1 DEF Played, SentBy
  <2> QED
    BY <1>1, <2>1, <2>3, <2>4, <2>8, <2>9 DEF Waiting, Past
<1>3. CASE d # current
  <2>1. ~ Waiting /\ ~ Past
    BY <1>1, <1>3 DEF Alone, ReplayInv, OwnHistory
  <2> QED
    BY <1>1, <1>3, <2>1 DEF Waiting, Past, ReplayInv, DriverType
<1> QED
  BY <1>2, <1>3

LEMMA SameSince ==
    ASSUME NEW w, NEW k, UNCHANGED vars
    PROVE  Since(w, k)' = Since(w, k) /\ Played(k)' = Played(k)
  BY DEF vars, groupVars, memory, store, Since, Played, Due, Ready, Flow, InHand, Complete, InStep,
     ConsumerOK, BatchOrdered, PhaseOK, TakenIsHeld, TakenIsShown, HoldsDurable

LEMMA PlayingStep ==
    ASSUME NEW w \in Worker, Sole(w), NEW d \in Driver, ReplayInv(w), Play(d)
    PROVE  OwnHistory(w)'
<1> DEFINE r == Schedule[sent[d] + 1]
<1>1. /\ UNCHANGED <<clean, current, stage>> /\ stage[d] = "ticking" /\ Alive(d)
      /\ sent' = [sent EXCEPT ![d] = @ + 1] /\ stream' = Append(stream, r)
      /\ Next
  BY PlayIsNext DEF Play, Alive, ReplayInv
<1>2. Waiting' = Waiting /\ Past' = Past /\ Alone' = Alone
  BY <1>1 DEF Waiting, Past, Alone, Alive
<1> SUFFICES ASSUME clean, Waiting \/ Past
             PROVE  /\ Alone' /\ (Waiting' => Still')
                    /\ Past' => \E k \in Nat : Since(w, k)' /\ (Played(k) = SentBy(current))'
  BY <1>1, <1>2 DEF OwnHistory
<1>3. Alone /\ d = current /\ ~ Waiting
  BY <1>1, OnlyTheCurrentDrives DEF ReplayInv, OwnHistory, Waiting
<1>4. PICK k \in Nat : Since(w, k) /\ Played(k) = SentBy(current)
  BY <1>3 DEF ReplayInv, OwnHistory
<1>5. Since(w, k)'
  BY <1>1, <1>4, SinceStep DEF ReplayInv
<1>6. Played(k)' = Played(k) \cup {r}
  <2>1. stream \in Seq(Message) /\ Len(stream) \in Nat /\ k \in 1 .. Len(stream)
    BY <1>4 DEF ReplayInv, TypeOK, GroupType, Since
  <2>2. r \in Message
    <3>1. Schedule \in Seq(Record) /\ sent[d] + 1 \in 1 .. Len(Schedule)
      BY PlayIsNext, ReplayParameters DEF ReplayInv
    <3> QED
      BY <3>1 DEF Message
  <2>3. /\ Len(stream') = Len(stream) + 1 /\ stream'[Len(stream) + 1] = r
        /\ \A i \in 1 .. Len(stream) : stream'[i] = stream[i]
    BY <1>1, <2>1, <2>2, AppendFacts
  <2> DEFINE n == Len(stream)
  <2> HIDE DEF r
  <2>4. k + 1 .. n + 1 = (k + 1 .. n) \cup {n + 1}
    BY <2>1
  <2>5. \A m \in k + 1 .. n : stream'[m] = stream[m]
    BY <2>1, <2>3
  <2> QED
    BY <2>1, <2>3, <2>4, <2>5 DEF Played
<1>7. SentBy(current)' = SentBy(current) \cup {r}
  <2>1. sent[d] + 1 \in 1 .. Len(Schedule) /\ sent[d] \in Nat /\ sent'[current'] = sent[d] + 1
    BY <1>1, <1>3, PlayIsNext DEF ReplayInv, DriverType
  <2>2. 1 .. sent[d] + 1 = (1 .. sent[d]) \cup {sent[d] + 1}
    BY <2>1
  <2> QED
    BY <1>3, <2>1, <2>2 DEF SentBy
<1> QED
  BY <1>2, <1>3, <1>4, <1>5, <1>6, <1>7

LEMMA PipelineStep ==
    ASSUME NEW w \in Worker, Sole(w), ReplayInv(w), Pipeline
    PROVE  OwnHistory(w)'
<1>1. Next /\ UNCHANGED <<stage, sent, current, clean, stream>>
  BY PipelineIsNext
<1>2. /\ Waiting' = Waiting /\ Past' = Past /\ Alone' = Alone
      /\ SentBy(current)' = SentBy(current)
  BY <1>1 DEF Waiting, Past, Alone, Alive, SentBy
<1>3. \A k : Played(k)' = Played(k)
  BY <1>1 DEF Played
<1>4. Still => Still'
  BY StillStep DEF ReplayInv
<1>5. \A k : Since(w, k) => Since(w, k)'
  BY <1>1, SinceStep DEF ReplayInv
<1> QED
  BY <1>1, <1>2, <1>3, <1>4, <1>5 DEF ReplayInv, OwnHistory

LEMMA AwayHistory ==
    ASSUME NEW w \in Worker, ReplayInv(w), Away
    PROVE  OwnHistory(w)'
<1>1. UNCHANGED vars /\ UNCHANGED <<clean, sent>>
  BY AwayFrame
<1> SUFFICES ASSUME clean, (Waiting \/ Past)'
             PROVE  /\ Alone' /\ (Waiting' => Still')
                    /\ Past' => \E k \in Nat : Since(w, k)' /\ (Played(k) = SentBy(current))'
  BY <1>1 DEF OwnHistory
<1>2. /\ current' = current /\ Alone'
      /\ Waiting' => stage'[current] = stage[current]
      /\ Past' => Past
  BY AwayStep DEF ReplayInv, OwnHistory
<1>3. SentBy(current)' = SentBy(current)
  BY <1>1, <1>2 DEF SentBy
<1>4. ASSUME Waiting' PROVE Still'
  <2>1. Waiting /\ Still
    BY <1>2, <1>4 DEF Waiting, ReplayInv, OwnHistory
  <2> QED
    BY <1>1, <1>2, <1>4, <2>1 DEF Still, vars, groupVars, memory, store
<1>5. ASSUME Past' PROVE \E k \in Nat : Since(w, k)' /\ (Played(k) = SentBy(current))'
  <2>1. PICK k \in Nat : Since(w, k) /\ Played(k) = SentBy(current)
    BY <1>2, <1>5 DEF ReplayInv, OwnHistory
  <2> QED
    BY <1>1, <1>3, <2>1, SameSince
<1> QED
  BY <1>2, <1>4, <1>5

LEMMA ReplayInvStep ==
    ASSUME NEW w \in Worker, Sole(w), ReplayInv(w), [ReplayNext]_replayVars
    PROVE  ReplayInv(w)'
<1>1. CASE ReplayNext
  <2>1. TypeOK' /\ PhasesOK' /\ DriverType'
    BY <1>1, MatchTypeStep, DriverTypeStep DEF ReplayInv
  <2>2. OwnHistory(w)'
    BY <1>1, ReplaySteps, PipelineStep, AwayHistory, ClearingStep, DeletingStep, MarkingStep,
       PlayingStep
  <2> QED
    BY <2>1, <2>2 DEF ReplayInv
<1>2. CASE UNCHANGED replayVars
  <2>1. UNCHANGED vars /\ UNCHANGED <<stage, sent, current, clean>>
    BY <1>2 DEF replayVars, driverVars
  <2>2. TypeOK' /\ PhasesOK' /\ DriverType'
    BY <2>1 DEF vars, groupVars, leaseVars, memory, store, budget, TypeOK, GroupType, LeaseType,
       MemoryType, StoreType, BudgetType, PhasesOK, PhaseOK, DriverType, ReplayInv
  <2>3. /\ Waiting' = Waiting /\ Past' = Past /\ Alone' = Alone /\ Still' = Still
        /\ SentBy(current)' = SentBy(current)
    BY <2>1 DEF Waiting, Past, Alone, Alive, Still, SentBy, vars, groupVars, memory, store
  <2>4. OwnHistory(w)'
    BY <2>1, <2>3, SameSince DEF ReplayInv, OwnHistory
  <2> QED
    BY <2>2, <2>4 DEF ReplayInv
<1> QED
  BY <1>1, <1>2

LEMMA ReplayInvariant ==
    ASSUME NEW w \in Worker, Sole(w)
    PROVE  ReplaySpec => []ReplayInv(w)
<1>1. ReplayInit => ReplayInv(w)
  BY ReplayInvInit
<1>2. ReplayInv(w) /\ [ReplayNext]_replayVars => ReplayInv(w)'
  BY ReplayInvStep
<1> QED
  BY <1>1, <1>2, PTL DEF ReplaySpec

\* A replay that was started while nothing of an old one was under way has
\* only records of its own in the log and in the document, whatever crashes,
\* lost leases and failed writes follow, and however it is commanded: no
\* memory of the old history outlives the reset marker (driver.py, _prepare).
THEOREM CleanRestartsAreOwn ==
    ASSUME NEW w \in Worker, Sole(w)
    PROVE  ReplaySpec => []CleanRestartIsOwn
<1>1. ReplayInv(w) => CleanRestartIsOwn
  <2> SUFFICES ASSUME ReplayInv(w), clean, Alone,
                      stage[current] \notin {"unborn", "clearing", "deleting", "killed"}
               PROVE  Recorded \subseteq SentBy(current)
    BY DEF CleanRestartIsOwn, HistoryIsOwn
  <2>1. stage[current] = "resetting" \/ Past
    BY DEF ReplayInv, DriverType, Stage, Past
  <2>2. CASE stage[current] = "resetting"
    BY <2>2 DEF ReplayInv, OwnHistory, Waiting, Still, Recorded
  <2>3. CASE Past
    <3>1. PICK k \in Nat : Since(w, k) /\ Played(k) = SentBy(current)
      BY <2>3 DEF ReplayInv, OwnHistory
    <3> QED
      BY <3>1 DEF Since, Recorded
  <2> QED
    BY <2>1, <2>2, <2>3
<1> QED
  BY <1>1, ReplayInvariant, PTL

\* And when it has finished and the pipeline is idle again, the log holds all
\* of the schedule, and both halves of the document all of the log: no record
\* was taken for one of the old history and dropped.  _prepare has registered
\* the match (driver.py 111), so LiveMeta is what holds in a replay.
THEOREM CleanReplaysAreComplete ==
    ASSUME NEW w \in Worker, Sole(w), LiveMeta
    PROVE  ReplaySpec => []CleanReplayIsComplete
<1>1. ReplayInv(w) => CleanReplayIsComplete
  <2> SUFFICES ASSUME ReplayInv(w), clean, Quiet(current), stage[current] \in {"resting", "done"}
               PROVE  /\ slog = SentBy(current)
                      /\ slog \cap Event # {} => state = slog /\ parts = slog
    BY DEF CleanReplayIsComplete
  <2>1. PICK k \in Nat : Since(w, k) /\ Played(k) = SentBy(current)
    BY DEF ReplayInv, OwnHistory, Past
  <2>2. pending = {} /\ cursor = Len(stream) /\ w \in Consumer /\ pc[w] \in {"idle", "polling", "down"}
    BY DEF Quiet, Settled, Consumer
  <2>3. slog = Played(k)
    BY <2>1, <2>2 DEF Since, Played
  <2>4. slog \cap Event # {} => state = slog /\ parts = slog
    BY <2>1, <2>2 DEF Since, Flow, Complete
  <2> QED
    BY <2>1, <2>3, <2>4
<1> QED
  BY <1>1, ReplayInvariant, PTL

=============================================================================

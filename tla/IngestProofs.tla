---------------------------- MODULE IngestProofs ----------------------------
(***************************************************************************)
(* Theorems about Ingest, for any sets of events, corrections and workers  *)
(* and any bounds.                                                         *)
(***************************************************************************)
EXTENDS Ingest, FiniteSetTheorems, TLAPS

\* A reset marker opens the stream and there is no other one.
OneReset == \A m \in 1 .. Len(stream) : stream[m] = Reset => m = 1

\* A batch is in stream order and comes after what was taken of it.
BatchOrdered(c) ==
    /\ \A i, j \in 1 .. Len(batch[c]) : i < j => batch[c][i] < batch[c][j]
    /\ \A m \in took[c] : \A i \in 1 .. Len(batch[c]) : m < batch[c][i]

\* Where the processing loop is tells what it holds.
PhaseOK(c) ==
    /\ pc[c] \in {"down", "idle", "polling"} => batch[c] = <<>> /\ took[c] = {} /\ fresh[c] = {}
    /\ pc[c] = "loading" => batch[c] # <<>> /\ log[c] # NoLog
    /\ pc[c] \in {"putting", "parts", "publishing"} => log[c] # NoLog
    /\ pc[c] \in {"projecting", "putting", "parts", "publishing", "acking"} => fresh[c] = {}

\* A reset marker comes first in its batch, if there is one.
ResetFirst(c) == batch[c] # <<>> /\ stream[Head(batch[c])] = Reset => took[c] = {}

\* What the batch has applied so far is in the log in memory.
TakenIsHeld(c) ==
    \A m \in took[c] : stream[m] # Reset =>
        log[c] # NoLog /\ stream[m] \in log[c] /\ pc[c] # "loading"

\* From the STATE write on, the batch's events have been in a STATE item.
TakenIsShown(c) ==
    LiveMeta /\ pc[c] \in {"parts", "publishing", "acking"} =>
        \A m \in took[c] : stream[m] \in Event => stream[m] \in shown

IInv ==
    /\ TypeOK
    /\ OneReset
    /\ \A c \in Consumer : /\ BatchOrdered(c)
                           /\ PhaseOK(c)
                           /\ TakenIsHeld(c)
                           /\ TakenIsShown(c)
    /\ MemoryIsBacked
    /\ DocumentIsBacked
    /\ AckedIsDurable
    /\ AckedIsProjected

-----------------------------------------------------------------------------
(* Sequences. *)

LEMMA TailFacts ==
    ASSUME NEW S, NEW s \in Seq(S), s # <<>>
    PROVE  /\ Head(s) \in S
           /\ Head(s) = s[1]
           /\ Tail(s) \in Seq(S)
           /\ Len(s) \in Nat \ {0}
           /\ Len(Tail(s)) = Len(s) - 1
           /\ \A i \in 1 .. Len(Tail(s)) : Tail(s)[i] = s[i + 1]
  OBVIOUS

LEMMA AppendFacts ==
    ASSUME NEW S, NEW s \in Seq(S), NEW e \in S
    PROVE  /\ Append(s, e) \in Seq(S)
           /\ Len(Append(s, e)) = Len(s) + 1
           /\ \A i \in 1 .. Len(s) : Append(s, e)[i] = s[i]
           /\ Append(s, e)[Len(s) + 1] = e
  OBVIOUS

LEMMA SeqOfLarger ==
    ASSUME NEW S, NEW T, S \subseteq T, NEW s \in Seq(S)
    PROVE  s \in Seq(T)
  OBVIOUS

-----------------------------------------------------------------------------
(* The initial state. *)

LEMMA InitIInv == Init => IInv
<1> SUFFICES ASSUME Init PROVE IInv
  OBVIOUS
<1>1. TypeOK
  <2>1. GroupType
    <3>1. <<Reset>> \in Seq(Message) /\ Len(<<Reset>>) = 1
      BY DEF Message
    <3> QED
      BY <3>1 DEF Init, GroupType
  <2>2. LeaseType
    BY DEF Init, LeaseType
  <2>3. MemoryType
    BY DEF Init, MemoryType, PC, NoVersion
  <2>4. StoreType /\ BudgetType
    BY ParametersOK DEF Init, StoreType, BudgetType
  <2> QED
    BY <2>1, <2>2, <2>3, <2>4 DEF TypeOK
<1>2. OneReset
  BY DEF Init, OneReset
<1>3. \A c \in Consumer : BatchOrdered(c) /\ PhaseOK(c) /\ TakenIsHeld(c) /\ TakenIsShown(c)
  BY DEF Init, BatchOrdered, PhaseOK, TakenIsHeld, TakenIsShown
<1>4. MemoryIsBacked /\ DocumentIsBacked
  BY DEF Init, MemoryIsBacked, DocumentIsBacked
<1>5. AckedIsDurable /\ AckedIsProjected
  BY DEF Init, AckedIsDurable, AckedIsProjected, Acknowledged
<1> QED
  BY <1>1, <1>2, <1>3, <1>4, <1>5 DEF IInv

-----------------------------------------------------------------------------
(* Types. *)

\* The batch a claim hands over: pending messages, in stream order.
LEMMA ClaimedBatch ==
    ASSUME NEW c, Claim(c)
    PROVE  \E ids \in Seq(pending) :
               /\ \A i, j \in 1 .. Len(ids) : i < j => ids[i] < ids[j]
               /\ batch' = [batch EXCEPT ![c] = ids]
<1> DEFINE idle == IF SlowBatch THEN pending ELSE pending \ Busy
<1>1. PICK n \in 1 .. Cardinality(idle) : \E ids \in [1 .. n -> idle] :
          /\ \A i, j \in 1 .. n : i < j => ids[i] < ids[j]
          /\ batch' = [batch EXCEPT ![c] = ids]
  BY DEF Claim
<1>2. PICK ids \in [1 .. n -> idle] :
          /\ \A i, j \in 1 .. n : i < j => ids[i] < ids[j]
          /\ batch' = [batch EXCEPT ![c] = ids]
  BY <1>1
<1>3. n \in Nat /\ idle \subseteq pending
  OBVIOUS
<1>4. ids \in Seq(pending) /\ Len(ids) = n
  BY <1>2, <1>3
<1> QED
  BY <1>2, <1>4

\* A document's version is a number.
LEMMA VersionType == \A d \in (SUBSET Record) \cup {NoDoc} : Version(d) \in Int
<1>1. IsFiniteSet(Record)
  BY FiniteRecords, FS_Union DEF Record
<1>2. \A d \in SUBSET Record : Cardinality(d) \in Nat
  BY <1>1, FS_Subset, FS_CardinalityType
<1>3. ASSUME NEW d \in (SUBSET Record) \cup {NoDoc}, d # NoDoc PROVE Version(d) \in Int
  BY <1>2, <1>3 DEF Version
<1>4. Version(NoDoc) \in Int
  BY DEF Version, NoVersion
<1> QED
  BY <1>3, <1>4

\* What each part of the state is changed by.
LEMMA GroupFrame ==
    Next => \/ \E m \in Record : Produce(m)
            \/ \E w \in Worker : Read(w)
            \/ \E c \in Consumer : Ack(c)
            \/ UNCHANGED groupVars
<1> SUFFICES ASSUME Next,
                    ~ \E m \in Record : Produce(m),
                    ~ \E w \in Worker : Read(w),
                    ~ \E c \in Consumer : Ack(c)
             PROVE  UNCHANGED groupVars
  OBVIOUS
<1>1. ASSUME NEW w \in Worker, WorkerStep(w) \/ GiveBack(w) \/ Stop(w)
      PROVE  UNCHANGED groupVars
  BY <1>1 DEF WorkerStep, TakeLease, NoticeLost, Poll, ReadNothing, GiveBack, Stop
<1>2. ExpireDead \/ Lapse => UNCHANGED groupVars
  BY DEF ExpireDead, Lapse
<1>3. ASSUME NEW c \in Reclaimer, Claim(c) PROVE UNCHANGED groupVars
  BY <1>3 DEF Claim
<1>4. ASSUME NEW c \in Consumer, Handle(c) PROVE UNCHANGED groupVars
  BY <1>4 DEF Handle, ApplyReset, LoadLog, LoadDoc, ApplyRecord, EndOfBatch,
     AppendBatch, NothingToProject, Project, PutState, Conflict, PutParts, Publish
<1>5. ASSUME NEW c \in Consumer, Fault(c) \/ Crash(c) \/ Restart(c)
      PROVE  UNCHANGED groupVars
  BY <1>5 DEF Fault, SkipMessage, AppendFails, ProjectFails, Crash, Restart
<1> QED
  BY <1>1, <1>2, <1>3, <1>4, <1>5 DEF Next

LEMMA StoreFrame ==
    Next => \/ \E c \in Consumer : \/ AppendBatch(c) \/ PutState(c) \/ PutParts(c)
                                   \/ Publish(c) \/ ProjectFails(c)
            \/ UNCHANGED store
<1> SUFFICES ASSUME Next,
                    ~ \E c \in Consumer : \/ AppendBatch(c) \/ PutState(c)
                                          \/ PutParts(c) \/ Publish(c)
                                          \/ ProjectFails(c)
             PROVE  UNCHANGED store
  OBVIOUS
<1>1. ASSUME NEW w \in Worker, WorkerStep(w) \/ GiveBack(w) \/ Stop(w)
      PROVE  UNCHANGED store
  BY <1>1 DEF WorkerStep, TakeLease, NoticeLost, Poll, Read, ReadNothing, GiveBack, Stop
<1>2. ExpireDead \/ Lapse \/ (\E m \in Record : Produce(m)) => UNCHANGED store
  BY DEF ExpireDead, Lapse, Produce
<1>3. ASSUME NEW c \in Reclaimer, Claim(c) PROVE UNCHANGED store
  BY <1>3 DEF Claim
<1>4. ASSUME NEW c \in Consumer, Handle(c) PROVE UNCHANGED store
  BY <1>4 DEF Handle, ApplyReset, LoadLog, LoadDoc, ApplyRecord, EndOfBatch,
     NothingToProject, Project, Conflict, Ack
<1>5. ASSUME NEW c \in Consumer, Fault(c) \/ Crash(c) \/ Restart(c)
      PROVE  UNCHANGED store
  BY <1>5 DEF Fault, SkipMessage, AppendFails, Crash, Restart
<1> QED
  BY <1>1, <1>2, <1>3, <1>4, <1>5 DEF Next

\* The end of a batch leaves memory well typed.
LEMMA AbandonType ==
    ASSUME MemoryType, NEW c \in Consumer, NEW keepLog, Abandon(c, keepLog),
           UNCHANGED cursor
    PROVE  MemoryType'
<1>1. /\ pc' \in [Consumer -> PC]
      /\ batch' \in [Consumer -> Seq(1 .. cursor)]
      /\ took' \in [Consumer -> SUBSET (1 .. cursor)]
  BY DEF MemoryType, Abandon, PC
<1>2. /\ fresh' \in [Consumer -> SUBSET Record]
      /\ expected' \in [Consumer -> Int]
  BY DEF MemoryType, Abandon, NoVersion
<1>3. log' \in [Consumer -> (SUBSET Record) \cup {NoLog}]
  BY DEF MemoryType, Abandon
<1>4. base' \in [Consumer -> (SUBSET Record) \cup {NoDoc}]
  BY DEF MemoryType, Abandon
<1> QED
  BY <1>1, <1>2, <1>3, <1>4 DEF MemoryType

LEMMA GroupTypeStep == TypeOK /\ Next => GroupType'
<1> SUFFICES ASSUME GroupType, Next PROVE GroupType'
  BY DEF TypeOK
<1>1. ASSUME NEW m \in Record, Produce(m) PROVE GroupType'
  <2>1. m \in Message /\ stream \in Seq(Message) /\ Len(stream) \in Nat
    BY DEF GroupType, Message
  <2>2. stream' \in Seq(Message) /\ Len(stream') = Len(stream) + 1
    BY <1>1, <2>1, AppendFacts DEF Produce
  <2> QED
    BY <1>1, <2>1, <2>2 DEF GroupType, Produce
<1>2. ASSUME NEW w \in Worker, Read(w) PROVE GroupType'
  <2>1. PICK n \in 1 .. BatchSize :
            /\ cursor + n <= Len(stream)
            /\ cursor' = cursor + n
            /\ pending' = pending \cup (cursor + 1 .. cursor + n)
    BY <1>2 DEF Read
  <2> QED
    BY <1>2, <2>1, ParametersOK DEF GroupType, Read
<1>3. ASSUME NEW c \in Consumer, Ack(c) PROVE GroupType'
  BY <1>3 DEF GroupType, Ack
<1>4. UNCHANGED groupVars => GroupType'
  BY DEF GroupType, groupVars
<1> QED
  BY <1>1, <1>2, <1>3, <1>4, GroupFrame

LEMMA LeaseTypeStep == TypeOK /\ Next => LeaseType'
<1> SUFFICES ASSUME LeaseType, Next PROVE LeaseType'
  BY DEF TypeOK
<1> USE DEF LeaseType, leaseVars
<1>1. ASSUME NEW m \in Record, Produce(m) PROVE LeaseType'
  BY <1>1 DEF Produce
<1>2. ASSUME NEW w \in Worker, WorkerStep(w) PROVE LeaseType'
  BY <1>2 DEF WorkerStep, TakeLease, NoticeLost, DropShard, Poll, Read, ReadNothing
<1>3. ASSUME NEW w \in Worker, GiveBack(w) \/ Stop(w) PROVE LeaseType'
  BY <1>3 DEF GiveBack, DropShard, Stop
<1>4. ExpireDead \/ Lapse => LeaseType'
  BY DEF ExpireDead, Lapse
<1>5. ASSUME NEW c \in Reclaimer, Claim(c) PROVE LeaseType'
  BY <1>5 DEF Claim
<1>6. ASSUME NEW c \in Consumer, Handle(c) PROVE LeaseType'
  BY <1>6 DEF Handle, ApplyReset, LoadLog, LoadDoc, ApplyRecord, EndOfBatch,
     AppendBatch, NothingToProject, Project, PutState, Conflict, PutParts, Publish, Ack
<1>7. ASSUME NEW c \in Consumer, Fault(c) \/ Crash(c) \/ Restart(c) PROVE LeaseType'
  BY <1>7 DEF Fault, SkipMessage, AppendFails, ProjectFails, Crash, Restart
<1> QED
  BY <1>1, <1>2, <1>3, <1>4, <1>5, <1>6, <1>7 DEF Next

LEMMA BudgetTypeStep == TypeOK /\ Next => BudgetType'
<1> SUFFICES ASSUME BudgetType, Next PROVE BudgetType'
  BY DEF TypeOK
<1> USE ParametersOK DEF BudgetType, budget
<1>1. ASSUME NEW m \in Record, Produce(m) PROVE BudgetType'
  BY <1>1 DEF Produce
<1>2. ASSUME NEW w \in Worker, WorkerStep(w) PROVE BudgetType'
  BY <1>2 DEF WorkerStep, TakeLease, NoticeLost, Poll, Read, ReadNothing
<1>3. ASSUME NEW w \in Worker, GiveBack(w) \/ Stop(w) PROVE BudgetType'
  BY <1>3 DEF GiveBack, Stop
<1>4. ExpireDead \/ Lapse => BudgetType'
  BY DEF ExpireDead, Lapse
<1>5. ASSUME NEW c \in Reclaimer, Claim(c) PROVE BudgetType'
  BY <1>5 DEF Claim
<1>6. ASSUME NEW c \in Consumer, Handle(c) PROVE BudgetType'
  BY <1>6 DEF Handle, ApplyReset, LoadLog, LoadDoc, ApplyRecord, EndOfBatch,
     AppendBatch, NothingToProject, Project, PutState, Conflict, PutParts, Publish, Ack
<1>7. ASSUME NEW c \in Consumer, Fault(c) \/ Crash(c) \/ Restart(c) PROVE BudgetType'
  <2>1. CASE SkipMessage(c)
    <3>1. faults < MaxFault /\ faults' = faults + 1 /\ UNCHANGED <<crashes, lapses>>
      BY <2>1 DEF SkipMessage
    <3> QED
      BY <3>1
  <2>4. CASE AppendFails(c)
    BY <2>4 DEF AppendFails
  <2>2. CASE ProjectFails(c)
    BY <2>2 DEF ProjectFails
  <2>3. CASE Crash(c) \/ Restart(c)
    BY <2>3 DEF Crash, Restart
  <2> QED
    BY <1>7, <2>1, <2>2, <2>3, <2>4 DEF Fault
<1> QED
  BY <1>1, <1>2, <1>3, <1>4, <1>5, <1>6, <1>7 DEF Next

\* The types hold wherever the phases do.
PhasesOK == \A c \in Consumer : PhaseOK(c)

LEMMA StoreTypeStep == TypeOK /\ PhasesOK /\ Next => StoreType'
<1> SUFFICES ASSUME TypeOK, PhasesOK, Next PROVE StoreType'
  OBVIOUS
<1>0. /\ StoreType /\ MemoryType
      /\ \A c \in Consumer : PhaseOK(c)
  BY DEF PhasesOK, TypeOK
<1>1. ASSUME NEW c \in Consumer, AppendBatch(c) PROVE StoreType'
  BY <1>0, <1>1 DEF StoreType, MemoryType, AppendBatch
<1>2. ASSUME NEW c \in Consumer, PutState(c) \/ PutParts(c) PROVE StoreType'
  <2>1. log[c] \in SUBSET Record
    BY <1>0, <1>2 DEF MemoryType, PhaseOK, PutState, PutParts
  <2> QED
    BY <1>0, <1>2, <2>1 DEF StoreType, PutState, PutParts
<1>3. ASSUME NEW c \in Consumer, Publish(c) \/ ProjectFails(c) PROVE StoreType'
  <2>1. Diff(c) \in SUBSET Record
    BY <1>0, <1>3 DEF MemoryType, PhaseOK, Publish, ProjectFails, Diff
  <2>2. announced' \in SUBSET Record
    BY <1>0, <1>3, <2>1 DEF StoreType, Publish, ProjectFails
  <2>3. UNCHANGED <<slog, state, parts, shown>>
    BY <1>3 DEF Publish, ProjectFails
  <2> QED
    BY <1>0, <2>2, <2>3 DEF StoreType
<1>4. UNCHANGED store => StoreType'
  BY <1>0 DEF StoreType, store
<1> QED
  BY <1>1, <1>2, <1>3, <1>4, StoreFrame

LEMMA MemoryTypeStep == TypeOK /\ PhasesOK /\ Next => MemoryType'
<1> SUFFICES ASSUME TypeOK, PhasesOK, Next PROVE MemoryType'
  OBVIOUS
<1>0. /\ MemoryType /\ GroupType /\ StoreType
      /\ \A c \in Consumer : PhaseOK(c)
      /\ Worker \subseteq Consumer /\ Reclaimer \subseteq Consumer
  BY DEF PhasesOK, TypeOK, Consumer
<1>1. ASSUME UNCHANGED memory, UNCHANGED cursor PROVE MemoryType'
  BY <1>0, <1>1 DEF MemoryType, memory
<1>2. ASSUME NEW m \in Record, Produce(m) PROVE MemoryType'
  BY <1>1, <1>2 DEF Produce
<1>3. ASSUME NEW w \in Worker, WorkerStep(w) \/ GiveBack(w) \/ Stop(w) PROVE MemoryType'
  <2>1. CASE TakeLease(w) \/ NoticeLost(w) \/ GiveBack(w)
    BY <1>1, <2>1 DEF TakeLease, NoticeLost, GiveBack, groupVars
  <2>2. CASE Poll(w)
    BY <1>0, <2>2 DEF MemoryType, Poll, PC, groupVars
  <2>3. CASE Read(w)
    <3>1. PICK n \in 1 .. BatchSize :
              /\ cursor' = cursor + n
              /\ batch' = [batch EXCEPT ![w] = [i \in 1 .. n |-> cursor + i]]
      BY <2>3 DEF Read
    <3>2. cursor \in Nat /\ n \in Nat /\ 1 .. cursor \subseteq 1 .. cursor'
      BY <1>0, <3>1, ParametersOK DEF GroupType
    <3>3. [i \in 1 .. n |-> cursor + i] \in Seq(1 .. cursor')
      BY <3>1, <3>2
    <3>4. \A c \in Consumer : batch[c] \in Seq(1 .. cursor')
      BY <1>0, <3>2, SeqOfLarger DEF MemoryType
    <3>5. batch' \in [Consumer -> Seq(1 .. cursor')]
      BY <1>0, <3>1, <3>3, <3>4 DEF MemoryType
    <3>6. took' \in [Consumer -> SUBSET (1 .. cursor')]
      BY <1>0, <2>3, <3>2 DEF MemoryType, Read
    <3>7. pc' \in [Consumer -> PC]
      BY <1>0, <2>3 DEF MemoryType, Read, PC
    <3> QED
      BY <1>0, <2>3, <3>5, <3>6, <3>7 DEF MemoryType, Read
  <2>4. CASE ReadNothing(w)
    BY <1>0, <2>4 DEF MemoryType, ReadNothing, PC, groupVars
  <2>5. CASE Stop(w)
    BY <1>0, <2>5 DEF MemoryType, Stop, Forget, PC, NoVersion, groupVars
  <2> QED
    BY <1>3, <2>1, <2>2, <2>3, <2>4, <2>5 DEF WorkerStep
<1>4. CASE ExpireDead \/ Lapse
  BY <1>1, <1>4 DEF ExpireDead, Lapse, groupVars
<1>5. ASSUME NEW c \in Reclaimer, Claim(c) PROVE MemoryType'
  <2>1. PICK ids \in Seq(pending) : batch' = [batch EXCEPT ![c] = ids]
    BY <1>5, ClaimedBatch
  <2>2. ids \in Seq(1 .. cursor)
    BY <1>0, <2>1, SeqOfLarger DEF GroupType
  <2> QED
    BY <1>0, <1>5, <2>1, <2>2 DEF MemoryType, Claim, PC, groupVars
<1>6. ASSUME NEW c \in Consumer, Handle(c) \/ SkipMessage(c) PROVE MemoryType'
  <2>0. batch[c] \in Seq(1 .. cursor) /\ stream \in Seq(Message) /\ cursor \in 0 .. Len(stream)
    BY <1>0 DEF MemoryType, GroupType
  <2>1. ASSUME batch[c] # <<>>
        PROVE  /\ Tail(batch[c]) \in Seq(1 .. cursor)
               /\ Head(batch[c]) \in 1 .. cursor
               /\ stream[Head(batch[c])] \in Message
    <3>1. Tail(batch[c]) \in Seq(1 .. cursor) /\ Head(batch[c]) \in 1 .. cursor
      BY <2>0, <2>1, TailFacts
    <3>2. Head(batch[c]) \in 1 .. Len(stream)
      BY <2>0, <3>1
    <3> QED
      BY <2>0, <3>1, <3>2
  <2>2. CASE ApplyReset(c)
    BY <1>0, <2>1, <2>2 DEF MemoryType, ApplyReset, groupVars
  <2>3. CASE LoadLog(c) \/ LoadDoc(c)
    <3>1. CASE LoadLog(c)
      BY <1>0, <3>1 DEF MemoryType, StoreType, LoadLog, PC, groupVars
    <3>2. CASE LoadDoc(c)
      BY <1>0, <3>2 DEF MemoryType, StoreType, LoadDoc, PC, groupVars
    <3> QED
      BY <2>3, <3>1, <3>2
  <2>4. CASE ApplyRecord(c)
    <3>1. stream[Head(batch[c])] \in Record /\ log[c] \in SUBSET Record
      BY <1>0, <2>1, <2>4 DEF MemoryType, ApplyRecord, Message
    <3> QED
      BY <1>0, <2>1, <2>4, <3>1 DEF MemoryType, ApplyRecord, groupVars
  <2>5. CASE EndOfBatch(c) \/ AppendBatch(c) \/ NothingToProject(c)
    <3>1. CASE EndOfBatch(c)
      BY <1>0, <3>1 DEF MemoryType, EndOfBatch, PC, groupVars
    <3>2. CASE AppendBatch(c)
      BY <1>0, <3>2 DEF MemoryType, AppendBatch, PC, groupVars
    <3>3. CASE NothingToProject(c)
      BY <1>0, <3>3 DEF MemoryType, NothingToProject, PC, groupVars
    <3> QED
      BY <2>5, <3>1, <3>2, <3>3
  <2>6. CASE Project(c)
    BY <1>0, <2>6, VersionType DEF MemoryType, StoreType, Project, PC, groupVars
  <2>7. CASE PutState(c) \/ PutParts(c)
    BY <1>0, <2>7 DEF MemoryType, PutState, PutParts, PC, groupVars
  <2>8. CASE Publish(c)
    BY <1>0, <2>8 DEF MemoryType, PhaseOK, Publish, PC, groupVars
  <2>9. CASE Conflict(c) \/ Ack(c)
    BY <1>0, <2>9, AbandonType DEF Conflict, Ack, groupVars
  <2>10. CASE SkipMessage(c)
    <3>1. batch[c] # <<>>
      BY <1>0, <2>10 DEF SkipMessage, PhaseOK
    <3> QED
      BY <1>0, <2>1, <2>10, <3>1 DEF MemoryType, SkipMessage, PC, groupVars
  <2> QED
    BY <1>6, <2>2, <2>3, <2>4, <2>5, <2>6, <2>7, <2>8, <2>9, <2>10 DEF Handle
<1>7. ASSUME NEW c \in Consumer, AppendFails(c) \/ ProjectFails(c) PROVE MemoryType'
  BY <1>0, <1>7, AbandonType DEF AppendFails, ProjectFails, groupVars
<1>8. ASSUME NEW c \in Consumer, Crash(c) \/ Restart(c) PROVE MemoryType'
  <2>1. CASE Crash(c)
    BY <1>0, <2>1 DEF MemoryType, Crash, Forget, PC, NoVersion, groupVars
  <2>2. CASE Restart(c)
    BY <1>0, <2>2 DEF MemoryType, Restart, PC, groupVars
  <2> QED
    BY <1>8, <2>1, <2>2
<1> QED
  BY <1>2, <1>3, <1>4, <1>5, <1>6, <1>7, <1>8 DEF Next, Fault

LEMMA TypeStep == TypeOK /\ PhasesOK /\ Next => TypeOK'
  BY GroupTypeStep, LeaseTypeStep, MemoryTypeStep, StoreTypeStep, BudgetTypeStep
     DEF TypeOK

-----------------------------------------------------------------------------
(* What a step leaves alone. *)

\* The steps that belong to one consumer.
Step(c) ==
    \/ c \in Worker /\ (Poll(c) \/ Read(c) \/ ReadNothing(c) \/ Stop(c))
    \/ c \in Reclaimer /\ Claim(c)
    \/ Handle(c) \/ Fault(c) \/ Crash(c) \/ Restart(c)

Same(d) ==
    /\ pc'[d] = pc[d] /\ batch'[d] = batch[d] /\ took'[d] = took[d]
    /\ log'[d] = log[d] /\ fresh'[d] = fresh[d]

\* Every step is a consumer's, or leaves every memory alone.
LEMMA MemoryFrame ==
    Next => (\E c \in Consumer : Step(c)) \/ UNCHANGED memory
<1> SUFFICES ASSUME Next PROVE (\E c \in Consumer : Step(c)) \/ UNCHANGED memory
  OBVIOUS
<1>0. Worker \subseteq Consumer /\ Reclaimer \subseteq Consumer
  BY DEF Consumer
<1>1. (\E m \in Record : Produce(m)) \/ ExpireDead \/ Lapse => UNCHANGED memory
  BY DEF Produce, ExpireDead, Lapse
<1>2. ASSUME NEW w \in Worker, TakeLease(w) \/ NoticeLost(w) \/ GiveBack(w)
      PROVE  UNCHANGED memory
  BY <1>2 DEF TakeLease, NoticeLost, GiveBack
<1> QED
  BY <1>0, <1>1, <1>2 DEF Next, WorkerStep, Step

\* A consumer's step leaves the memory of the others alone.
LEMMA OthersUnchanged ==
    ASSUME MemoryType, NEW c \in Consumer, Step(c), NEW d \in Consumer, d # c
    PROVE  Same(d)
<1> USE DEF Same, MemoryType
<1>1. CASE c \in Worker /\ (Poll(c) \/ ReadNothing(c))
  BY <1>1 DEF Poll, ReadNothing
<1>2. CASE c \in Worker /\ Read(c)
  <2>1. PICK n \in 1 .. BatchSize : batch' = [batch EXCEPT ![c] = [i \in 1 .. n |-> cursor + i]]
    BY <1>2 DEF Read
  <2> QED
    BY <1>2, <2>1 DEF Read
<1>3. CASE c \in Reclaimer /\ Claim(c)
  <2>1. PICK ids \in Seq(pending) : batch' = [batch EXCEPT ![c] = ids]
    BY <1>3, ClaimedBatch
  <2> QED
    BY <1>3, <2>1 DEF Claim
<1>4. CASE Stop(c) \/ Crash(c) \/ Restart(c)
  BY <1>4 DEF Stop, Crash, Forget, Restart
<1>5. CASE ApplyReset(c) \/ LoadLog(c) \/ LoadDoc(c) \/ ApplyRecord(c)
  BY <1>5 DEF ApplyReset, LoadLog, LoadDoc, ApplyRecord
<1>6. CASE EndOfBatch(c) \/ AppendBatch(c) \/ NothingToProject(c) \/ Project(c)
  BY <1>6 DEF EndOfBatch, AppendBatch, NothingToProject, Project
<1>7. CASE PutState(c) \/ PutParts(c) \/ Publish(c)
  BY <1>7 DEF PutState, PutParts, Publish
<1>8. CASE SkipMessage(c)
  BY <1>8 DEF SkipMessage
<1>9. ASSUME NEW k, Abandon(c, k) PROVE Same(d)
  BY <1>9 DEF Abandon
<1>10. CASE Conflict(c) \/ Ack(c) \/ AppendFails(c) \/ ProjectFails(c)
  BY <1>9, <1>10 DEF Conflict, Ack, AppendFails, ProjectFails
<1> QED
  BY <1>1, <1>2, <1>3, <1>4, <1>5, <1>6, <1>7, <1>8, <1>10 DEF Step, Handle, Fault

\* The durable log and what has been shown only grow, and a message never
\* changes once it is in the stream.
LEMMA OnlyGrows ==
    TypeOK /\ Next => /\ slog \subseteq slog'
                      /\ shown \subseteq shown'
                      /\ \A m \in 1 .. cursor : stream'[m] = stream[m]
<1> SUFFICES ASSUME TypeOK, Next
             PROVE  /\ slog \subseteq slog'
                    /\ shown \subseteq shown'
                    /\ \A m \in 1 .. cursor : stream'[m] = stream[m]
  OBVIOUS
<1>1. slog \subseteq slog' /\ shown \subseteq shown'
  <2>1. UNCHANGED store => slog \subseteq slog' /\ shown \subseteq shown'
    BY DEF store
  <2>2. ASSUME NEW c \in Consumer, AppendBatch(c) \/ PutState(c) \/ PutParts(c)
        PROVE  slog \subseteq slog' /\ shown \subseteq shown'
    BY <2>2 DEF AppendBatch, PutState, PutParts
  <2>3. ASSUME NEW c \in Consumer, Publish(c) \/ ProjectFails(c)
        PROVE  slog \subseteq slog' /\ shown \subseteq shown'
    BY <2>3 DEF Publish, ProjectFails
  <2> QED
    BY <2>1, <2>2, <2>3, StoreFrame
<1>2. \A m \in 1 .. cursor : stream'[m] = stream[m]
  <2>1. UNCHANGED stream => \A m \in 1 .. cursor : stream'[m] = stream[m]
    OBVIOUS
  <2>2. ASSUME NEW r \in Record, Produce(r)
        PROVE  \A m \in 1 .. cursor : stream'[m] = stream[m]
    BY <2>2, AppendFacts DEF TypeOK, GroupType, Produce, Message
  <2> QED
    BY <2>1, <2>2, GroupFrame DEF Read, Ack, groupVars
<1> QED
  BY <1>1, <1>2

\* What a consumer holds fits where its loop is, whatever it has read: this
\* needs nothing of the other parts of the invariant.
LEMMA PhaseStep == TypeOK /\ PhasesOK /\ Next => PhasesOK'
<1> SUFFICES ASSUME TypeOK, PhasesOK, Next, NEW d \in Consumer PROVE PhaseOK(d)'
  BY DEF PhasesOK
<1>0. MemoryType /\ StoreType /\ PhaseOK(d)
  BY DEF TypeOK, PhasesOK
<1>1. Same(d) => PhaseOK(d)'
  BY <1>0 DEF Same, PhaseOK
<1>2. CASE UNCHANGED memory
  BY <1>1, <1>2 DEF memory, Same
<1>3. ASSUME NEW c \in Consumer, Step(c), c # d PROVE PhaseOK(d)'
  BY <1>0, <1>1, <1>3, OthersUnchanged
<1>4. CASE \/ Poll(d) \/ ReadNothing(d) \/ Read(d) \/ Restart(d)
           \/ d \in Reclaimer /\ Claim(d)
  <2>1. CASE Poll(d) \/ ReadNothing(d) \/ Restart(d)
    BY <1>0, <2>1 DEF MemoryType, PhaseOK, Poll, ReadNothing, Restart
  <2>2. CASE Read(d) \/ Claim(d)
    <3>1. pc'[d] = "applying"
      BY <1>0, <2>2 DEF MemoryType, Read, Claim
    <3> QED
      BY <3>1 DEF PhaseOK
  <2> QED
    BY <1>4, <2>1, <2>2
<1>5. CASE ApplyReset(d) \/ LoadDoc(d) \/ ApplyRecord(d) \/ SkipMessage(d)
  <2>1. pc'[d] = "applying"
    BY <1>0, <1>5 DEF MemoryType, ApplyReset, LoadDoc, ApplyRecord, SkipMessage
  <2> QED
    BY <2>1 DEF PhaseOK
<1>6. CASE LoadLog(d)
  <2>1. pc'[d] = "loading" /\ log'[d] = slog /\ batch'[d] = batch[d] /\ batch[d] # <<>>
    BY <1>0, <1>6 DEF MemoryType, LoadLog
  <2>2. slog # NoLog
    BY <1>0, ValuesDistinct DEF StoreType
  <2> QED
    BY <2>1, <2>2 DEF PhaseOK
<1>7. CASE EndOfBatch(d) \/ NothingToProject(d) \/ Project(d)
  BY <1>0, <1>7 DEF MemoryType, PhaseOK, EndOfBatch, NothingToProject, Project
<1>8. CASE AppendBatch(d)
  <2>1. PICK put \in SUBSET fresh[d] :
            /\ fresh'[d] = fresh[d] \ put
            /\ pc'[d] = IF put = fresh[d] THEN "projecting" ELSE "appending"
    BY <1>0, <1>8 DEF MemoryType, AppendBatch
  <2> QED
    BY <2>1 DEF PhaseOK
<1>9. CASE PutState(d) \/ PutParts(d) \/ Publish(d)
  BY <1>0, <1>9 DEF MemoryType, PhaseOK, PutState, PutParts, Publish
<1>10. CASE Conflict(d) \/ Ack(d) \/ AppendFails(d) \/ ProjectFails(d)
  <2>1. ASSUME NEW k, Abandon(d, k) PROVE PhaseOK(d)'
    BY <1>0, <2>1 DEF MemoryType, Abandon, PhaseOK
  <2> QED
    BY <1>10, <2>1 DEF Conflict, Ack, AppendFails, ProjectFails
<1>11. CASE Crash(d) \/ Stop(d)
  BY <1>0, <1>11 DEF MemoryType, Crash, Stop, Forget, PhaseOK
<1> QED
  BY <1>2, <1>3, <1>4, <1>5, <1>6, <1>7, <1>8, <1>9, <1>10, <1>11, MemoryFrame
     DEF Step, Handle, Fault

-----------------------------------------------------------------------------
(* What each consumer holds. *)

HoldsDurable(c) == log[c] # NoLog => log[c] \subseteq slog \cup fresh[c]

ConsumerOK(c) ==
    /\ BatchOrdered(c)
    /\ PhaseOK(c)
    /\ TakenIsHeld(c)
    /\ TakenIsShown(c)
    /\ HoldsDurable(c)

\* A consumer whose memory a step leaves alone stays well.
LEMMA SameOK ==
    ASSUME TypeOK, Next, NEW d \in Consumer, ConsumerOK(d), Same(d)
    PROVE  ConsumerOK(d)'
<1>1. took[d] \subseteq 1 .. cursor
  BY DEF TypeOK, MemoryType
<1>2. \A m \in took[d] : stream'[m] = stream[m]
  BY <1>1, OnlyGrows
<1>3. slog \subseteq slog' /\ shown \subseteq shown'
  BY OnlyGrows
<1>4. BatchOrdered(d)'
  BY DEF ConsumerOK, Same, BatchOrdered
<1>5. PhaseOK(d)'
  BY <1>2 DEF ConsumerOK, Same, PhaseOK
<1>6. TakenIsHeld(d)'
  BY <1>2 DEF ConsumerOK, Same, TakenIsHeld
<1>7. TakenIsShown(d)'
  BY <1>2, <1>3 DEF ConsumerOK, Same, TakenIsShown
<1>8. HoldsDurable(d)'
  BY <1>3 DEF ConsumerOK, Same, HoldsDurable
<1> QED
  BY <1>4, <1>5, <1>6, <1>7, <1>8 DEF ConsumerOK

\* So does one whose batch is over.
LEMMA ClearedOK ==
    ASSUME NEW c \in Consumer,
           pc'[c] \in {"down", "idle", "polling"},
           batch'[c] = <<>>, took'[c] = {}, fresh'[c] = {},
           log'[c] = NoLog \/ (log'[c] = log[c] /\ fresh[c] = {}),
           HoldsDurable(c), slog \subseteq slog'
    PROVE  ConsumerOK(c)'
<1>1. BatchOrdered(c)' /\ TakenIsHeld(c)' /\ TakenIsShown(c)'
  BY DEF BatchOrdered, TakenIsHeld, TakenIsShown
<1>2. PhaseOK(c)'
  BY DEF PhaseOK
<1>3. HoldsDurable(c)'
  BY DEF HoldsDurable
<1> QED
  BY <1>1, <1>2, <1>3 DEF ConsumerOK

\* A message is moved from the batch to what was taken of it.
LEMMA TakeOne ==
    ASSUME TypeOK, NEW c \in Consumer, BatchOrdered(c), batch[c] # <<>>,
           batch' = [batch EXCEPT ![c] = Tail(@)],
           took'[c] = took[c] \cup {Head(batch[c])} \/ took'[c] = took[c]
    PROVE  BatchOrdered(c)'
<1> DEFINE b == batch[c]
<1>1. b \in Seq(1 .. cursor) /\ cursor \in Nat /\ took[c] \subseteq 1 .. cursor
  BY DEF TypeOK, MemoryType, GroupType
<1>2. /\ Len(b) \in Nat \ {0} /\ Len(Tail(b)) = Len(b) - 1 /\ Head(b) = b[1]
      /\ \A i \in 1 .. Len(Tail(b)) : Tail(b)[i] = b[i + 1]
  BY <1>1, TailFacts
<1>3. batch'[c] = Tail(b)
  BY DEF TypeOK, MemoryType
<1>4. ASSUME NEW i \in 1 .. Len(Tail(b)), NEW j \in 1 .. Len(Tail(b)), i < j
      PROVE  Tail(b)[i] < Tail(b)[j]
  BY <1>2, <1>4 DEF BatchOrdered
<1>5. ASSUME NEW m \in took[c] \cup {Head(b)}, NEW i \in 1 .. Len(Tail(b))
      PROVE  m < Tail(b)[i]
  BY <1>2 DEF BatchOrdered
<1> QED
  BY <1>3, <1>4, <1>5 DEF BatchOrdered

LEMMA ApplyingOK ==
    ASSUME TypeOK, NEW c \in Consumer, ResetFirst(c), ConsumerOK(c),
           ApplyReset(c) \/ LoadLog(c) \/ LoadDoc(c) \/ ApplyRecord(c) \/ SkipMessage(c)
    PROVE  ConsumerOK(c)'
<1>0. /\ BatchOrdered(c) /\ PhaseOK(c) /\ TakenIsHeld(c) /\ HoldsDurable(c)
      /\ MemoryType /\ GroupType
  BY DEF ConsumerOK, TypeOK
<1>1. UNCHANGED <<stream, slog, shown>>
  BY DEF ApplyReset, LoadLog, LoadDoc, ApplyRecord, SkipMessage, groupVars, store
<1>2. /\ batch[c] \in Seq(1 .. cursor) /\ cursor \in Nat
      /\ cursor <= Len(stream) /\ took[c] \subseteq 1 .. cursor
      /\ pc'[c] \in {"applying", "loading"}
  BY <1>0 DEF MemoryType, GroupType, ApplyReset, LoadLog, LoadDoc, ApplyRecord, SkipMessage
<1>3. TakenIsShown(c)'
  BY <1>2 DEF TakenIsShown
<1>4. CASE ApplyReset(c)
  <2>1. /\ pc'[c] = "applying" /\ log'[c] = NoLog
        /\ took'[c] = took[c] \cup {Head(batch[c])}
        /\ batch' = [batch EXCEPT ![c] = Tail(@)] /\ batch[c] # <<>>
        /\ stream[Head(batch[c])] = Reset
    BY <1>0, <1>4 DEF MemoryType, ApplyReset
  <2>4. took[c] = {}
    BY <2>1 DEF ResetFirst
  <2>5. BatchOrdered(c)'
    BY <1>0, <2>1, TakeOne
  <2>6. PhaseOK(c)' /\ TakenIsHeld(c)' /\ HoldsDurable(c)'
    BY <1>1, <2>1, <2>4 DEF PhaseOK, TakenIsHeld, HoldsDurable
  <2> QED
    BY <1>3, <2>5, <2>6 DEF ConsumerOK
<1>5. CASE LoadLog(c)
  <2>1. /\ pc'[c] = "loading" /\ log'[c] = slog /\ log[c] = NoLog /\ batch[c] # <<>>
        /\ took'[c] = took[c] /\ batch'[c] = batch[c]
    BY <1>0, <1>5 DEF MemoryType, LoadLog
  <2>2. \A m \in took[c] : stream[m] = Reset
    BY <1>0, <2>1 DEF TakenIsHeld
  <2>3. slog # NoLog
    BY ValuesDistinct DEF TypeOK, StoreType
  <2>4. BatchOrdered(c)'
    BY <1>0, <2>1 DEF BatchOrdered
  <2>5. PhaseOK(c)' /\ TakenIsHeld(c)' /\ HoldsDurable(c)'
    BY <1>1, <2>1, <2>2, <2>3 DEF PhaseOK, TakenIsHeld, HoldsDurable
  <2> QED
    BY <1>3, <2>4, <2>5 DEF ConsumerOK
<1>6. CASE LoadDoc(c)
  <2>1. /\ pc'[c] = "applying" /\ log'[c] = log[c] /\ fresh'[c] = fresh[c]
        /\ took'[c] = took[c] /\ batch'[c] = batch[c]
    BY <1>0, <1>6 DEF MemoryType, LoadDoc
  <2>2. BatchOrdered(c)'
    BY <1>0, <2>1 DEF BatchOrdered
  <2>3. PhaseOK(c)' /\ TakenIsHeld(c)' /\ HoldsDurable(c)'
    BY <1>0, <1>1, <2>1 DEF PhaseOK, TakenIsHeld, HoldsDurable
  <2> QED
    BY <1>3, <2>2, <2>3 DEF ConsumerOK
<1>7. CASE ApplyRecord(c)
  <2> DEFINE r == stream[Head(batch[c])]
  <2>1. /\ pc'[c] = "applying" /\ log[c] # NoLog /\ r # Reset
        /\ log'[c] = log[c] \cup {r}
        /\ fresh'[c] = IF r \in log[c] THEN fresh[c] ELSE fresh[c] \cup {r}
        /\ took'[c] = took[c] \cup {Head(batch[c])}
        /\ batch' = [batch EXCEPT ![c] = Tail(@)] /\ batch[c] # <<>>
    BY <1>0, <1>7 DEF MemoryType, ApplyRecord
  <2>2. Head(batch[c]) \in 1 .. cursor
    BY <1>2, <2>1, TailFacts
  <2>3. r \in Record /\ log[c] \in SUBSET Record
    BY <1>0, <1>2, <2>1, <2>2 DEF MemoryType, GroupType, Message
  <2>4. log'[c] # NoLog
    BY <2>1, <2>3, ValuesDistinct
  <2>5. BatchOrdered(c)'
    BY <1>0, <2>1, TakeOne
  <2>6. TakenIsHeld(c)'
    BY <1>0, <1>1, <2>1, <2>4 DEF TakenIsHeld
  <2>7. PhaseOK(c)' /\ HoldsDurable(c)'
    BY <1>0, <1>1, <2>1 DEF PhaseOK, HoldsDurable
  <2> QED
    BY <1>3, <2>5, <2>6, <2>7 DEF ConsumerOK
<1>8. CASE SkipMessage(c)
  <2>1. /\ pc'[c] = "applying" /\ log'[c] = NoLog /\ took'[c] = took[c]
        /\ batch' = [batch EXCEPT ![c] = Tail(@)] /\ batch[c] # <<>>
    BY <1>0, <1>8 DEF MemoryType, SkipMessage, PhaseOK
  <2>2. \A m \in took[c] : stream[m] = Reset
    BY <1>0, <1>8 DEF TakenIsHeld, SkipMessage
  <2>3. BatchOrdered(c)'
    BY <1>0, <2>1, TakeOne
  <2>4. PhaseOK(c)' /\ TakenIsHeld(c)' /\ HoldsDurable(c)'
    BY <1>1, <2>1, <2>2 DEF PhaseOK, TakenIsHeld, HoldsDurable
  <2> QED
    BY <1>3, <2>3, <2>4 DEF ConsumerOK
<1> QED
  BY <1>4, <1>5, <1>6, <1>7, <1>8

LEMMA WritingOK ==
    ASSUME TypeOK, NEW c \in Consumer, ConsumerOK(c),
           \/ EndOfBatch(c) \/ AppendBatch(c) \/ NothingToProject(c) \/ Project(c)
           \/ PutState(c) \/ PutParts(c) \/ Publish(c)
    PROVE  ConsumerOK(c)'
<1>0. /\ BatchOrdered(c) /\ PhaseOK(c) /\ TakenIsHeld(c) /\ TakenIsShown(c) /\ HoldsDurable(c)
      /\ MemoryType
  BY DEF ConsumerOK, TypeOK
<1>1. /\ UNCHANGED stream
      /\ batch'[c] = batch[c] /\ took'[c] = took[c] /\ log'[c] = log[c]
  BY DEF EndOfBatch, AppendBatch, NothingToProject, Project, PutState, PutParts,
     Publish, groupVars
<1>9. pc'[c] # "loading"
  BY <1>0 DEF MemoryType, EndOfBatch, AppendBatch, NothingToProject, Project,
     PutState, PutParts, Publish
<1>2. BatchOrdered(c)' /\ TakenIsHeld(c)'
  BY <1>0, <1>1, <1>9 DEF BatchOrdered, TakenIsHeld
<1>3. CASE EndOfBatch(c)
  <2>1. /\ pc'[c] = IF fresh[c] = {} THEN "projecting" ELSE "appending"
        /\ fresh'[c] = fresh[c] /\ UNCHANGED slog
    BY <1>0, <1>3 DEF MemoryType, EndOfBatch, store
  <2>2. PhaseOK(c)'
    BY <2>1 DEF PhaseOK
  <2>3. TakenIsShown(c)' /\ HoldsDurable(c)'
    BY <1>0, <1>1, <2>1 DEF TakenIsShown, HoldsDurable
  <2> QED
    BY <1>2, <2>2, <2>3 DEF ConsumerOK
<1>4. CASE AppendBatch(c)
  <2>1. PICK put \in SUBSET fresh[c] :
            /\ slog' = slog \cup put
            /\ fresh'[c] = fresh[c] \ put
            /\ pc'[c] = IF put = fresh[c] THEN "projecting" ELSE "appending"
    BY <1>0, <1>4 DEF MemoryType, AppendBatch
  <2>2. PhaseOK(c)'
    BY <2>1 DEF PhaseOK
  <2>3. TakenIsShown(c)' /\ HoldsDurable(c)'
    BY <1>0, <1>1, <2>1 DEF TakenIsShown, HoldsDurable
  <2> QED
    BY <1>2, <2>2, <2>3 DEF ConsumerOK
<1>5. CASE NothingToProject(c)
  <2>1. /\ pc'[c] = "acking" /\ fresh'[c] = fresh[c] /\ fresh[c] = {}
        /\ UNCHANGED <<slog, shown>>
        /\ log[c] = NoLog \/ log[c] \cap Event = {} \/ ~LiveMeta
    BY <1>0, <1>5 DEF MemoryType, PhaseOK, NothingToProject, store
  <2>2. Reset \notin Event
    BY ValuesDistinct DEF Record
  <2>3. TakenIsShown(c)'
    BY <1>0, <1>1, <2>1, <2>2 DEF TakenIsShown, TakenIsHeld
  <2>4. PhaseOK(c)' /\ HoldsDurable(c)'
    BY <1>0, <1>1, <2>1 DEF PhaseOK, HoldsDurable
  <2> QED
    BY <1>2, <2>3, <2>4 DEF ConsumerOK
<1>6. CASE Project(c)
  <2>1. /\ pc'[c] = "putting" /\ fresh'[c] = fresh[c] /\ fresh[c] = {}
        /\ log[c] # NoLog /\ UNCHANGED slog
    BY <1>0, <1>6 DEF MemoryType, PhaseOK, Project, store
  <2>2. PhaseOK(c)' /\ TakenIsShown(c)' /\ HoldsDurable(c)'
    BY <1>0, <1>1, <2>1 DEF PhaseOK, TakenIsShown, HoldsDurable
  <2> QED
    BY <1>2, <2>2 DEF ConsumerOK
<1>7. CASE PutState(c)
  <2>1. /\ pc'[c] = "parts" /\ fresh'[c] = fresh[c] /\ fresh[c] = {}
        /\ log[c] # NoLog /\ UNCHANGED slog /\ shown' = shown \cup log[c]
    BY <1>0, <1>7 DEF MemoryType, PhaseOK, PutState
  <2>2. Reset \notin Event
    BY ValuesDistinct DEF Record
  <2>3. TakenIsShown(c)'
    BY <1>0, <1>1, <2>1, <2>2 DEF TakenIsShown, TakenIsHeld
  <2>4. PhaseOK(c)' /\ HoldsDurable(c)'
    BY <1>0, <1>1, <2>1 DEF PhaseOK, HoldsDurable
  <2> QED
    BY <1>2, <2>3, <2>4 DEF ConsumerOK
<1>8. CASE PutParts(c) \/ Publish(c)
  <2>1. /\ pc[c] \in {"parts", "publishing"} /\ pc'[c] \in {"publishing", "acking"}
        /\ fresh'[c] = fresh[c] /\ fresh[c] = {} /\ log[c] # NoLog
        /\ UNCHANGED <<slog, shown>>
    BY <1>0, <1>8 DEF MemoryType, PhaseOK, PutParts, Publish
  <2>2. PhaseOK(c)' /\ TakenIsShown(c)' /\ HoldsDurable(c)'
    BY <1>0, <1>1, <2>1 DEF PhaseOK, TakenIsShown, HoldsDurable
  <2> QED
    BY <1>2, <2>2 DEF ConsumerOK
<1> QED
  BY <1>3, <1>4, <1>5, <1>6, <1>7, <1>8

LEMMA AbandonOK ==
    ASSUME TypeOK, NEW c \in Consumer, ConsumerOK(c), NEW k, Abandon(c, k),
           slog \subseteq slog', k => fresh[c] = {}
    PROVE  ConsumerOK(c)'
<1>1. /\ pc'[c] = "idle" /\ batch'[c] = <<>> /\ took'[c] = {} /\ fresh'[c] = {}
  BY DEF TypeOK, MemoryType, Abandon
<1>2. log'[c] = NoLog \/ (log'[c] = log[c] /\ fresh[c] = {})
  BY DEF TypeOK, MemoryType, Abandon
<1> QED
  BY <1>1, <1>2, ClearedOK DEF ConsumerOK

LEMMA BatchOverOK ==
    ASSUME TypeOK, Next, NEW c \in Consumer, ConsumerOK(c),
           \/ Conflict(c) \/ Ack(c) \/ AppendFails(c) \/ ProjectFails(c)
           \/ Crash(c) \/ Restart(c) \/ (c \in Worker /\ Stop(c))
    PROVE  ConsumerOK(c)'
<1>0. slog \subseteq slog' /\ PhaseOK(c) /\ MemoryType
  BY OnlyGrows DEF ConsumerOK, TypeOK
<1>1. CASE Conflict(c) \/ AppendFails(c)
  <2>1. Abandon(c, FALSE)
    BY <1>1 DEF Conflict, AppendFails
  <2> QED
    BY <1>0, <2>1, AbandonOK
<1>2. CASE Ack(c) \/ ProjectFails(c)
  <2>1. Abandon(c, TRUE)
    BY <1>2 DEF Ack, ProjectFails
  <2>2. fresh[c] = {}
    BY <1>0, <1>2 DEF PhaseOK, Ack, ProjectFails
  <2> QED
    BY <1>0, <2>1, <2>2, AbandonOK
<1>3. CASE Crash(c) \/ (c \in Worker /\ Stop(c))
  <2>1. /\ pc'[c] = "down" /\ batch'[c] = <<>> /\ took'[c] = {} /\ fresh'[c] = {}
        /\ log'[c] = NoLog
    BY <1>0, <1>3 DEF MemoryType, Crash, Stop, Forget
  <2> QED
    BY <1>0, <2>1, ClearedOK DEF ConsumerOK
<1>4. CASE Restart(c)
  <2>1. /\ pc'[c] = "idle" /\ batch'[c] = batch[c] /\ took'[c] = took[c]
        /\ fresh'[c] = fresh[c] /\ log'[c] = log[c]
        /\ batch[c] = <<>> /\ took[c] = {} /\ fresh[c] = {}
    BY <1>0, <1>4 DEF MemoryType, PhaseOK, Restart
  <2> QED
    BY <1>0, <2>1, ClearedOK DEF ConsumerOK
<1> QED
  BY <1>1, <1>2, <1>3, <1>4

LEMMA DeliveryOK ==
    ASSUME TypeOK, NEW c \in Consumer, ConsumerOK(c),
           \/ c \in Worker /\ (Poll(c) \/ Read(c) \/ ReadNothing(c))
           \/ c \in Reclaimer /\ Claim(c)
    PROVE  ConsumerOK(c)'
<1>0. /\ BatchOrdered(c) /\ PhaseOK(c) /\ HoldsDurable(c) /\ MemoryType
      /\ pc[c] \in {"idle", "polling"}
      /\ batch[c] = <<>> /\ took[c] = {} /\ fresh[c] = {}
  BY DEF ConsumerOK, TypeOK, PhaseOK, Poll, Read, ReadNothing, Claim
<1>1. CASE c \in Worker /\ (Poll(c) \/ ReadNothing(c))
  <2>1. /\ pc'[c] \in {"idle", "polling"} /\ batch'[c] = <<>> /\ took'[c] = {}
        /\ fresh'[c] = {} /\ UNCHANGED slog
        /\ log'[c] = NoLog \/ log'[c] = log[c]
    BY <1>0, <1>1 DEF MemoryType, Poll, ReadNothing, store
  <2> QED
    BY <1>0, <2>1, ClearedOK
<1>2. ASSUME \E s \in Seq(Int) : /\ \A i, j \in 1 .. Len(s) : i < j => s[i] < s[j]
                                 /\ batch'[c] = s,
             pc'[c] = "applying", took'[c] = {}, fresh'[c] = {}, log'[c] = log[c],
             UNCHANGED slog
      PROVE  ConsumerOK(c)'
  <2>1. BatchOrdered(c)'
    BY <1>2 DEF BatchOrdered
  <2>2. PhaseOK(c)' /\ TakenIsHeld(c)' /\ TakenIsShown(c)'
    BY <1>2 DEF PhaseOK, TakenIsHeld, TakenIsShown
  <2>3. HoldsDurable(c)'
    BY <1>0, <1>2 DEF HoldsDurable
  <2> QED
    BY <2>1, <2>2, <2>3 DEF ConsumerOK
<1>3. CASE c \in Worker /\ Read(c)
  <2>1. PICK n \in 1 .. BatchSize :
            batch' = [batch EXCEPT ![c] = [i \in 1 .. n |-> cursor + i]]
    BY <1>3 DEF Read
  <2>2. n \in Nat /\ cursor \in Nat
    BY <2>1, ParametersOK DEF TypeOK, GroupType
  <2> DEFINE s == [i \in 1 .. n |-> cursor + i]
  <2>3. s \in Seq(Int) /\ Len(s) = n /\ \A i, j \in 1 .. n : i < j => s[i] < s[j]
    BY <2>2
  <2>4. /\ batch'[c] = s /\ pc'[c] = "applying" /\ took'[c] = {} /\ fresh'[c] = {}
        /\ log'[c] = log[c] /\ UNCHANGED slog
    BY <1>0, <1>3, <2>1 DEF MemoryType, Read, store
  <2> HIDE DEF s
  <2> QED
    BY <1>2, <2>3, <2>4
<1>4. CASE c \in Reclaimer /\ Claim(c)
  <2>1. PICK s \in Seq(pending) : /\ \A i, j \in 1 .. Len(s) : i < j => s[i] < s[j]
                                  /\ batch' = [batch EXCEPT ![c] = s]
    BY <1>4, ClaimedBatch
  <2>4. pending \subseteq Int
    BY DEF TypeOK, GroupType
  <2>2. s \in Seq(Int)
    BY <2>1, <2>4, SeqOfLarger
  <2>3. /\ batch'[c] = s /\ pc'[c] = "applying" /\ took'[c] = {} /\ fresh'[c] = {}
        /\ log'[c] = log[c] /\ UNCHANGED slog
    BY <1>0, <1>4, <2>1 DEF MemoryType, Claim, store
  <2> QED
    BY <1>2, <2>1, <2>2, <2>3
<1> QED
  BY <1>1, <1>3, <1>4

LEMMA ConsumersStep ==
    ASSUME TypeOK, \A c \in Consumer : ResetFirst(c) /\ ConsumerOK(c), Next
    PROVE  \A c \in Consumer : ConsumerOK(c)'
<1> SUFFICES ASSUME NEW d \in Consumer PROVE ConsumerOK(d)'
  OBVIOUS
<1>1. CASE UNCHANGED memory
  BY <1>1, SameOK DEF memory, Same
<1>2. ASSUME NEW c \in Consumer, Step(c) PROVE ConsumerOK(d)'
  <2>1. CASE c # d
    BY <1>2, <2>1, OthersUnchanged, SameOK DEF TypeOK
  <2>2. CASE c = d
    <3>1. CASE \/ ApplyReset(c) \/ LoadLog(c) \/ LoadDoc(c) \/ ApplyRecord(c)
               \/ SkipMessage(c)
      BY <2>2, <3>1, ApplyingOK
    <3>2. CASE \/ EndOfBatch(c) \/ AppendBatch(c) \/ NothingToProject(c)
               \/ Project(c) \/ PutState(c) \/ PutParts(c) \/ Publish(c)
      BY <2>2, <3>2, WritingOK
    <3>3. CASE \/ Conflict(c) \/ Ack(c) \/ AppendFails(c) \/ ProjectFails(c)
               \/ Crash(c) \/ Restart(c) \/ (c \in Worker /\ Stop(c))
      BY <2>2, <3>3, BatchOverOK
    <3>4. CASE \/ c \in Worker /\ (Poll(c) \/ Read(c) \/ ReadNothing(c))
               \/ c \in Reclaimer /\ Claim(c)
      BY <2>2, <3>4, DeliveryOK
    <3> QED
      BY <1>2, <3>1, <3>2, <3>3, <3>4 DEF Step, Handle, Fault
  <2> QED
    BY <2>1, <2>2
<1> QED
  BY <1>1, <1>2, MemoryFrame

-----------------------------------------------------------------------------
(* The stream, the document and the acknowledged messages. *)

LEMMA OneResetStep == TypeOK /\ OneReset /\ Next => OneReset'
<1> SUFFICES ASSUME TypeOK, OneReset, Next PROVE OneReset'
  OBVIOUS
<1>1. UNCHANGED stream => OneReset'
  BY DEF OneReset
<1>2. ASSUME NEW r \in Record, Produce(r) PROVE OneReset'
  <2>1. stream \in Seq(Message) /\ r \in Message /\ r # Reset
    BY ValuesDistinct DEF TypeOK, GroupType, Message
  <2>2. /\ Len(stream') = Len(stream) + 1 /\ Len(stream) \in Nat
        /\ \A i \in 1 .. Len(stream) : stream'[i] = stream[i]
        /\ stream'[Len(stream) + 1] = r
    BY <1>2, <2>1, AppendFacts DEF Produce
  <2> QED
    BY <2>1, <2>2 DEF OneReset
<1> QED
  BY <1>1, <1>2, GroupFrame DEF Read, Ack, groupVars

LEMMA DocumentStep ==
    ASSUME TypeOK, \A c \in Consumer : ConsumerOK(c), DocumentIsBacked, Next
    PROVE  DocumentIsBacked'
<1>1. slog \subseteq slog'
  BY OnlyGrows
<1>2. ASSUME NEW c \in Consumer, pc[c] \in {"putting", "parts", "publishing"}
      PROVE  log[c] \subseteq slog
  BY <1>2 DEF ConsumerOK, PhaseOK, HoldsDurable
<1>3. CASE UNCHANGED store
  BY <1>3 DEF store, DocumentIsBacked
<1>4. ASSUME NEW c \in Consumer, AppendBatch(c) PROVE DocumentIsBacked'
  BY <1>1, <1>4 DEF AppendBatch, DocumentIsBacked
<1>5. ASSUME NEW c \in Consumer, PutState(c) \/ PutParts(c) PROVE DocumentIsBacked'
  <2>1. log[c] \subseteq slog /\ UNCHANGED <<slog, announced>>
    BY <1>2, <1>5 DEF PutState, PutParts
  <2>2. state' \in {state, log[c]} /\ parts' \in {parts, log[c]}
    BY <1>5 DEF PutState, PutParts
  <2> QED
    BY <2>1, <2>2 DEF DocumentIsBacked
<1>6. ASSUME NEW c \in Consumer, Publish(c) \/ ProjectFails(c) PROVE DocumentIsBacked'
  <2>1. UNCHANGED <<slog, state, parts>>
    BY <1>6 DEF Publish, ProjectFails
  <2>2. CASE announced' = announced
    BY <2>1, <2>2 DEF DocumentIsBacked
  <2>3. CASE pc[c] = "publishing"
    <3>1. Diff(c) \subseteq slog
      BY <1>2, <2>3 DEF Diff
    <3>2. announced' \subseteq announced \cup Diff(c)
      BY <1>6 DEF Publish, ProjectFails
    <3> QED
      BY <2>1, <3>1, <3>2 DEF DocumentIsBacked
  <2> QED
    BY <1>6, <2>2, <2>3 DEF Publish, ProjectFails
<1> QED
  BY <1>3, <1>4, <1>5, <1>6, StoreFrame

\* A message that a step acknowledges was in a batch that reached its end.
LEMMA NewlyAcknowledged ==
    ASSUME TypeOK, Next, NEW m \in Acknowledged'
    PROVE  /\ m \in 1 .. cursor
           /\ m \in Acknowledged \/ \E c \in Consumer : Ack(c) /\ m \in took[c]
<1>0. cursor \in Nat /\ pending \subseteq 1 .. cursor
  BY DEF TypeOK, GroupType
<1>1. CASE UNCHANGED groupVars
  BY <1>1 DEF groupVars, Acknowledged
<1>2. ASSUME NEW r \in Record, Produce(r) PROVE m \in Acknowledged
  BY <1>2 DEF Produce, Acknowledged
<1>3. ASSUME NEW w \in Worker, Read(w) PROVE m \in Acknowledged
  <2>1. PICK n \in 1 .. BatchSize :
            cursor' = cursor + n /\ pending' = pending \cup (cursor + 1 .. cursor + n)
    BY <1>3 DEF Read
  <2> QED
    BY <1>0, <2>1, ParametersOK DEF Acknowledged
<1>4. ASSUME NEW c \in Consumer, Ack(c)
      PROVE  m \in 1 .. cursor /\ (m \in Acknowledged \/ m \in took[c])
  BY <1>4 DEF Ack, Acknowledged
<1> QED
  BY <1>1, <1>2, <1>3, <1>4, GroupFrame DEF Acknowledged

LEMMA AckedStep ==
    ASSUME TypeOK, \A c \in Consumer : ConsumerOK(c), AckedIsDurable,
           AckedIsProjected, Next
    PROVE  AckedIsDurable' /\ AckedIsProjected'
<1>0. Event \subseteq Record /\ Reset \notin Event
  BY ValuesDistinct DEF Record
<1>1. SUFFICES ASSUME NEW m \in Acknowledged'
               PROVE  /\ stream'[m] # Reset => stream'[m] \in slog'
                      /\ LiveMeta /\ stream'[m] \in Event => stream'[m] \in shown'
  BY DEF AckedIsDurable, AckedIsProjected
<1>2. m \in 1 .. cursor
  BY NewlyAcknowledged
<1>3. stream'[m] = stream[m] /\ slog \subseteq slog' /\ shown \subseteq shown'
  BY <1>2, OnlyGrows
<1>4. CASE m \in Acknowledged
  BY <1>3, <1>4 DEF AckedIsDurable, AckedIsProjected
<1>5. ASSUME NEW c \in Consumer, Ack(c), m \in took[c]
      PROVE  /\ stream[m] # Reset => stream[m] \in slog
             /\ LiveMeta /\ stream[m] \in Event => stream[m] \in shown
  <2>1. pc[c] = "acking" /\ fresh[c] = {}
    BY <1>5 DEF Ack, ConsumerOK, PhaseOK
  <2>2. TakenIsHeld(c) /\ TakenIsShown(c) /\ HoldsDurable(c)
    BY DEF ConsumerOK
  <2>3. stream[m] # Reset => stream[m] \in slog
    BY <1>5, <2>1, <2>2 DEF TakenIsHeld, HoldsDurable
  <2>4. LiveMeta /\ stream[m] \in Event => stream[m] \in shown
    BY <1>5, <2>1, <2>2 DEF TakenIsShown
  <2> QED
    BY <2>3, <2>4
<1> QED
  BY <1>3, <1>4, <1>5, NewlyAcknowledged

-----------------------------------------------------------------------------
(* The theorems. *)

LEMMA ConsumersDef ==
    IInv <=> /\ TypeOK /\ OneReset /\ DocumentIsBacked /\ AckedIsDurable
             /\ AckedIsProjected
             /\ \A c \in Consumer : ConsumerOK(c)
  BY DEF IInv, ConsumerOK, MemoryIsBacked, HoldsDurable

\* With one reset marker, at the head of the stream, it comes first.
LEMMA OneResetFirst ==
    ASSUME TypeOK, OneReset, NEW c \in Consumer, BatchOrdered(c)
    PROVE  ResetFirst(c)
<1> SUFFICES ASSUME batch[c] # <<>>, stream[Head(batch[c])] = Reset PROVE took[c] = {}
  BY DEF ResetFirst
<1>1. /\ batch[c] \in Seq(1 .. cursor) /\ cursor \in Nat /\ cursor <= Len(stream)
      /\ took[c] \subseteq 1 .. cursor
  BY DEF TypeOK, MemoryType, GroupType
<1>2. Head(batch[c]) \in 1 .. cursor /\ Head(batch[c]) = batch[c][1] /\ Len(batch[c]) \in Nat \ {0}
  BY <1>1, TailFacts
<1>3. Head(batch[c]) = 1
  BY <1>1, <1>2 DEF OneReset
<1> QED
  BY <1>1, <1>2, <1>3 DEF BatchOrdered

LEMMA NextIInv == IInv /\ Next => IInv'
<1> SUFFICES ASSUME IInv, Next PROVE IInv'
  OBVIOUS
<1>1. TypeOK /\ OneReset /\ DocumentIsBacked /\ AckedIsDurable /\ AckedIsProjected
  BY DEF IInv
<1>2. \A c \in Consumer : ResetFirst(c) /\ ConsumerOK(c)
  BY <1>1, ConsumersDef, OneResetFirst DEF IInv
<1>3. TypeOK'
  BY TypeStep DEF IInv, PhasesOK
<1>4. OneReset'
  BY <1>1, OneResetStep
<1>5. \A c \in Consumer : ConsumerOK(c)'
  BY <1>1, <1>2, ConsumersStep
<1>6. DocumentIsBacked' /\ AckedIsDurable' /\ AckedIsProjected'
  BY <1>1, <1>2, DocumentStep, AckedStep
<1>7. (\A c \in Consumer : BatchOrdered(c) /\ PhaseOK(c) /\ TakenIsHeld(c) /\ TakenIsShown(c))'
  BY <1>5 DEF ConsumerOK
<1>8. MemoryIsBacked'
  BY <1>5 DEF ConsumerOK, HoldsDurable, MemoryIsBacked
<1> QED
  BY <1>3, <1>4, <1>6, <1>7, <1>8 DEF IInv

\* A stuttering step changes nothing the invariant speaks of.
LEMMA StutterIInv == IInv /\ UNCHANGED vars => IInv'
<1> SUFFICES ASSUME IInv, UNCHANGED vars PROVE IInv'
  OBVIOUS
<1> USE DEF vars, groupVars, leaseVars, memory, store, budget
<1>1. TypeOK'
  BY DEF IInv, TypeOK, GroupType, LeaseType, MemoryType, StoreType, BudgetType
<1>2. OneReset' /\ MemoryIsBacked' /\ DocumentIsBacked'
  BY DEF IInv, OneReset, MemoryIsBacked, DocumentIsBacked
<1>3. (\A c \in Consumer : BatchOrdered(c) /\ PhaseOK(c) /\ TakenIsHeld(c) /\ TakenIsShown(c))'
  BY DEF IInv, BatchOrdered, PhaseOK, TakenIsHeld, TakenIsShown
<1>4. AckedIsDurable' /\ AckedIsProjected'
  BY DEF IInv, AckedIsDurable, AckedIsProjected, Acknowledged
<1> QED
  BY <1>1, <1>2, <1>3, <1>4 DEF IInv

\* The inductive invariant holds of every behaviour of the pipeline.
THEOREM Invariance == Spec => []IInv
<1>1. IInv /\ [Next]_vars => IInv'
  BY NextIInv, StutterIInv
<1> QED
  BY <1>1, InitIInv, PTL DEF Spec

\* Every variable keeps its type, for any number of workers and messages.
THEOREM TypeCorrect == Spec => []TypeOK
<1>1. IInv => TypeOK
  BY DEF IInv
<1> QED
  BY <1>1, Invariance, PTL

\* Append before acknowledge (ingest_worker.py, handle): whatever crashes,
\* reclaims, conflicts and failed writes happen, an acknowledged record is in
\* the store's log.
THEOREM AckedDurable == Spec => []AckedIsDurable
<1>1. IInv => AckedIsDurable
  BY DEF IInv
<1> QED
  BY <1>1, Invariance, PTL

\* A record the memory of a worker takes for a redelivery is in the store's log
\* or in the batch being written: dropping a duplicate never loses a record.
THEOREM MemoryBacked == Spec => []MemoryIsBacked
<1>1. IInv => MemoryIsBacked
  BY DEF IInv
<1> QED
  BY <1>1, Invariance, PTL

\* No document and no diff ever says what the durable log does not, even with
\* two writers on the match.
THEOREM DocumentBacked == Spec => []DocumentIsBacked
<1>1. IInv => DocumentIsBacked
  BY DEF IInv
<1> QED
  BY <1>1, Invariance, PTL

\* An event is acknowledged only after a STATE item has held it
\* (ingest_worker.py, lines 15-17).
THEOREM AckedProjected == Spec => []AckedIsProjected
<1>1. IInv => AckedIsProjected
  BY DEF IInv
<1> QED
  BY <1>1, Invariance, PTL

-----------------------------------------------------------------------------
(***************************************************************************)
(* One writer.                                                             *)
(*                                                                         *)
(* OneWriterSpec assumes what the worker's docstring says of a match, that *)
(* it has one writer at any moment: workers and the reclaimer come, go,    *)
(* crash and fail as they like, but whoever begins a batch finds nobody    *)
(* else with one, or with a log of the match from an earlier one.  Then    *)
(* the pipeline implements MatchLedger.                                    *)
(***************************************************************************)

\* The memory of the writer is the durable log and what it is about to write.
InStep(c) ==
    /\ took[c] = {} => fresh[c] = {}
    /\ log[c] = NoLog => fresh[c] = {}
    /\ pc[c] = "loading" => fresh[c] = {}
    /\ log[c] # NoLog => log[c] = slog \cup fresh[c]

\* c is the only process that reads and writes the match.
Sole(c) == Consumer = {c}

\* Of two processes one knows nothing of the match.
Exclusive == \A c, d \in Consumer : c # d => ~Remembers(c) \/ ~Remembers(d)

\* Every step is the consumer's own, or leaves its memory alone.
LEMMA OwnStepOrSame ==
    ASSUME MemoryType, Next, NEW c \in Consumer
    PROVE  Step(c) \/ Same(c)
<1>1. UNCHANGED memory => Same(c)
  BY DEF memory, Same
<1>2. ASSUME NEW d \in Consumer, Step(d), d # c PROVE Same(c)
  BY <1>2, OthersUnchanged
<1> QED
  BY <1>1, <1>2, MemoryFrame

\* Nobody gets to know the match but by beginning a batch.
LEMMA RemembersStep ==
    ASSUME TypeOK, PhasesOK, Next, NEW c \in Consumer, ~Remembers(c), Remembers(c)'
    PROVE  pc[c] \in {"idle", "polling"} /\ pc'[c] = "applying"
<1>0. MemoryType /\ pc[c] \in {"down", "idle", "polling"} /\ log[c] = NoLog
  BY DEF TypeOK, Remembers
<1>1. CASE Same(c)
  BY <1>0, <1>1 DEF Same, Remembers
<1>2. CASE Read(c) \/ Claim(c)
  BY <1>0, <1>2 DEF Read, Claim, MemoryType
<1>3. CASE Poll(c) \/ ReadNothing(c) \/ Restart(c)
  BY <1>0, <1>3 DEF Poll, ReadNothing, Restart, MemoryType, Remembers
<1>4. CASE Stop(c) \/ Crash(c)
  BY <1>0, <1>4 DEF Stop, Crash, Forget, MemoryType, Remembers
<1>5. CASE Handle(c)
  BY <1>0, <1>5 DEF Handle, ApplyReset, LoadLog, LoadDoc, ApplyRecord, EndOfBatch, AppendBatch,
     NothingToProject, Project, PutState, Conflict, PutParts, Publish, Ack
<1>6. CASE Fault(c)
  BY <1>0, <1>6 DEF Fault, SkipMessage, AppendFails, ProjectFails
<1> QED
  BY <1>0, <1>1, <1>2, <1>3, <1>4, <1>5, <1>6, OwnStepOrSame DEF Step

LEMMA ExclusiveStep ==
    ASSUME TypeOK, PhasesOK, Next, OneWriter, Exclusive
    PROVE  Exclusive'
<1> SUFFICES ASSUME NEW c \in Consumer, NEW d \in Consumer, c # d,
                    Remembers(c)', Remembers(d)'
             PROVE  FALSE
  BY DEF Exclusive
<1>0. MemoryType
  BY DEF TypeOK
<1>1. ~Remembers(c) => ~Remembers(d)
  BY RemembersStep DEF OneWriter
<1>2. ~Remembers(d) => ~Remembers(c)
  BY RemembersStep DEF OneWriter
<1>3. ~Remembers(c) /\ ~Remembers(d)
  BY <1>1, <1>2 DEF Exclusive
<1>4. ~Same(c) /\ ~Same(d)
  BY <1>3, RemembersStep DEF Same
<1>5. Step(c)
  BY <1>0, <1>4, OwnStepOrSame
<1> QED
  BY <1>0, <1>4, <1>5, OthersUnchanged

LEMMA InitInStep == ASSUME NEW c \in Consumer, Init PROVE InStep(c)
  BY DEF Init, InStep

LEMMA AbandonInStep ==
    ASSUME MemoryType, NEW c \in Consumer, InStep(c), NEW k, Abandon(c, k),
           k => fresh[c] = {}, UNCHANGED slog
    PROVE  InStep(c)'
<1>1. took'[c] = {} /\ fresh'[c] = {} /\ pc'[c] = "idle"
  BY DEF MemoryType, Abandon
<1>2. log'[c] = NoLog \/ (log'[c] = log[c] /\ fresh[c] = {})
  BY DEF MemoryType, Abandon
<1> QED
  BY <1>1, <1>2 DEF InStep

\* While nobody else writes the log, the writer stays in step with it.
LEMMA InStepStep ==
    ASSUME NEW c \in Consumer, TypeOK, PhasesOK, ResetFirst(c), InStep(c), Next,
           \A d \in Consumer \ {c} : AppendBatch(d) => log[c] = NoLog
    PROVE  InStep(c)'
<1>0. MemoryType /\ GroupType /\ StoreType /\ PhaseOK(c)
  BY DEF TypeOK, PhasesOK
<1>1. CASE Same(c) /\ UNCHANGED slog
  BY <1>1 DEF Same, InStep
<1>2. ASSUME NEW d \in Consumer, d # c, AppendBatch(d) PROVE InStep(c)'
  <2>1. log[c] = NoLog /\ fresh[c] = {}
    BY <1>2 DEF InStep
  <2>2. Same(c)
    BY <1>0, <1>2, OthersUnchanged DEF Step, Handle
  <2> QED
    BY <2>1, <2>2 DEF Same, InStep
<1>3. CASE ~Step(c)
  <2>1. UNCHANGED store => UNCHANGED slog
    BY DEF store
  <2>2. \A d \in Consumer : PutState(d) \/ PutParts(d) \/ Publish(d) \/ ProjectFails(d)
            => UNCHANGED slog
    BY DEF PutState, PutParts, Publish, ProjectFails
  <2>3. UNCHANGED slog \/ \E d \in Consumer : AppendBatch(d)
    BY <2>1, <2>2, StoreFrame
  <2>4. ~AppendBatch(c)
    BY <1>3 DEF Step, Handle
  <2> QED
    BY <1>0, <1>1, <1>2, <1>3, <2>3, <2>4, OwnStepOrSame
<1>4. CASE Poll(c) \/ ReadNothing(c)
  <2>1. /\ took'[c] = took[c] /\ fresh'[c] = fresh[c] /\ UNCHANGED slog
        /\ fresh[c] = {}
        /\ log'[c] = NoLog \/ log'[c] = log[c]
    BY <1>0, <1>4 DEF MemoryType, PhaseOK, Poll, ReadNothing, store
  <2> QED
    BY <2>1 DEF InStep
<1>5. CASE Read(c) \/ Claim(c) \/ Restart(c) \/ LoadDoc(c) \/ EndOfBatch(c)
  BY <1>0, <1>5 DEF MemoryType, Read, Claim, Restart, LoadDoc, EndOfBatch, InStep, store
<1>6. CASE NothingToProject(c) \/ Project(c) \/ PutState(c) \/ PutParts(c) \/ Publish(c)
  BY <1>0, <1>6 DEF MemoryType, NothingToProject, Project, PutState, PutParts, Publish, InStep, store
<1>7. CASE Crash(c) \/ Stop(c)
  <2>1. took'[c] = {} /\ fresh'[c] = {} /\ log'[c] = NoLog
    BY <1>0, <1>7 DEF MemoryType, Crash, Stop, Forget
  <2> QED
    BY <2>1 DEF InStep
<1>8. CASE ApplyReset(c)
  <2>1. /\ log'[c] = NoLog /\ fresh'[c] = fresh[c] /\ UNCHANGED slog
        /\ batch[c] # <<>> /\ stream[Head(batch[c])] = Reset /\ pc'[c] = "applying"
    BY <1>0, <1>8 DEF MemoryType, ApplyReset, store
  <2>2. took[c] = {}
    BY <2>1 DEF ResetFirst
  <2> QED
    BY <2>1, <2>2 DEF InStep
<1>9. CASE LoadLog(c)
  <2>1. log[c] = NoLog /\ log'[c] = slog /\ fresh'[c] = fresh[c] /\ UNCHANGED slog
    BY <1>0, <1>9 DEF MemoryType, LoadLog, store
  <2>2. slog # NoLog
    BY <1>0, ValuesDistinct DEF StoreType
  <2> QED
    BY <2>1, <2>2 DEF InStep
<1>10. CASE ApplyRecord(c)
  <2> DEFINE r == stream[Head(batch[c])]
  <2>1. /\ batch[c] # <<>> /\ log[c] # NoLog /\ r # Reset
        /\ log'[c] = log[c] \cup {r} /\ UNCHANGED slog
        /\ fresh'[c] = IF r \in log[c] THEN fresh[c] ELSE fresh[c] \cup {r}
        /\ took'[c] = took[c] \cup {Head(batch[c])} /\ pc'[c] = "applying"
    BY <1>0, <1>10 DEF MemoryType, ApplyRecord, store
  <2>2. took'[c] # {} /\ log'[c] = slog \cup fresh'[c]
    BY <2>1 DEF InStep
  <2>3. log'[c] # NoLog
    <3>1. log' \in [Consumer -> (SUBSET Record) \cup {NoLog}]
      BY MemoryTypeStep DEF MemoryType
    <3>2. log[c] \in SUBSET Record /\ batch[c] \in Seq(1 .. cursor)
      BY <1>0, <2>1 DEF MemoryType
    <3>3. Head(batch[c]) \in 1 .. cursor
      BY <2>1, <3>2, TailFacts
    <3>4. r \in Record
      BY <1>0, <2>1, <3>3 DEF GroupType, Message
    <3> QED
      BY <2>1, <3>2, <3>4, ValuesDistinct
  <2> QED
    BY <2>1, <2>2, <2>3 DEF InStep
<1>11. CASE SkipMessage(c)
  <2>1. /\ log'[c] = NoLog /\ took'[c] = took[c] /\ pc'[c] = "applying" /\ fresh'[c] = fresh[c] /\ UNCHANGED slog
        /\ pc[c] = "loading" \/ log[c] = NoLog
    BY <1>0, <1>11 DEF MemoryType, SkipMessage, store
  <2>2. fresh[c] = {}
    <3>1. CASE log[c] = NoLog
      BY <3>1 DEF InStep
    <3>2. CASE pc[c] = "loading"
      BY <3>2 DEF InStep
    <3> QED
      BY <2>1, <3>1, <3>2
  <2> QED
    BY <2>1, <2>2 DEF InStep
<1>12. CASE AppendBatch(c)
  <2>1. PICK put \in SUBSET fresh[c] :
            /\ slog' = slog \cup put /\ fresh'[c] = fresh[c] \ put
            /\ log'[c] = log[c] /\ took'[c] = took[c] /\ pc'[c] # "loading"
    BY <1>0, <1>12 DEF MemoryType, AppendBatch
  <2> QED
    BY <2>1 DEF InStep
<1>13. CASE AppendFails(c) \/ Conflict(c)
  <2>1. Abandon(c, FALSE) /\ UNCHANGED slog
    BY <1>13 DEF AppendFails, Conflict, store
  <2> QED
    BY <1>0, <2>1, AbandonInStep
<1>14. CASE Ack(c) \/ ProjectFails(c)
  <2>1. Abandon(c, TRUE) /\ fresh[c] = {} /\ UNCHANGED slog
    BY <1>0, <1>14 DEF PhaseOK, Ack, ProjectFails, store
  <2> QED
    BY <1>0, <2>1, AbandonInStep
<1> QED
  BY <1>3, <1>4, <1>5, <1>6, <1>7, <1>8, <1>9, <1>10, <1>11, <1>12, <1>13, <1>14
     DEF Step, Handle, Fault

-----------------------------------------------------------------------------
(* The refinement. *)

WriterInv == IInv /\ Exclusive /\ \A c \in Consumer : InStep(c)

LEMMA WriterInvStep ==
    ASSUME WriterInv, Next, OneWriter
    PROVE  WriterInv'
<1>0. /\ TypeOK /\ PhasesOK /\ IInv /\ Exclusive
      /\ \A c \in Consumer : InStep(c) /\ ResetFirst(c)
  BY OneResetFirst DEF WriterInv, IInv, PhasesOK
<1>1. IInv' /\ Exclusive'
  BY <1>0, NextIInv, ExclusiveStep
<1>2. ASSUME NEW c \in Consumer, NEW d \in Consumer \ {c}, AppendBatch(d)
      PROVE  log[c] = NoLog
  BY <1>0, <1>2 DEF AppendBatch, Exclusive, Remembers
<1>3. ASSUME NEW c \in Consumer PROVE InStep(c)'
  BY <1>0, <1>2, InStepStep
<1> QED
  BY <1>1, <1>3 DEF WriterInv

LEMMA WriterInvariant == OneWriterSpec => []WriterInv
<1>1. Init => WriterInv
  BY InitIInv, InitInStep DEF WriterInv, Init, Exclusive, Remembers
<1>2. WriterInv /\ [Next /\ OneWriter]_vars => WriterInv'
  <2>1. ASSUME WriterInv, UNCHANGED vars PROVE WriterInv'
    BY <2>1, StutterIInv DEF WriterInv, Exclusive, Remembers, InStep, vars, memory, store
  <2> QED
    BY <2>1, WriterInvStep
<1> QED
  BY <1>1, <1>2, PTL DEF OneWriterSpec

\* What a writer projects is the whole of the durable log.
LEMMA ProjectsTheLog ==
    ASSUME WriterInv, NEW c \in Consumer, PutState(c)
    PROVE  /\ state' = slog
           /\ slog' = slog
           /\ state # NoDoc => state \subseteq slog
<1>1. fresh[c] = {} /\ log[c] # NoLog
  BY DEF WriterInv, IInv, PhaseOK, PutState
<1> QED
  BY <1>1 DEF WriterInv, InStep, IInv, DocumentIsBacked, PutState

\* Every step is an Enter, a Rebuild or a stutter of the abstract history.
LEMMA StepRefines ==
    ASSUME WriterInv, [Next]_vars
    PROVE  /\ [Ledger!Next]_(Ledger!ledgerVars)
           /\ [state # NoDoc => state' # NoDoc /\ state \subseteq state']_vars
<1>0. StoreType /\ MemoryType
  BY DEF WriterInv, IInv, TypeOK
<1>1. ASSUME UNCHANGED <<slog, state>> PROVE Ledger!ledgerVars' = Ledger!ledgerVars
  BY <1>1 DEF Ledger!ledgerVars
<1>2. CASE UNCHANGED vars
  BY <1>1, <1>2 DEF vars, store
<1>3. CASE UNCHANGED <<slog, state>>
  BY <1>1, <1>3
<1>4. ASSUME NEW c \in Consumer, AppendBatch(c)
      PROVE  (\E new \in SUBSET (Record \ slog) : slog' = slog \cup new) /\ UNCHANGED state
  <2>1. PICK put \in SUBSET fresh[c] : slog' = slog \cup put
    BY <1>4 DEF AppendBatch
  <2>2. (put \ slog) \in SUBSET (Record \ slog) /\ slog' = slog \cup (put \ slog)
    BY <1>0, <2>1 DEF MemoryType
  <2> QED
    BY <1>4, <2>2 DEF AppendBatch
<1>5. CASE \E c \in Consumer : AppendBatch(c)
  BY <1>4, <1>5 DEF Ledger!Next, Ledger!Enter
<1>6. CASE \E c \in Consumer : PutState(c)
  <2>1. /\ state' = slog /\ slog' = slog
        /\ state # NoDoc => state \subseteq slog
    BY <1>6, ProjectsTheLog
  <2>2. slog # NoDoc
    BY <1>0, ValuesDistinct DEF StoreType
  <2> QED
    BY <2>1, <2>2 DEF Ledger!Next, Ledger!Rebuild
<1>7. ASSUME NEW c \in Consumer, PutParts(c) \/ Publish(c) \/ ProjectFails(c)
      PROVE  UNCHANGED <<slog, state>>
  BY <1>7 DEF PutParts, Publish, ProjectFails
<1>8. UNCHANGED store => UNCHANGED <<slog, state>>
  BY DEF store
<1> QED
  BY <1>2, <1>3, <1>5, <1>6, <1>7, <1>8, StoreFrame

\* With one writer at a time the pipeline is an append-only history and a
\* document each time rebuilt from the whole of it: neither a redelivery, nor a
\* failed write, nor a lost lease, nor a crash at any point, nor the batch going
\* on in another process can make them differ.
THEOREM OneWriterImplements == OneWriterSpec => LedgerSpec
<1>1. Init => Ledger!Init
  BY DEF Init, Ledger!Init
<1>2. WriterInv /\ [Next /\ OneWriter]_vars => [Ledger!Next]_(Ledger!ledgerVars)
  BY StepRefines
<1> QED
  BY <1>1, <1>2, WriterInvariant, PTL DEF OneWriterSpec, LedgerSpec, Ledger!Spec

\* With one writer at a time nothing a document has shown ever disappears.
THEOREM OneWriterOnlyGrows == OneWriterSpec => DocumentOnlyGrows
<1>1. WriterInv /\ [Next /\ OneWriter]_vars =>
          [state # NoDoc => state' # NoDoc /\ state \subseteq state']_vars
  BY StepRefines
<1> QED
  BY <1>1, WriterInvariant, PTL DEF OneWriterSpec, DocumentOnlyGrows

-----------------------------------------------------------------------------
(* What is settled is complete and whole. *)

InHand(c) == took[c] \cup {batch[c][i] : i \in DOMAIN batch[c]}
Complete == LiveMeta /\ slog \cap Event # {} => state = slog

\* While the writer holds everything that is pending, only the batch it has in
\* hand keeps the document from being complete and its items from agreeing.
\* What it once left behind stays pending.
Flow(c) ==
    /\ InHand(c) \subseteq pending
    /\ pc[c] \notin {"down", "idle", "polling"} => pending # {}
    /\ pending \subseteq InHand(c) =>
        /\ pc[c] # "parts" => parts = state
        /\ pc[c] = "parts" => state = slog
        /\ \/ pc[c] \in {"down", "idle", "polling", "applying", "loading", "publishing", "acking"}
           \/ log[c] = NoLog
           => Complete

\* A sequence holds its head and what its tail holds.
LEMMA HeadAndTail ==
    ASSUME NEW S, NEW s \in Seq(S), s # <<>>
    PROVE  {s[i] : i \in DOMAIN s} = {Head(s)} \cup {Tail(s)[i] : i \in DOMAIN Tail(s)}
<1>1. /\ Head(s) = s[1] /\ Len(s) \in Nat \ {0} /\ Len(Tail(s)) = Len(s) - 1
      /\ DOMAIN s = 1 .. Len(s) /\ DOMAIN Tail(s) = 1 .. Len(Tail(s))
      /\ \A i \in 1 .. Len(Tail(s)) : Tail(s)[i] = s[i + 1]
  BY TailFacts
<1>2. ASSUME NEW i \in DOMAIN s, i # 1
      PROVE  \E j \in DOMAIN Tail(s) : s[i] = Tail(s)[j]
  <2>1. i - 1 \in DOMAIN Tail(s) /\ Tail(s)[i - 1] = s[i]
    BY <1>1, <1>2
  <2> QED
    BY <2>1
<1>3. ASSUME NEW j \in DOMAIN Tail(s)
      PROVE  j + 1 \in DOMAIN s /\ s[j + 1] = Tail(s)[j]
  BY <1>1
<1>4. 1 \in DOMAIN s /\ s[1] = Head(s)
  BY <1>1
<1> DEFINE t == Tail(s)
           h == Head(s)
<1>5. /\ \A i \in DOMAIN s : s[i] = h \/ \E j \in DOMAIN t : s[i] = t[j]
      /\ \A j \in DOMAIN t : \E i \in DOMAIN s : t[j] = s[i]
      /\ \E i \in DOMAIN s : s[i] = h
  BY <1>2, <1>3, <1>4
<1> HIDE DEF t, h
<1>6. {s[i] : i \in DOMAIN s} = {h} \cup {t[i] : i \in DOMAIN t}
  BY <1>5
<1> QED
  BY <1>6 DEF t, h

LEMMA InitFlow == ASSUME NEW c \in Consumer, Init PROVE Flow(c)
  BY DEF Init, Flow, InHand, Complete

\* The batch is over and something of it stays pending.
LEMMA LeftBehind ==
    ASSUME MemoryType, NEW c \in Consumer, Flow(c), NEW k, Abandon(c, k), pending # {},
           UNCHANGED pending
    PROVE  Flow(c)'
<1>1. took'[c] = {} /\ batch'[c] = <<>> /\ pc'[c] = "idle"
  BY DEF MemoryType, Abandon
<1>2. InHand(c)' = {}
  BY <1>1 DEF InHand
<1> QED
  BY <1>1, <1>2 DEF Flow

\* Where the batch and the store stay, so does what is said of them.
LEMMA SameFlow ==
    ASSUME NEW c \in Consumer, Flow(c), UNCHANGED <<pending, slog, state, parts>>,
           InHand(c)' = InHand(c), pc'[c] \in {"down", "idle", "polling"} \/ pending # {},
           \/ pc[c] \in {"down", "idle", "polling", "applying", "loading", "acking"}
              /\ pc'[c] # "parts"
           \/ pc[c] = "publishing" /\ pc'[c] # "parts"
           \/ pc[c] = "projecting" /\ pc'[c] = "putting" /\ log'[c] = log[c]
    PROVE  Flow(c)'
  BY DEF Flow, Complete

\* Every step of the writer.
LEMMA FlowStep ==
    ASSUME NEW c \in Worker, Sole(c), TypeOK, PhaseOK(c), Flow(c), Next,
           pc[c] \in {"appending", "projecting", "putting", "parts", "publishing"} => InStep(c)
    PROVE  Flow(c)'
<1>0. /\ c \in Consumer /\ Reclaimer = {}
      /\ MemoryType /\ GroupType /\ PhaseOK(c)
      /\ batch[c] \in Seq(1 .. cursor) /\ cursor \in Nat /\ pending \subseteq 1 .. cursor
      /\ \A d \in Consumer : d = c
  BY ConsumersDistinct DEF Consumer, Sole, TypeOK, MemoryType, GroupType
<1>1. CASE UNCHANGED <<memory, store, pending>>
  BY <1>1 DEF memory, store, Flow, InHand, Complete
<1>2. CASE (\E m \in Record : Produce(m)) \/ ExpireDead \/ Lapse
  BY <1>1, <1>2 DEF Produce, ExpireDead, Lapse, groupVars
<1>3. CASE TakeLease(c) \/ NoticeLost(c) \/ GiveBack(c)
  BY <1>1, <1>3 DEF TakeLease, NoticeLost, GiveBack, groupVars
<1>4. CASE Poll(c) \/ ReadNothing(c) \/ Restart(c)
  <2>1. /\ pc[c] \in {"down", "idle", "polling"} /\ pc'[c] \in {"down", "idle", "polling"}
        /\ UNCHANGED <<pending, slog, state, parts>> /\ InHand(c)' = InHand(c)
    BY <1>0, <1>4 DEF Poll, ReadNothing, Restart, MemoryType, groupVars, store, InHand
  <2> QED
    BY <1>0, <2>1, SameFlow
<1>5. CASE Read(c)
  <2>1. PICK n \in 1 .. BatchSize :
          /\ pending' = pending \cup (cursor + 1 .. cursor + n)
          /\ batch' = [batch EXCEPT ![c] = [i \in 1 .. n |-> cursor + i]]
    BY <1>5 DEF Read
  <2>2. /\ pc[c] = "polling" /\ pc'[c] = "applying" /\ took'[c] = {} /\ took[c] = {} /\ batch[c] = <<>>
        /\ batch'[c] = [i \in 1 .. n |-> cursor + i] /\ UNCHANGED <<slog, state, parts>>
    BY <1>0, <1>5, <2>1 DEF Read, MemoryType, PhaseOK, store
  <2>3. n \in Nat /\ n >= 1
    BY ParametersOK
  <2>4. InHand(c)' = cursor + 1 .. cursor + n /\ InHand(c) = {}
    <3>1. ASSUME NEW m \in cursor + 1 .. cursor + n
          PROVE  \E i \in 1 .. n : m = cursor + i
      <4>1. m - cursor \in 1 .. n /\ m = cursor + (m - cursor)
        BY <1>0, <2>3
      <4> QED
        BY <4>1
    <3>2. {cursor + i : i \in 1 .. n} = cursor + 1 .. cursor + n
      BY <1>0, <2>3, <3>1
    <3> QED
      BY <2>2, <3>2 DEF InHand
  <2>5. cursor + 1 \in pending'
    BY <1>0, <2>1, <2>3
  <2>6. pending' \subseteq InHand(c)' => pending \subseteq InHand(c)
    BY <1>0, <2>1, <2>3, <2>4
  <2> QED
    BY <2>1, <2>2, <2>4, <2>5, <2>6 DEF Flow, Complete
<1>6. CASE ApplyReset(c) \/ ApplyRecord(c)
  <2>1. /\ pc[c] = "applying" /\ pc'[c] = "applying" /\ batch[c] # <<>>
        /\ took'[c] = took[c] \cup {Head(batch[c])} /\ batch'[c] = Tail(batch[c])
        /\ UNCHANGED <<pending, slog, state, parts>>
    BY <1>0, <1>6 DEF ApplyReset, ApplyRecord, MemoryType, groupVars, store
  <2>2. InHand(c)' = InHand(c)
    <3> DEFINE b == batch[c]
    <3>1. {b[i] : i \in DOMAIN b} = {Head(b)} \cup {Tail(b)[i] : i \in DOMAIN Tail(b)}
      <4>1. b \in Seq(1 .. cursor) /\ b # <<>>
        BY <1>0, <2>1
      <4> HIDE DEF b
      <4> QED
        BY <4>1, HeadAndTail
    <3>2. InHand(c)' = (took[c] \cup {Head(b)}) \cup {Tail(b)[i] : i \in DOMAIN Tail(b)}
      BY <2>1 DEF InHand
    <3> QED
      BY <3>1, <3>2 DEF InHand
  <2> QED
    BY <1>0, <2>1, <2>2, SameFlow DEF Flow
<1>7. CASE LoadLog(c) \/ LoadDoc(c)
  <2>1. /\ pc[c] \in {"applying", "loading"} /\ pc'[c] \in {"applying", "loading"}
        /\ UNCHANGED <<pending, slog, state, parts>> /\ InHand(c)' = InHand(c)
    BY <1>0, <1>7 DEF LoadLog, LoadDoc, MemoryType, groupVars, store, InHand
  <2> QED
    BY <1>0, <2>1, SameFlow DEF Flow
<1>8. CASE SkipMessage(c)
  <2>1. /\ pc[c] \in {"applying", "loading"} /\ pc'[c] = "applying" /\ batch[c] # <<>>
        /\ took'[c] = took[c] /\ batch'[c] = Tail(batch[c])
        /\ UNCHANGED <<pending, slog, state, parts>>
    BY <1>0, <1>8 DEF SkipMessage, MemoryType, PhaseOK, groupVars, store
  <2>2. InHand(c)' \subseteq InHand(c)
    BY <1>0, <2>1, HeadAndTail DEF InHand
  <2> QED
    BY <2>1, <2>2 DEF Flow, Complete
<1>9. CASE EndOfBatch(c)
  <2>1. /\ pc[c] = "applying" /\ pc'[c] \in {"projecting", "appending"}
        /\ InHand(c)' = InHand(c) /\ UNCHANGED <<pending, slog, state, parts>>
    BY <1>0, <1>9 DEF EndOfBatch, MemoryType, groupVars, store, InHand
  <2> QED
    BY <1>0, <2>1, SameFlow DEF Flow
<1>10. CASE AppendBatch(c)
  <2>1. /\ pc[c] = "appending" /\ pc'[c] \in {"projecting", "appending"} /\ fresh[c] # {}
        /\ log'[c] = log[c] /\ InHand(c)' = InHand(c) /\ UNCHANGED <<pending, state, parts>>
    BY <1>0, <1>10 DEF AppendBatch, MemoryType, groupVars, InHand
  <2>2. log[c] # NoLog
    BY <1>0, <2>1 DEF InStep
  <2> QED
    BY <2>1, <2>2 DEF Flow
<1>11. CASE NothingToProject(c)
  <2>1. /\ pc[c] = "projecting" /\ pc'[c] = "acking" /\ fresh[c] = {}
        /\ log[c] = NoLog \/ log[c] \cap Event = {} \/ ~LiveMeta
        /\ InHand(c)' = InHand(c) /\ UNCHANGED <<pending, slog, state, parts>>
    BY <1>0, <1>11 DEF NothingToProject, MemoryType, PhaseOK, groupVars, store, InHand
  <2>2. log[c] # NoLog => Complete
    BY <1>0, <2>1 DEF InStep, Complete
  <2> QED
    BY <2>1, <2>2 DEF Flow, Complete
<1>12. CASE Project(c)
  <2>1. /\ pc[c] = "projecting" /\ pc'[c] = "putting" /\ log'[c] = log[c]
        /\ InHand(c)' = InHand(c) /\ UNCHANGED <<pending, slog, state, parts>>
    BY <1>0, <1>12 DEF Project, MemoryType, groupVars, store, InHand
  <2> QED
    BY <1>0, <2>1, SameFlow DEF Flow
<1>13. CASE PutState(c) \/ PutParts(c) \/ Publish(c)
  <2>1. /\ log[c] = slog /\ log[c] # NoLog /\ log'[c] = log[c]
        /\ InHand(c)' = InHand(c) /\ UNCHANGED <<pending, slog>>
    <3>1. /\ pc[c] \in {"putting", "parts", "publishing"}
          /\ UNCHANGED <<log, batch, took, pending, slog>>
      BY <1>13 DEF PutState, PutParts, Publish, groupVars
    <3>2. log[c] # NoLog /\ fresh[c] = {}
      BY <1>0, <3>1 DEF PhaseOK
    <3> QED
      BY <1>0, <3>1, <3>2 DEF InStep, InHand
  <2>2. CASE PutState(c)
    BY <1>0, <2>1, <2>2 DEF PutState, MemoryType, Flow
  <2>3. CASE PutParts(c)
    BY <1>0, <2>1, <2>3 DEF PutParts, MemoryType, Flow, Complete
  <2>4. CASE Publish(c)
    <3>1. pc[c] = "publishing" /\ pc'[c] = "acking" /\ UNCHANGED <<state, parts>>
      BY <1>0, <2>4 DEF Publish, MemoryType
    <3> QED
      BY <1>0, <2>1, <3>1, SameFlow DEF Flow
  <2> QED
    BY <1>13, <2>2, <2>3, <2>4
<1>14. CASE AppendFails(c) \/ Conflict(c) \/ ProjectFails(c)
  <2>1. pending # {} /\ UNCHANGED pending
    BY <1>14 DEF AppendFails, Conflict, ProjectFails, Flow, groupVars
  <2>2. Abandon(c, TRUE) \/ Abandon(c, FALSE)
    BY <1>14 DEF AppendFails, Conflict, ProjectFails
  <2> QED
    BY <1>0, <2>1, <2>2, LeftBehind
<1>15. CASE Ack(c)
  <2>1. /\ pc[c] = "acking" /\ pc'[c] = "idle" /\ pending' = pending \ took[c]
        /\ took'[c] = {} /\ batch'[c] = <<>> /\ UNCHANGED <<slog, state, parts>>
    BY <1>0, <1>15 DEF Ack, Abandon, MemoryType, store
  <2>2. InHand(c)' = {} /\ took[c] \subseteq InHand(c)
    BY <2>1 DEF InHand
  <2> QED
    BY <2>1, <2>2 DEF Flow, Complete
<1>16. CASE Crash(c) \/ Stop(c)
  <2>1. /\ pc'[c] = "down" /\ took'[c] = {} /\ batch'[c] = <<>>
        /\ UNCHANGED <<pending, slog, state, parts>>
    BY <1>0, <1>16 DEF Crash, Stop, Forget, MemoryType, groupVars, store
  <2>2. InHand(c)' = {}
    BY <2>1 DEF InHand
  <2> QED
    BY <2>1, <2>2 DEF Flow, Complete
<1> QED
  BY <1>0, <1>2, <1>3, <1>4, <1>5, <1>6, <1>7, <1>8, <1>9, <1>10, <1>11, <1>12, <1>13,
     <1>14, <1>15, <1>16 DEF Next, WorkerStep, Handle, Fault, Consumer

-----------------------------------------------------------------------------
(* What is acknowledged stays in the writer's document. *)

KeptBy(c) ==
    /\ LiveMeta /\ pc[c] \in {"parts", "publishing", "acking"} =>
           \A m \in took[c] : stream[m] # Reset => InDocument(stream[m])
    /\ pc[c] = "putting" => log[c] \cap Event # {}

Kept ==
    /\ AckedIsKept
    /\ state # NoDoc => state \cap Event # {}
    /\ \A c \in Consumer : KeptBy(c)

\* The document is left alone or rebuilt from the whole log.
LEMMA RebuiltOrLeft ==
    ASSUME WriterInv, Next
    PROVE  \/ state' = state
           \/ \E c \in Consumer : PutState(c) /\ state' = slog /\ state' = log[c]
<1>1. \A c \in Consumer : PutState(c) => state' = slog
  BY ProjectsTheLog
<1>2. \A c \in Consumer : PutState(c) => state' = log[c]
  BY DEF PutState
<1>3. UNCHANGED store => state' = state
  BY DEF store
<1>4. ASSUME NEW d \in Consumer, AppendBatch(d) \/ PutParts(d) \/ Publish(d) \/ ProjectFails(d)
      PROVE  state' = state
  BY <1>4 DEF AppendBatch, PutParts, Publish, ProjectFails
<1> QED
  BY <1>1, <1>2, <1>3, <1>4, StoreFrame

\* So what was in it, and what is durable when it is rebuilt, is in it.
LEMMA StaysInDocument ==
    ASSUME WriterInv, Next, NEW r \in slog, InDocument(r)
    PROVE  InDocument(r)'
<1>1. slog # NoDoc
  BY ValuesDistinct DEF WriterInv, IInv, TypeOK, StoreType
<1> QED
  BY <1>1, RebuiltOrLeft DEF InDocument

\* From the STATE write on, so is what the batch has taken.
LEMMA TakenIsInDocument ==
    ASSUME WriterInv, Next, Kept, LiveMeta,
           NEW c \in Consumer, pc'[c] \in {"parts", "publishing", "acking"},
           NEW m \in took'[c], stream'[m] # Reset
    PROVE  InDocument(stream[m])' /\ stream'[m] = stream[m]
<1>0. /\ MemoryType /\ GroupType /\ StoreType /\ PhaseOK(c) /\ TakenIsHeld(c) /\ HoldsDurable(c)
      /\ InStep(c) /\ KeptBy(c)
  BY DEF WriterInv, IInv, TypeOK, MemoryIsBacked, HoldsDurable, Kept
<1>1. took[c] \subseteq 1 .. cursor
  BY <1>0 DEF MemoryType
<1>2. ASSUME m \in took[c], stream[m] # Reset, pc[c] # "loading", fresh[c] = {}
      PROVE  log[c] # NoLog /\ stream[m] \in log[c] /\ stream[m] \in slog
  BY <1>0, <1>2 DEF TakenIsHeld, HoldsDurable
<1>3. ASSUME took'[c] = took[c] PROVE stream'[m] = stream[m]
  BY <1>1, <1>3, OnlyGrows DEF WriterInv, IInv
<1>4. CASE PutState(c)
  <2>1. took'[c] = took[c] /\ pc[c] = "putting" /\ fresh[c] = {} /\ state' = slog
    BY <1>0, <1>4, ProjectsTheLog DEF PutState, PhaseOK
  <2>2. slog # NoDoc
    BY <1>0, ValuesDistinct DEF StoreType
  <2> QED
    BY <1>2, <1>3, <2>1, <2>2 DEF InDocument
<1>5. CASE NothingToProject(c)
  <2>1. /\ took'[c] = took[c] /\ pc[c] = "projecting" /\ fresh[c] = {}
        /\ log[c] = NoLog \/ log[c] \cap Event = {}
        /\ UNCHANGED <<stream, state>>
    BY <1>0, <1>5 DEF NothingToProject, PhaseOK, groupVars, store
  <2>2. stream[m] \in log[c] /\ log[c] \cap Event = {} /\ log[c] = slog
    BY <1>0, <1>2, <2>1 DEF InStep
  <2>3. state = NoDoc
    BY <2>2 DEF Kept, WriterInv, IInv, DocumentIsBacked
  <2>4. stream[m] \in Correction
    BY <1>0, <2>2 DEF StoreType, Record
  <2> QED
    BY <2>1, <2>3, <2>4 DEF InDocument
<1>6. CASE pc[c] \in {"parts", "publishing", "acking"} /\ took'[c] = took[c]
  <2>1. fresh[c] = {} /\ stream[m] \in slog /\ InDocument(stream[m])
    BY <1>0, <1>2, <1>3, <1>6 DEF PhaseOK, KeptBy
  <2> QED
    BY <1>3, <1>6, <2>1, StaysInDocument DEF InDocument
<1>7. CASE Same(c)
  BY <1>6, <1>7 DEF Same
<1>8. CASE PutParts(c) \/ Publish(c)
  BY <1>6, <1>8 DEF PutParts, Publish
<1>9. ASSUME NEW k, Abandon(c, k) PROVE FALSE
  BY <1>0, <1>9 DEF Abandon, MemoryType
<1>10. CASE Conflict(c) \/ Ack(c) \/ AppendFails(c) \/ ProjectFails(c)
  BY <1>9, <1>10 DEF Conflict, Ack, AppendFails, ProjectFails
<1>11. CASE \/ Poll(c) \/ Read(c) \/ ReadNothing(c) \/ Stop(c) \/ Claim(c) \/ Crash(c)
            \/ Restart(c)
  BY <1>0, <1>11 DEF Poll, Read, ReadNothing, Stop, Claim, Crash, Restart, MemoryType
<1>12. CASE \/ ApplyReset(c) \/ LoadLog(c) \/ LoadDoc(c) \/ ApplyRecord(c) \/ EndOfBatch(c)
            \/ AppendBatch(c) \/ Project(c) \/ SkipMessage(c)
  <2>1. pc'[c] \in {"applying", "loading", "appending", "projecting", "putting"}
    BY <1>0, <1>12 DEF ApplyReset, LoadLog, LoadDoc, ApplyRecord, EndOfBatch, AppendBatch,
       Project, SkipMessage, MemoryType
  <2> QED
    BY <2>1
<1> QED
  BY <1>0, <1>4, <1>5, <1>7, <1>8, <1>10, <1>11, <1>12, OwnStepOrSame DEF Step, Handle, Fault

\* A consumer on its way to write has events to project.
LEMMA ProjectsEvents ==
    ASSUME MemoryType, Next, NEW c \in Consumer, PhaseOK(c),
           pc[c] = "putting" => log[c] \cap Event # {}, pc'[c] = "putting"
    PROVE  log'[c] \cap Event # {}
<1>1. CASE Same(c)
  BY <1>1 DEF Same
<1>2. CASE Project(c)
  BY <1>2 DEF Project
<1>3. ASSUME NEW k, Abandon(c, k) PROVE FALSE
  BY <1>3 DEF Abandon, MemoryType
<1>4. CASE Conflict(c) \/ Ack(c) \/ AppendFails(c) \/ ProjectFails(c)
  BY <1>3, <1>4 DEF Conflict, Ack, AppendFails, ProjectFails
<1>5. CASE \/ Poll(c) \/ Read(c) \/ ReadNothing(c) \/ Stop(c) \/ Claim(c) \/ Crash(c)
           \/ Restart(c)
  BY <1>5 DEF Poll, Read, ReadNothing, Stop, Claim, Crash, Restart, MemoryType
<1>6. CASE \/ ApplyReset(c) \/ LoadLog(c) \/ LoadDoc(c) \/ ApplyRecord(c) \/ EndOfBatch(c)
           \/ AppendBatch(c) \/ SkipMessage(c)
  BY <1>6 DEF ApplyReset, LoadLog, LoadDoc, ApplyRecord, EndOfBatch, AppendBatch,
     SkipMessage, MemoryType
<1>7. CASE NothingToProject(c) \/ PutState(c) \/ PutParts(c) \/ Publish(c)
  BY <1>7 DEF NothingToProject, PutState, PutParts, Publish, MemoryType
<1> QED
  BY <1>1, <1>2, <1>4, <1>5, <1>6, <1>7, OwnStepOrSame DEF Step, Handle, Fault

LEMMA KeptStep ==
    ASSUME WriterInv, Next, Kept
    PROVE  Kept'
<1>0. MemoryType /\ StoreType /\ TypeOK /\ \A c \in Consumer : PhaseOK(c)
  BY DEF WriterInv, IInv, TypeOK
<1>1. AckedIsKept'
  <2> SUFFICES ASSUME LiveMeta, NEW m \in Acknowledged', stream'[m] # Reset
               PROVE  InDocument(stream[m])'
    BY DEF AckedIsKept
  <2>1. /\ m \in 1 .. cursor /\ stream'[m] = stream[m]
        /\ m \in Acknowledged \/ \E c \in Consumer : Ack(c) /\ m \in took[c]
    BY <1>0, NewlyAcknowledged, OnlyGrows
  <2>2. CASE m \in Acknowledged
    <3>1. InDocument(stream[m]) /\ stream[m] \in slog
      BY <2>1, <2>2 DEF Kept, AckedIsKept, WriterInv, IInv, AckedIsDurable
    <3> QED
      BY <2>1, <3>1, StaysInDocument DEF InDocument
  <2>3. ASSUME NEW c \in Consumer, Ack(c), m \in took[c] PROVE InDocument(stream[m])'
    <3>1. pc[c] = "acking" /\ UNCHANGED <<stream, state>>
      BY <2>3 DEF Ack, store
    <3> QED
      BY <2>1, <2>3, <3>1 DEF Kept, KeptBy, InDocument
  <2> QED
    BY <2>1, <2>2, <2>3
<1>2. ASSUME NEW c \in Consumer PROVE KeptBy(c)'
  <2>1. (LiveMeta /\ pc[c] \in {"parts", "publishing", "acking"} =>
             \A m \in took[c] : stream[m] # Reset => InDocument(stream[m]))'
    BY TakenIsInDocument DEF InDocument
  <2>2. (pc[c] = "putting" => log[c] \cap Event # {})'
    BY <1>0, ProjectsEvents DEF Kept, KeptBy
  <2> QED
    BY <2>1, <2>2 DEF KeptBy
<1>3. (state # NoDoc => state \cap Event # {})'
  <2>1. \A c \in Consumer : PutState(c) => log[c] \cap Event # {}
    BY DEF PutState, Kept, KeptBy
  <2> QED
    BY <2>1, RebuiltOrLeft DEF Kept
<1> QED
  BY <1>1, <1>2, <1>3 DEF Kept

\* With one writer at a time, whatever fails, crashes, lapses or comes again,
\* an acknowledged event never leaves the document and an acknowledged
\* correction is in every document there is: what a failure left pending does
\* not take along what was acknowledged before or after it.
THEOREM OneWriterKeeps == OneWriterSpec => []AckedIsKept
<1>1. Init => Kept
  BY DEF Init, Kept, KeptBy, AckedIsKept, Acknowledged
<1>2. WriterInv /\ Kept /\ [Next /\ OneWriter]_vars => Kept'
  <2>1. ASSUME UNCHANGED vars, Kept PROVE Kept'
    BY <2>1 DEF vars, groupVars, memory, store, Kept, KeptBy, AckedIsKept, Acknowledged, InDocument
  <2> QED
    BY <2>1, KeptStep
<1>3. Kept => AckedIsKept
  BY DEF Kept
<1> QED
  BY <1>1, <1>2, <1>3, WriterInvariant, PTL DEF OneWriterSpec

-----------------------------------------------------------------------------
(***************************************************************************)
(* Both halves.                                                            *)
(*                                                                         *)
(* A document whose second half was never written is always owed by        *)
(* somebody: one of the records it was written for is pending, and whoever *)
(* has it in hand, the one that failed, another worker or the reclaimer,   *)
(* has still to write both halves.                                         *)
(***************************************************************************)

Writing == {"appending", "projecting", "putting", "parts", "publishing", "acking"}

\* A consumer that comes to write has a record in hand, and the reclaimer
\* begins every batch without a log.
Turn(c) ==
    /\ pc[c] \in Writing => batch[c] = <<>>
    /\ pc[c] \in {"applying"} \cup Writing /\ batch[c] = <<>> /\ log[c] # NoLog =>
           \E m \in took[c] : stream[m] \in Record
    /\ c \in Reclaimer /\ pc[c] \in {"down", "idle", "polling"} => log[c] = NoLog
    /\ pc[c] = "putting" => LiveMeta /\ log[c] \cap Event # {}

\* A message is in one pair of hands at a time, and pending while it is.
Apart ==
    /\ \A c \in Consumer : InHand(c) \subseteq pending
    /\ \A c, d \in Consumer : c # d => InHand(c) \cap InHand(d) = {}

\* A record that stands for a half-written document.
Owed(m) ==
    /\ m \in pending /\ stream[m] \in Record
    /\ \A c \in Consumer : m \in InHand(c) =>
           /\ pc[c] \in {"applying", "loading", "appending", "projecting", "putting"}
           /\ log[c] # NoLog => log[c] \cap Event # {}

Halves ==
    /\ state # NoDoc => LiveMeta /\ state \cap Event # {}
    /\ \A c \in Consumer : pc[c] = "parts" => log[c] = state
    /\ \/ parts = state
       \/ \E c \in Consumer : pc[c] = "parts"
       \/ state # NoDoc /\ \E m \in pending : Owed(m)

WholeInv == WriterInv /\ (\A c \in Consumer : Turn(c)) /\ Apart /\ Halves

\* Whatever is claimed is pending and in nobody's hands.
LEMMA ClaimedIdle ==
    ASSUME MemoryType, PhasesOK, OneWriter, NEW c \in Consumer, Claim(c)
    PROVE  /\ InHand(c)' \subseteq pending
           /\ \A d \in Consumer : InHand(c)' \cap InHand(d) = {}
           /\ batch'[c] # <<>>
<1> DEFINE idle == IF SlowBatch THEN pending ELSE pending \ Busy
<1>0. PICK n \in 1 .. Cardinality(idle) :
          \E ids \in [1 .. n -> idle] : batch' = [batch EXCEPT ![c] = ids]
  BY DEF Claim
<1>1. PICK ids \in [1 .. n -> idle] : batch' = [batch EXCEPT ![c] = ids]
  BY <1>0
<1>2. batch'[c] = ids /\ took'[c] = {} /\ n \in Nat /\ n >= 1
  BY <1>1 DEF Claim, MemoryType, PhasesOK, PhaseOK
<1>3. InHand(c)' \subseteq idle /\ idle \subseteq pending
  BY <1>2 DEF InHand
<1>4. ASSUME NEW d \in Consumer PROVE InHand(d) = {}
  <2>1. pc[c] = "idle" /\ pc'[c] = "applying"
    BY DEF Claim, MemoryType
  <2>2. pc[d] \in {"down", "idle", "polling"}
    BY <2>1 DEF OneWriter, Remembers
  <2> QED
    BY <2>2 DEF PhasesOK, PhaseOK, InHand
<1>5. batch'[c] # <<>>
  <2>1. 1 \in DOMAIN ids
    BY <1>2
  <2> QED
    BY <1>2, <2>1
<1> QED
  BY <1>3, <1>4, <1>5

\* Only a delivery or a claim puts messages into a consumer's hands.
LEMMA HandStep ==
    ASSUME TypeOK, PhasesOK, Next, NEW c \in Consumer
    PROVE  \/ InHand(c)' \subseteq InHand(c)
           \/ c \in Worker /\ Read(c)
           \/ c \in Reclaimer /\ Claim(c)
<1>0. MemoryType /\ PhaseOK(c) /\ batch[c] \in Seq(1 .. cursor)
  BY DEF TypeOK, MemoryType, PhasesOK
<1>1. CASE Same(c)
  BY <1>1 DEF Same, InHand
<1>2. CASE batch'[c] = <<>> /\ took'[c] = {}
  BY <1>2 DEF InHand
<1>3. ASSUME batch[c] # <<>>, batch'[c] = Tail(batch[c]),
             took'[c] \subseteq took[c] \cup {Head(batch[c])}
      PROVE  InHand(c)' \subseteq InHand(c)
  <2> DEFINE b == batch[c]
  <2>1. {b[i] : i \in DOMAIN b} = {Head(b)} \cup {Tail(b)[i] : i \in DOMAIN Tail(b)}
    <3>1. b \in Seq(1 .. cursor) /\ b # <<>>
      BY <1>0, <1>3
    <3> HIDE DEF b
    <3> QED
      BY <3>1, HeadAndTail
  <2>2. InHand(c)' = took'[c] \cup {Tail(b)[i] : i \in DOMAIN Tail(b)}
    BY <1>3 DEF InHand
  <2> QED
    BY <1>3, <2>1, <2>2 DEF InHand
<1>4. ASSUME NEW d \in Consumer, Step(d), d # c PROVE Same(c)
  BY <1>0, <1>4, OthersUnchanged
<1>5. UNCHANGED memory => Same(c)
  BY DEF memory, Same
<1>6. CASE ApplyReset(c) \/ ApplyRecord(c) \/ SkipMessage(c)
  <2>1. /\ batch[c] # <<>> /\ batch'[c] = Tail(batch[c])
        /\ took'[c] \subseteq took[c] \cup {Head(batch[c])}
    BY <1>0, <1>6 DEF ApplyReset, ApplyRecord, SkipMessage, MemoryType, PhaseOK
  <2> QED
    BY <1>3, <2>1
<1>7. CASE \/ LoadLog(c) \/ LoadDoc(c) \/ EndOfBatch(c) \/ AppendBatch(c)
           \/ NothingToProject(c) \/ Project(c) \/ PutState(c) \/ PutParts(c) \/ Publish(c)
           \/ Poll(c) \/ ReadNothing(c) \/ Restart(c)
  BY <1>7 DEF LoadLog, LoadDoc, EndOfBatch, AppendBatch, NothingToProject, Project, PutState,
     PutParts, Publish, Poll, ReadNothing, Restart, InHand
<1>8. ASSUME NEW k, Abandon(c, k) PROVE batch'[c] = <<>> /\ took'[c] = {}
  BY <1>0, <1>8 DEF Abandon, MemoryType
<1>9. CASE Conflict(c) \/ Ack(c) \/ AppendFails(c) \/ ProjectFails(c)
  BY <1>2, <1>8, <1>9 DEF Conflict, Ack, AppendFails, ProjectFails
<1>10. CASE Crash(c) \/ Stop(c)
  BY <1>0, <1>2, <1>10 DEF Crash, Stop, Forget, MemoryType
<1> QED
  BY <1>1, <1>4, <1>5, <1>6, <1>7, <1>9, <1>10, MemoryFrame DEF Step, Handle, Fault

LEMMA ApartStep ==
    ASSUME TypeOK, PhasesOK, OneWriter, Apart, Next
    PROVE  Apart'
<1>0. /\ MemoryType /\ GroupType /\ cursor \in Nat /\ pending \subseteq 1 .. cursor
      /\ Worker \subseteq Consumer /\ Reclaimer \subseteq Consumer
  BY DEF TypeOK, GroupType, Consumer
<1>1. ASSUME NEW c \in Consumer, \A d \in Consumer \ {c} : InHand(d)' \subseteq InHand(d),
             \A d \in Consumer \ {c} : InHand(c)' \cap InHand(d) = {}
      PROVE  \A d, e \in Consumer : d # e => InHand(d)' \cap InHand(e)' = {}
  BY <1>1 DEF Apart
<1>2. ASSUME NEW w \in Worker, Read(w) PROVE Apart'
  <2>1. PICK n \in 1 .. BatchSize :
            /\ pending' = pending \cup (cursor + 1 .. cursor + n)
            /\ batch' = [batch EXCEPT ![w] = [i \in 1 .. n |-> cursor + i]]
    BY <1>2 DEF Read
  <2>2. n \in Nat
    BY ParametersOK
  <2>3. InHand(w)' \subseteq cursor + 1 .. cursor + n
    <3>1. batch'[w] = [i \in 1 .. n |-> cursor + i] /\ took'[w] = {}
      BY <1>0, <1>2, <2>1 DEF Read, MemoryType, PhasesOK, PhaseOK
    <3> QED
      BY <1>0, <2>2, <3>1 DEF InHand
  <2>4. \A d \in Consumer \ {w} : InHand(d)' = InHand(d)
    BY <1>0, <1>2, OthersUnchanged DEF Step, Same, InHand
  <2>5. \A d \in Consumer : InHand(d) \subseteq 1 .. cursor
    BY <1>0 DEF Apart
  <2>6. \A d \in Consumer \ {w} : InHand(w)' \cap InHand(d) = {}
    BY <1>0, <2>2, <2>3, <2>5
  <2> QED
    BY <1>0, <1>1, <2>1, <2>3, <2>4, <2>6 DEF Apart
<1>3. ASSUME NEW r \in Reclaimer, Claim(r) PROVE Apart'
  <2>1. UNCHANGED pending
    BY <1>3 DEF Claim, groupVars
  <2>2. \A d \in Consumer \ {r} : InHand(d)' = InHand(d)
    BY <1>0, <1>3, OthersUnchanged DEF Step, Same, InHand
  <2> QED
    BY <1>0, <1>1, <1>3, <2>1, <2>2, ClaimedIdle DEF Apart
<1>4. CASE ~ (\E w \in Worker : Read(w)) /\ ~ (\E r \in Reclaimer : Claim(r))
  <2>1. \A c \in Consumer : InHand(c)' \subseteq InHand(c)
    BY <1>4, HandStep
  <2>2. ASSUME NEW c \in Consumer, Ack(c) PROVE Apart'
    <3>1. pending' = pending \ took[c] /\ InHand(c)' = {} /\ took[c] \subseteq InHand(c)
      BY <1>0, <2>2 DEF Ack, Abandon, InHand, MemoryType
    <3> QED
      BY <2>1, <3>1 DEF Apart
  <2>3. ASSUME pending' = pending PROVE Apart'
    BY <2>1, <2>3 DEF Apart
  <2>4. ASSUME NEW m \in Record, Produce(m) PROVE pending' = pending
    BY <2>4 DEF Produce
  <2> QED
    BY <1>4, <2>2, <2>3, <2>4, GroupFrame DEF groupVars
<1> QED
  BY <1>2, <1>3, <1>4

\* A consumer's own step keeps what is said of it.
LEMMA TurnStep ==
    ASSUME TypeOK, PhasesOK, OneWriter, Next, NEW c \in Consumer, Turn(c)
    PROVE  Turn(c)'
<1>0. /\ MemoryType /\ GroupType /\ PhaseOK(c)
      /\ batch[c] \in Seq(1 .. cursor) /\ took[c] \subseteq 1 .. cursor
      /\ Worker \cap Reclaimer = {}
  BY ConsumersDistinct DEF TypeOK, MemoryType, PhasesOK
<1>1. \A m \in took[c] : stream'[m] = stream[m]
  BY <1>0, OnlyGrows
<1>2. CASE Same(c)
  BY <1>1, <1>2 DEF Same, Turn
<1>3. UNCHANGED memory => Same(c)
  BY DEF memory, Same
<1>4. ASSUME NEW d \in Consumer, Step(d), d # c PROVE Same(c)
  BY <1>0, <1>4, OthersUnchanged
<1>5. ASSUME NEW k, Abandon(c, k) PROVE Turn(c)'
  <2>1. pc'[c] = "idle" /\ (c \in Reclaimer => log'[c] = NoLog)
    BY <1>0, <1>5 DEF Abandon, MemoryType
  <2> QED
    BY <2>1 DEF Turn, Writing
<1>6. CASE Conflict(c) \/ Ack(c) \/ AppendFails(c) \/ ProjectFails(c)
  BY <1>5, <1>6 DEF Conflict, Ack, AppendFails, ProjectFails
<1>7. CASE Crash(c) \/ Stop(c)
  <2>1. pc'[c] = "down" /\ log'[c] = NoLog
    BY <1>0, <1>7 DEF Crash, Stop, Forget, MemoryType
  <2> QED
    BY <2>1 DEF Turn, Writing
<1>8. CASE Restart(c)
  <2>1. pc[c] = "down" /\ pc'[c] = "idle" /\ log'[c] = log[c]
    BY <1>0, <1>8 DEF Restart, MemoryType
  <2> QED
    BY <2>1 DEF Turn, Writing
<1>9. CASE c \in Worker /\ (Poll(c) \/ ReadNothing(c))
  <2>1. pc'[c] \in {"idle", "polling"} /\ c \notin Reclaimer
    BY <1>0, <1>9 DEF Poll, ReadNothing, MemoryType
  <2> QED
    BY <2>1 DEF Turn, Writing
<1>10. CASE (c \in Worker /\ Read(c)) \/ (c \in Reclaimer /\ Claim(c))
  <2>1. pc'[c] = "applying"
    BY <1>0, <1>10 DEF Read, Claim, MemoryType
  <2>2. batch'[c] # <<>>
    <3>1. CASE Claim(c)
      BY <1>0, <3>1, ClaimedIdle
    <3>2. CASE Read(c)
      <4>1. PICK n \in 1 .. BatchSize :
                batch' = [batch EXCEPT ![c] = [i \in 1 .. n |-> cursor + i]]
        BY <3>2 DEF Read
      <4>2. batch'[c] = [i \in 1 .. n |-> cursor + i]
        BY <1>0, <4>1 DEF MemoryType
      <4>3. 1 \in DOMAIN batch'[c]
        BY <4>2, ParametersOK
      <4> QED
        BY <4>3
    <3> QED
      BY <1>10, <3>1, <3>2
  <2> QED
    BY <2>1, <2>2 DEF Turn, Writing
<1>11. CASE ApplyReset(c) \/ SkipMessage(c) \/ LoadLog(c)
  <2>1. \/ pc'[c] = "applying" /\ log'[c] = NoLog
        \/ pc'[c] = "loading"
    BY <1>0, <1>11 DEF ApplyReset, SkipMessage, LoadLog, MemoryType
  <2> QED
    BY <2>1 DEF Turn, Writing
<1>12. CASE LoadDoc(c)
  <2>1. pc'[c] = "applying" /\ batch'[c] # <<>>
    BY <1>0, <1>12 DEF LoadDoc, MemoryType, PhaseOK
  <2> QED
    BY <2>1 DEF Turn, Writing
<1>13. CASE ApplyRecord(c)
  <2> DEFINE m == Head(batch[c])
  <2>1. /\ pc'[c] = "applying" /\ batch[c] # <<>> /\ stream[m] # Reset
        /\ took'[c] = took[c] \cup {m} /\ UNCHANGED stream
    BY <1>0, <1>13 DEF ApplyRecord, MemoryType, groupVars
  <2>2. m \in 1 .. cursor
    BY <1>0, <2>1, TailFacts
  <2>3. stream[m] \in Record
    BY <1>0, <2>1, <2>2 DEF GroupType, Message
  <2> QED
    BY <2>1, <2>3 DEF Turn, Writing
<1>14. CASE \/ EndOfBatch(c) \/ AppendBatch(c) \/ NothingToProject(c) \/ Project(c)
            \/ PutState(c) \/ PutParts(c) \/ Publish(c)
  <2>1. /\ batch'[c] = batch[c] /\ took'[c] = took[c] /\ log'[c] = log[c] /\ UNCHANGED stream
        /\ pc[c] \in {"applying"} \cup Writing /\ pc'[c] \in Writing
        /\ pc[c] = "applying" => batch[c] = <<>>
    BY <1>0, <1>14 DEF EndOfBatch, AppendBatch, NothingToProject, Project, PutState, PutParts,
       Publish, MemoryType, groupVars, Writing
  <2>2. pc'[c] = "putting" => LiveMeta /\ log[c] \cap Event # {}
    BY <1>0, <1>14 DEF EndOfBatch, AppendBatch, NothingToProject, Project, PutState, PutParts,
       Publish, MemoryType
  <2> QED
    BY <2>1, <2>2 DEF Turn, Writing
<1> QED
  BY <1>2, <1>3, <1>4, <1>6, <1>7, <1>8, <1>9, <1>10, <1>11, <1>12, <1>13, <1>14, MemoryFrame
     DEF Step, Handle, Fault

\* What is owed stays owed until somebody writes a STATE item.
LEMMA OwedStep ==
    ASSUME TypeOK, PhasesOK, Next, DocumentIsBacked, Halves, state # NoDoc,
           \A c \in Consumer : Turn(c) /\ TakenIsHeld(c),
           NEW m \in pending, Owed(m), ~ \E c \in Consumer : PutState(c)
    PROVE  m \in pending' /\ Owed(m)'
<1>0. /\ MemoryType /\ GroupType /\ StoreType /\ pending \subseteq 1 .. cursor /\ cursor \in Nat
      /\ Reset \notin Record /\ slog \cap Event # {} /\ LiveMeta
      /\ \A c \in Consumer : PhaseOK(c)
      /\ Worker \cap Reclaimer = {}
  BY ValuesDistinct, ConsumersDistinct
     DEF TypeOK, GroupType, PhasesOK, Halves, DocumentIsBacked
<1>1. stream'[m] = stream[m]
  BY <1>0, OnlyGrows
<1>2. m \in pending'
  <2>1. ASSUME NEW c \in Consumer, Ack(c) PROVE m \in pending'
    <3>1. pc[c] = "acking" /\ pending' = pending \ took[c]
      BY <2>1 DEF Ack
    <3>2. m \notin took[c]
      BY <3>1 DEF Owed, InHand
    <3> QED
      BY <3>1, <3>2
  <2> QED
    BY <2>1, GroupFrame DEF Produce, Read, groupVars
<1>3. ASSUME NEW c \in Consumer, m \in InHand(c)'
      PROVE  /\ pc'[c] \in {"applying", "loading", "appending", "projecting", "putting"}
             /\ log'[c] # NoLog => log'[c] \cap Event # {}
  <2>0. PhaseOK(c) /\ Turn(c) /\ TakenIsHeld(c)
    BY <1>0
  <2>1. CASE m \notin InHand(c)
    <3>1. c \in Worker /\ Read(c) => m \notin InHand(c)'
      <4> SUFFICES ASSUME c \in Worker, Read(c) PROVE m \notin InHand(c)'
        OBVIOUS
      <4>1. PICK n \in 1 .. BatchSize :
                batch' = [batch EXCEPT ![c] = [i \in 1 .. n |-> cursor + i]]
        BY DEF Read
      <4>2. /\ batch'[c] = [i \in 1 .. n |-> cursor + i] /\ took'[c] = {} /\ n \in Nat
            /\ m <= cursor /\ m \in Nat
        BY <1>0, <2>0, <4>1, ParametersOK DEF Read, MemoryType, PhaseOK
      <4> QED
        BY <1>0, <4>2 DEF InHand
    <3>2. c \in Reclaimer /\ Claim(c)
      BY <1>3, <2>1, <3>1, HandStep
    <3>3. pc'[c] = "applying" /\ log'[c] = NoLog
      BY <1>0, <2>0, <3>2 DEF Claim, MemoryType, Turn
    <3> QED
      BY <3>3
  <2>2. CASE m \in InHand(c)
    <3>0. /\ pc[c] \in {"applying", "loading", "appending", "projecting", "putting"}
          /\ log[c] # NoLog => log[c] \cap Event # {}
      BY <2>2 DEF Owed
    <3>1. CASE Same(c)
      BY <3>0, <3>1 DEF Same
    <3>2. UNCHANGED memory => Same(c)
      BY DEF memory, Same
    <3>3. ASSUME NEW d \in Consumer, Step(d), d # c PROVE Same(c)
      BY <1>0, <3>3, OthersUnchanged
    <3>4. ASSUME NEW k, Abandon(c, k) PROVE FALSE
      BY <1>0, <1>3, <3>4 DEF Abandon, InHand, MemoryType
    <3>5. CASE Conflict(c) \/ Ack(c) \/ AppendFails(c) \/ ProjectFails(c)
      BY <3>4, <3>5 DEF Conflict, Ack, AppendFails, ProjectFails
    <3>6. CASE Crash(c) \/ Stop(c)
      BY <1>0, <1>3, <3>6 DEF Crash, Stop, Forget, InHand, MemoryType
    <3>7. CASE Poll(c) \/ Read(c) \/ ReadNothing(c) \/ Claim(c) \/ Restart(c)
      BY <3>0, <3>7 DEF Poll, Read, ReadNothing, Claim, Restart
    <3>8. CASE ApplyReset(c) \/ SkipMessage(c)
      BY <1>0, <3>0, <3>8 DEF ApplyReset, SkipMessage, MemoryType
    <3>9. CASE LoadLog(c)
      BY <1>0, <3>9 DEF LoadLog, MemoryType
    <3>10. CASE ApplyRecord(c)
      <4>1. /\ pc'[c] = "applying" /\ log[c] # NoLog
            /\ log'[c] = log[c] \cup {stream[Head(batch[c])]}
        BY <1>0, <3>10 DEF ApplyRecord, MemoryType
      <4> QED
        BY <3>0, <4>1
    <3>11. CASE LoadDoc(c) \/ EndOfBatch(c) \/ AppendBatch(c) \/ Project(c)
      BY <1>0, <3>0, <3>11 DEF LoadDoc, EndOfBatch, AppendBatch, Project, MemoryType
    <3>12. CASE NothingToProject(c)
      <4>1. pc[c] = "projecting" /\ (log[c] = NoLog \/ log[c] \cap Event = {})
        BY <1>0, <3>12 DEF NothingToProject
      <4>2. m \in took[c] /\ stream[m] # Reset
        BY <1>0, <2>0, <2>2, <4>1 DEF Turn, Writing, InHand, Owed
      <4>3. log[c] # NoLog
        BY <2>0, <4>2 DEF TakenIsHeld
      <4> QED
        BY <3>0, <4>1, <4>3
    <3>13. CASE PutParts(c) \/ Publish(c) \/ PutState(c)
      BY <3>0, <3>13 DEF PutParts, Publish
    <3> QED
      BY <3>1, <3>2, <3>3, <3>5, <3>6, <3>7, <3>8, <3>9, <3>10, <3>11, <3>12, <3>13, MemoryFrame
         DEF Step, Handle, Fault
  <2> QED
    BY <2>1, <2>2
<1> QED
  BY <1>1, <1>2, <1>3 DEF Owed

\* Between its writes a consumer only waits.
LEMMA BetweenWrites ==
    ASSUME TypeOK, PhasesOK, Next, NEW c \in Consumer, pc'[c] = "parts"
    PROVE  PutState(c) \/ Same(c)
<1>0. MemoryType
  BY DEF TypeOK
<1>1. UNCHANGED memory => Same(c)
  BY DEF memory, Same
<1>2. ASSUME NEW d \in Consumer, Step(d), d # c PROVE Same(c)
  BY <1>0, <1>2, OthersUnchanged
<1>3. ASSUME NEW k, Abandon(c, k) PROVE FALSE
  BY <1>0, <1>3 DEF Abandon, MemoryType
<1>4. CASE Conflict(c) \/ Ack(c) \/ AppendFails(c) \/ ProjectFails(c)
  BY <1>3, <1>4 DEF Conflict, Ack, AppendFails, ProjectFails
<1>5. CASE \/ Crash(c) \/ Stop(c) \/ Poll(c) \/ Read(c) \/ ReadNothing(c) \/ Claim(c)
           \/ Restart(c)
  BY <1>0, <1>5 DEF Crash, Stop, Poll, Read, ReadNothing, Claim, Restart, MemoryType
<1>6. CASE \/ ApplyReset(c) \/ SkipMessage(c) \/ LoadLog(c) \/ LoadDoc(c) \/ ApplyRecord(c)
           \/ EndOfBatch(c) \/ AppendBatch(c) \/ NothingToProject(c) \/ Project(c)
           \/ PutParts(c) \/ Publish(c)
  BY <1>0, <1>6 DEF ApplyReset, SkipMessage, LoadLog, LoadDoc, ApplyRecord, EndOfBatch,
     AppendBatch, NothingToProject, Project, PutParts, Publish, MemoryType
<1> QED
  BY <1>1, <1>2, <1>4, <1>5, <1>6, MemoryFrame DEF Step, Handle, Fault

\* A consumer that leaves its second write undone leaves a record of its
\* batch in the pending list and in nobody's hands.
LEMMA LeftOwed ==
    ASSUME TypeOK, PhasesOK, Apart, Next, NEW c \in Consumer, Turn(c), TakenIsHeld(c),
           pc[c] = "parts", pc'[c] # "parts", ~PutParts(c)
    PROVE  \E m \in pending' : Owed(m)'
<1>0. /\ MemoryType /\ PhaseOK(c) /\ Worker \subseteq Consumer /\ Reclaimer \subseteq Consumer
  BY DEF TypeOK, PhasesOK, Consumer
<1>1. batch[c] = <<>> /\ log[c] # NoLog
  BY <1>0 DEF Turn, PhaseOK, Writing
<1>2. PICK m \in took[c] : stream[m] \in Record
  BY <1>1 DEF Turn, Writing
<1>3. m \in pending /\ m \in 1 .. cursor
  BY <1>0, <1>2 DEF Apart, InHand, MemoryType
<1>4. \A d \in Consumer \ {c} : m \notin InHand(d)
  BY <1>2 DEF Apart, InHand
<1>5. ~Same(c)
  BY DEF Same
<1>6. Step(c)
  <2>1. UNCHANGED memory => Same(c)
    BY DEF memory, Same
  <2>2. \A d \in Consumer : Step(d) /\ d # c => Same(c)
    BY <1>0, OthersUnchanged
  <2> QED
    BY <1>5, <2>1, <2>2, MemoryFrame
<1>7. Crash(c) \/ ProjectFails(c)
  BY <1>6 DEF Step, Handle, Fault, Poll, Read, ReadNothing, Stop, Claim, Restart, ApplyReset,
     SkipMessage, LoadLog, LoadDoc, ApplyRecord, EndOfBatch, AppendBatch, NothingToProject,
     Project, PutState, Publish, Conflict, Ack, AppendFails
<1>8. /\ batch'[c] = <<>> /\ took'[c] = {} /\ UNCHANGED <<pending, stream>>
  BY <1>0, <1>7 DEF Crash, ProjectFails, Forget, Abandon, MemoryType, groupVars
<1>9. InHand(c)' = {}
  BY <1>8 DEF InHand
<1>10. \A d \in Consumer \ {c} : InHand(d)' = InHand(d)
  BY <1>0, <1>6, OthersUnchanged DEF Same, InHand
<1>11. Owed(m)'
  BY <1>2, <1>3, <1>4, <1>8, <1>9, <1>10 DEF Owed
<1> QED
  BY <1>3, <1>8, <1>11

LEMMA HalvesStep ==
    ASSUME WholeInv, Next
    PROVE  Halves'
<1>0. /\ TypeOK /\ PhasesOK /\ MemoryType /\ StoreType /\ DocumentIsBacked /\ Apart /\ Halves
      /\ \A c \in Consumer : Turn(c) /\ TakenIsHeld(c) /\ PhaseOK(c)
  BY DEF WholeInv, WriterInv, IInv, PhasesOK, TypeOK
<1>1. ASSUME NEW c \in Consumer, PutState(c)
      PROVE  /\ state' = log[c] /\ state' # NoDoc /\ LiveMeta /\ state' \cap Event # {}
             /\ pc'[c] = "parts" /\ log'[c] = log[c]
  <2>1. pc[c] = "putting" /\ log[c] # NoLog
    BY <1>0, <1>1 DEF PutState, PhaseOK
  <2>2. log[c] # NoDoc
    BY <1>0, <2>1, ValuesDistinct DEF MemoryType
  <2> QED
    BY <1>0, <1>1, <2>1, <2>2 DEF PutState, MemoryType, Turn
<1>2. ASSUME ~ \E c \in Consumer : PutState(c) PROVE state' = state
  <2>1. UNCHANGED store => state' = state
    BY DEF store
  <2>2. \A c \in Consumer : AppendBatch(c) \/ PutParts(c) \/ Publish(c) \/ ProjectFails(c)
            => state' = state
    BY DEF AppendBatch, PutParts, Publish, ProjectFails
  <2> QED
    BY <1>2, <2>1, <2>2, StoreFrame
<1>3. ASSUME ~ \E c \in Consumer : PutParts(c) PROVE parts' = parts
  <2>1. UNCHANGED store => parts' = parts
    BY DEF store
  <2>2. \A c \in Consumer : AppendBatch(c) \/ PutState(c) \/ Publish(c) \/ ProjectFails(c)
            => parts' = parts
    BY DEF AppendBatch, PutState, Publish, ProjectFails
  <2> QED
    BY <1>3, <2>1, <2>2, StoreFrame
<1>4. (state # NoDoc => LiveMeta /\ state \cap Event # {})'
  BY <1>0, <1>1, <1>2 DEF Halves
<1>5. ASSUME NEW c \in Consumer, pc'[c] = "parts" PROVE log'[c] = state'
  <2>1. CASE PutState(c)
    BY <1>1, <2>1
  <2>2. CASE Same(c)
    <3>1. pc[c] = "parts" /\ log'[c] = log[c]
      BY <1>5, <2>2 DEF Same
    <3>2. ~ \E d \in Consumer : PutState(d)
      BY <3>1 DEF PutState, WholeInv, WriterInv, Exclusive, Remembers
    <3> QED
      BY <1>0, <1>2, <3>1, <3>2 DEF Halves
  <2> QED
    BY <1>0, <1>5, <2>1, <2>2, BetweenWrites
<1>6. (\/ parts = state
       \/ \E c \in Consumer : pc[c] = "parts"
       \/ state # NoDoc /\ \E m \in pending : Owed(m))'
  <2>1. CASE \E c \in Consumer : PutState(c)
    BY <1>1, <2>1
  <2>2. ASSUME NEW c \in Consumer, PutParts(c) PROVE parts' = state'
    <3>1. pc[c] = "parts" /\ parts' = log[c] /\ UNCHANGED state
      BY <2>2 DEF PutParts
    <3> QED
      BY <1>0, <3>1 DEF Halves
  <2>3. CASE ~ (\E c \in Consumer : PutState(c)) /\ ~ (\E c \in Consumer : PutParts(c))
    <3>1. state' = state /\ parts' = parts
      BY <1>2, <1>3, <2>3
    <3>2. CASE parts = state
      BY <3>1, <3>2
    <3>3. ASSUME NEW c \in Consumer, pc[c] = "parts", pc'[c] # "parts"
          PROVE  state' # NoDoc /\ \E m \in pending' : Owed(m)'
      <4>1. log[c] # NoLog /\ log[c] = state
        BY <1>0, <3>3 DEF PhaseOK, Halves
      <4>2. state # NoDoc
        BY <1>0, <4>1, ValuesDistinct DEF MemoryType
      <4> QED
        BY <1>0, <2>3, <3>1, <3>3, <4>2, LeftOwed
    <3>4. ASSUME state # NoDoc, NEW m \in pending, Owed(m)
          PROVE  state' # NoDoc /\ m \in pending' /\ Owed(m)'
      BY <1>0, <2>3, <3>1, <3>4, OwedStep
    <3> QED
      BY <1>0, <3>2, <3>3, <3>4 DEF Halves
  <2> QED
    BY <2>1, <2>2, <2>3
<1> QED
  BY <1>4, <1>5, <1>6 DEF Halves

\* With one writer at a time, whoever crashes or fails between the two writes of
\* a document, and whoever goes on with the batch, the halves of the document
\* agree whenever nothing is in flight - however slow a batch is.
THEOREM OneWriterLeavesItWhole == OneWriterSpec => []SettledIsWhole
<1>1. Init => WholeInv
  BY InitIInv, InitInStep DEF Init, WholeInv, WriterInv, Exclusive, Remembers, Turn, Writing,
     Apart, InHand, Halves
<1>2. WholeInv /\ [Next /\ OneWriter]_vars => WholeInv'
  <2>1. ASSUME WholeInv, Next, OneWriter PROVE WholeInv'
    <3>1. TypeOK /\ PhasesOK /\ WriterInv
      BY <2>1 DEF WholeInv, WriterInv, IInv, PhasesOK
    <3>2. (\A c \in Consumer : Turn(c))'
      BY <2>1, <3>1, TurnStep DEF WholeInv
    <3> QED
      BY <2>1, <3>1, <3>2, WriterInvStep, ApartStep, HalvesStep DEF WholeInv
  <2>2. ASSUME WholeInv, UNCHANGED vars PROVE WholeInv'
    <3>1. WriterInv'
      BY <2>2, StutterIInv DEF WholeInv, WriterInv, Exclusive, Remembers, InStep, vars, memory,
         store
    <3>2. (\A c \in Consumer : Turn(c))' /\ Apart' /\ Halves'
      BY <2>2 DEF vars, groupVars, memory, store, WholeInv, Turn, Apart, InHand, Halves, Owed
    <3> QED
      BY <3>1, <3>2 DEF WholeInv
  <2> QED
    BY <2>1, <2>2
<1>3. WholeInv => SettledIsWhole
  BY DEF WholeInv, Halves, Settled, SettledIsWhole
<1> QED
  BY <1>1, <1>2, <1>3, PTL DEF OneWriterSpec

=============================================================================

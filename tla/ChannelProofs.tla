---------------------------- MODULE ChannelProofs ----------------------------
(***************************************************************************)
(* No gap, for every number of tasks, pages, messages, dropped connections *)
(* and restarts, and every length of the capped log and of a queue.        *)
(***************************************************************************)
EXTENDS Channel, FiniteSetTheorems, SequenceTheorems, TLAPS

-----------------------------------------------------------------------------
(* The inductive invariant. *)

Elems(s) == {s[i] : i \in 1 .. Len(s)}
Rising(s) == \A i, j \in 1 .. Len(s) : i < j => s[i] < s[j]

Phase == {"new", "loading", "away", "joined", "replaying", "streaming"}
Order == {"subscribe", "unsubscribe"}

Types ==
    /\ written \in Nat /\ seq \in Nat /\ sent \in Nat
    /\ chanlog \in Seq(Nat)
    /\ orders \in [Task -> Seq(Order)]
    /\ subscribed \in [Task -> BOOLEAN]
    /\ wire \in [Task -> Seq(Nat)]
    /\ reading \in [Task -> BOOLEAN]
    /\ phase \in [Client -> Phase]
    /\ at \in [Client -> Task \cup {NoTask}]
    /\ since \in [Client -> Nat]
    /\ lastSeq \in [Client -> Nat]
    /\ replay \in [Client -> Seq(Nat)]
    /\ queue \in [Client -> Seq(Nat)]
    /\ closing \in [Client -> BOOLEAN]
    /\ seen \in [Client -> Nat]
    /\ start \in [Client -> Nat]
    /\ got \in [Client -> SUBSET Nat]
    /\ expired \in [Client -> SUBSET Nat]

\* The log holds the last messages sent, and only one write is under way.
LogIsTail ==
    /\ sent <= seq /\ seq <= written /\ written <= sent + 1
    /\ Len(chanlog) = IF sent < CHANLOG_MAXLEN THEN sent ELSE CHANLOG_MAXLEN
    /\ \A i \in 1 .. Len(chanlog) : chanlog[i] = sent - Len(chanlog) + i

\* A connection belongs to a task, and leaves nothing behind.
Attached ==
    \A c \in Client :
        /\ at[c] # NoTask <=> phase[c] \in Connected
        /\ at[c] = NoTask => ~closing[c] /\ replay[c] = <<>> /\ queue[c] = <<>> /\ lastSeq[c] = 0

Serving(c) == phase[c] \in {"replaying", "streaming"}

\* Whoever has read the backlog did so after its hub was subscribed.
SubscribedFirst == \A c \in Client : Serving(c) => orders[at[c]] = <<>>

\* Messages travel in the order of their numbers, through the wire to the
\* queue; the backlog is in order too.
WireInOrder(t) == Rising(wire[t]) /\ Elems(wire[t]) \subseteq 1 .. sent
QueueInOrder(c) ==
    /\ Rising(queue[c]) /\ Elems(queue[c]) \subseteq 1 .. sent
    /\ Rising(replay[c])
    /\ at[c] \in Task => \A m \in Elems(queue[c]), n \in Elems(wire[at[c]]) : m < n
InOrder == (\A t \in Task : WireInOrder(t)) /\ (\A c \in Client : QueueInOrder(c))

\* What a page resumes from is what it has seen.
Resumes ==
    \A c \in Client :
        /\ lastSeq[c] <= seen[c]
        /\ phase[c] = "joined" => since[c] = seen[c] /\ replay[c] = <<>>
        /\ phase[c] = "streaming" => replay[c] = <<>>

ExpiredLeftTheLog == \A c \in Client : \A m \in expired[c] : m + CHANLOG_MAXLEN <= sent

Known(c) == got[c] \cup expired[c]

\* NoGap, of what the page has and of what is still on its way to it.
NoneMissing(c) ==
    /\ start[c] + 1 .. seen[c] \subseteq Known(c)
    /\ Serving(c) =>
        /\ \A m \in Elems(replay[c]) :
               start[c] + 1 .. m \subseteq Known(c) \cup Elems(replay[c])
        /\ ~closing[c] =>
            /\ \A m \in Elems(queue[c]) :
                   start[c] + 1 .. m \subseteq Known(c) \cup Elems(replay[c]) \cup Elems(queue[c])
            /\ reading[at[c]] =>
                   start[c] + 1 .. sent \subseteq
                       Known(c) \cup Elems(replay[c]) \cup Elems(queue[c]) \cup Elems(wire[at[c]])
NothingMissing == \A c \in Client : NoneMissing(c)

IInv ==
    /\ Types /\ LogIsTail /\ Attached /\ SubscribedWhileWanted /\ SubscribedFirst
    /\ InOrder /\ Resumes /\ ExpiredLeftTheLog /\ NothingMissing

-----------------------------------------------------------------------------
(* Sequences of message numbers. *)

LEMMA EmptyHasNone == Elems(<<>>) = {} /\ Rising(<<>>)
  BY DEF Elems, Rising

LEMMA ElemsAreNumbers ==
    ASSUME NEW s \in Seq(Nat)
    PROVE  Elems(s) \subseteq Nat
  BY DEF Elems

LEMMA ElemsOfAppend ==
    ASSUME NEW s \in Seq(Nat), NEW n \in Nat
    PROVE  /\ Append(s, n) \in Seq(Nat)
           /\ Elems(Append(s, n)) = Elems(s) \cup {n}
<1>1. Append(s, n) \in Seq(Nat) /\ Len(Append(s, n)) = Len(s) + 1 /\ Len(s) \in Nat
  OBVIOUS
<1>2. \A i \in 1 .. Len(s) : Append(s, n)[i] = s[i]
  OBVIOUS
<1>3. Append(s, n)[Len(s) + 1] = n
  OBVIOUS
<1>4. Elems(Append(s, n)) \subseteq Elems(s) \cup {n}
  BY <1>1, <1>2, <1>3 DEF Elems
<1>5. Elems(s) \cup {n} \subseteq Elems(Append(s, n))
  BY <1>1, <1>2, <1>3 DEF Elems
<1> QED
  BY <1>1, <1>4, <1>5

LEMMA RisingAppend ==
    ASSUME NEW s \in Seq(Nat), Rising(s), NEW n \in Nat, \A m \in Elems(s) : m < n
    PROVE  Rising(Append(s, n))
<1>1. \A i \in 1 .. Len(s) : s[i] < n
  BY DEF Elems
<1> QED
  BY <1>1 DEF Rising

LEMMA ElemsOfTail ==
    ASSUME NEW s \in Seq(Nat), s # <<>>
    PROVE  /\ Head(s) \in Nat /\ Tail(s) \in Seq(Nat)
           /\ Elems(s) = {Head(s)} \cup Elems(Tail(s))
<1>1. /\ Len(s) \in Nat /\ Len(s) > 0
      /\ Head(s) = s[1] /\ Head(s) \in Nat
      /\ Tail(s) \in Seq(Nat) /\ Len(Tail(s)) = Len(s) - 1
      /\ \A i \in 1 .. Len(Tail(s)) : Tail(s)[i] = s[i + 1]
  OBVIOUS
<1>2. Elems(s) \subseteq {Head(s)} \cup Elems(Tail(s))
  <2>1. SUFFICES ASSUME NEW i \in 1 .. Len(s)
                 PROVE  s[i] = Head(s) \/ s[i] \in Elems(Tail(s))
    BY DEF Elems
  <2>2. CASE i = 1
    BY <1>1, <2>2
  <2>3. CASE i # 1
    <3>1. i - 1 \in 1 .. Len(Tail(s)) /\ Tail(s)[i - 1] = s[i]
      BY <1>1, <2>3
    <3> QED
      BY <3>1 DEF Elems
  <2> QED
    BY <2>2, <2>3
<1>3. {Head(s)} \cup Elems(Tail(s)) \subseteq Elems(s)
  BY <1>1 DEF Elems
<1> QED
  BY <1>1, <1>2, <1>3

LEMMA RisingTail ==
    ASSUME NEW s \in Seq(Nat), s # <<>>, Rising(s)
    PROVE  Rising(Tail(s)) /\ \A m \in Elems(Tail(s)) : Head(s) < m
<1>1. /\ Len(s) \in Nat /\ Len(s) > 0 /\ Head(s) = s[1]
      /\ Len(Tail(s)) = Len(s) - 1
      /\ \A i \in 1 .. Len(Tail(s)) : Tail(s)[i] = s[i + 1]
  OBVIOUS
<1>2. Rising(Tail(s))
  BY <1>1 DEF Rising
<1>3. \A i \in 1 .. Len(Tail(s)) : Head(s) < Tail(s)[i]
  BY <1>1 DEF Rising
<1> QED
  BY <1>2, <1>3 DEF Elems

LEMMA MaxOfTwo ==
    ASSUME NEW a \in Nat, NEW b \in Nat
    PROVE  Max({a, b}) = IF a >= b THEN a ELSE b
<1>1. PICK x \in {a, b} : \A y \in {a, b} : x >= y
  <2>1. a >= b \/ b >= a
    OBVIOUS
  <2> QED
    BY <2>1
<1>2. Max({a, b}) \in {a, b} /\ \A y \in {a, b} : Max({a, b}) >= y
  BY <1>1 DEF Max
<1> QED
  BY <1>2

-----------------------------------------------------------------------------
(* Types. *)

LEMMA AfterIsASeq ==
    ASSUME NEW s \in Seq(Nat), NEW n \in Nat
    PROVE  After(s, n) \in Seq(Nat)
<1>1. IsFiniteSet({i \in 1 .. Len(s) : s[i] <= n})
  BY FS_Interval, FS_Subset
<1>2. Cardinality({i \in 1 .. Len(s) : s[i] <= n}) \in Nat
  BY <1>1, FS_CardinalityType
<1>3. \A k \in Nat : SubSeq(s, k + 1, Len(s)) \in Seq(Nat)
  OBVIOUS
<1>4. DOMAIN s = 1 .. Len(s)
  OBVIOUS
<1> QED
  BY <1>2, <1>3, <1>4 DEF After

LEMMA TypesAtFirst == ASSUME Init PROVE Types
  BY DEF Init, Types, Phase, Order

LEMMA TypesReceive ==
    ASSUME Types, NEW c \in Client, NEW m \in Nat, Receive(c, m)
    PROVE  /\ seen' \in [Client -> Nat] /\ lastSeq' \in [Client -> Nat]
           /\ got' \in [Client -> SUBSET Nat]
<1>1. seen[c] \in Nat /\ lastSeq[c] \in Nat
  BY DEF Types
<1>2. Max({seen[c], m}) \in Nat /\ Max({lastSeq[c], m}) \in Nat
  BY <1>1, MaxOfTwo
<1> QED
  BY <1>2 DEF Receive, Types

LEMMA TypesStep == ASSUME Types, [Next]_vars PROVE Types'
<1> USE DEF Types
<1>1. CASE Write
  BY <1>1 DEF Write, hubVars, connVars, pageVars, history, budget
<1>2. CASE Stamp
  BY <1>2 DEF Stamp, hubVars, connVars, pageVars, history, budget
<1>3. CASE Send
  <2>1. Append(chanlog, seq) \in Seq(Nat)
    OBVIOUS
  <2>2. Capped(Append(chanlog, seq)) \in Seq(Nat)
    <3>1. Elems(Append(chanlog, seq)) # Elems(<<>>)
      BY ElemsOfAppend, EmptyHasNone
    <3>2. Append(chanlog, seq) # <<>>
      BY <3>1
    <3>3. Tail(Append(chanlog, seq)) \in Seq(Nat)
      BY <2>1, <3>2, ElemsOfTail
    <3> QED
      BY <2>1, <3>3 DEF Capped
  <2>3. \A t \in Task : Append(wire[t], seq) \in Seq(Nat)
    OBVIOUS
  <2> QED
    BY <1>3, <2>2, <2>3 DEF Send, connVars, pageVars, history, budget
<1>4. ASSUME NEW t \in Task, HandleOrder(t)
      PROVE  Types'
  <2>1. Tail(orders[t]) \in Seq(Order) /\ (Head(orders[t]) = "subscribe") \in BOOLEAN
    BY <1>4 DEF HandleOrder
  <2> QED
    BY <1>4, <2>1 DEF HandleOrder, redisVars, connVars, pageVars, history, budget
<1>5. ASSUME NEW t \in Task, FanOut(t)
      PROVE  Types'
  <2>1. Head(wire[t]) \in Nat /\ Tail(wire[t]) \in Seq(Nat)
    BY <1>5, ElemsOfTail DEF FanOut
  <2>2. \A c \in Client : Append(queue[c], Head(wire[t])) \in Seq(Nat)
    BY <2>1
  <2>3. queue' \in [Client -> Seq(Nat)] /\ closing' \in [Client -> BOOLEAN]
    BY <1>5, <2>2 DEF FanOut
  <2> QED
    BY <1>5, <2>1, <2>3 DEF FanOut, redisVars, pageVars, history, budget
<1>6. ASSUME NEW t \in Task, ReaderDies(t)
      PROVE  Types'
  <2>1. Head(wire[t]) \in Nat /\ Tail(wire[t]) \in Seq(Nat)
    BY <1>6, ElemsOfTail DEF ReaderDies
  <2>2. \A c \in Client : Append(queue[c], Head(wire[t])) \in Seq(Nat)
    BY <2>1
  <2>3. queue' \in [Client -> Seq(Nat)]
    BY <1>6, <2>2 DEF ReaderDies
  <2> QED
    BY <1>6, <2>1, <2>3 DEF ReaderDies, redisVars, pageVars, history, budget
<1>7. ASSUME NEW t \in Task, RestartTask(t)
      PROVE  Types'
  BY <1>7 DEF RestartTask, Phase, redisVars, pageVars, history
<1>8. ASSUME NEW c \in Client, Leave(c)
      PROVE  Types'
  <2>1. \A s \in Seq(Order) : Append(s, "unsubscribe") \in Seq(Order)
    BY DEF Order
  <2>2. orders' \in [Task -> Seq(Order)]
    BY <1>8, <2>1 DEF Leave
  <2> QED
    BY <1>8, <2>2, SMTT(30) DEF Leave, HangUp, Phase, redisVars, pageVars, history
<1>9. ASSUME NEW c \in Client, NEW t \in Task, Connect(c, t)
      PROVE  Types'
  <2>1. \A s \in Seq(Order) : Append(s, "subscribe") \in Seq(Order)
    BY DEF Order
  <2>2. orders' \in [Task -> Seq(Order)]
    BY <1>9, <2>1 DEF Connect
  <2> QED
    BY <1>9, <2>2 DEF Connect, Phase, redisVars, pageVars, history, budget
<1>10. ASSUME NEW c \in Client, ReadBacklog(c)
       PROVE  Types'
  <2>1. After(chanlog, since[c]) \in Seq(Nat)
    BY AfterIsASeq
  <2> QED
    BY <1>10, <2>1, SMTT(30) DEF ReadBacklog, Phase, hubVars, redisVars, pageVars, budget
<1>11. ASSUME NEW c \in Client, SendReplay(c)
       PROVE  Types'
  <2>1. Head(replay[c]) \in Nat /\ Tail(replay[c]) \in Seq(Nat)
    BY <1>11, ElemsOfTail DEF SendReplay
  <2>2. Receive(c, Head(replay[c]))
    BY <1>11 DEF SendReplay
  <2> QED
    BY <1>11, <2>1, <2>2, TypesReceive DEF SendReplay, hubVars, redisVars, budget
<1>12. ASSUME NEW c \in Client, Hello(c)
       PROVE  Types'
  BY <1>12 DEF Hello, Phase, hubVars, redisVars, pageVars, history, budget
<1>13. ASSUME NEW c \in Client, Pump(c)
       PROVE  Types'
  <2>1. Head(queue[c]) \in Nat /\ Tail(queue[c]) \in Seq(Nat)
    BY <1>13, ElemsOfTail DEF Pump
  <2>2. /\ seen' \in [Client -> Nat] /\ lastSeq' \in [Client -> Nat]
        /\ got' \in [Client -> SUBSET Nat]
    BY <1>13, <2>1, TypesReceive DEF Pump, pageVars
  <2> QED
    BY <1>13, <2>1, <2>2 DEF Pump, hubVars, redisVars, budget
<1>14. ASSUME NEW c \in Client, LoadState(c) \/ LoadSeq(c) \/ RefetchRead(c) \/ RefetchApply(c)
       PROVE  Types'
  <2>1. CASE LoadState(c)
    BY <2>1 DEF LoadState, Phase, hubVars, redisVars, history, budget
  <2>2. CASE LoadSeq(c)
    BY <2>2 DEF LoadSeq, Phase, hubVars, redisVars, budget
  <2>3. CASE RefetchRead(c) \/ RefetchApply(c)
    BY <2>3 DEF RefetchRead, RefetchApply, hubVars, redisVars, connVars, history, budget
  <2> QED
    BY <1>14, <2>1, <2>2, <2>3
<1>15. CASE UNCHANGED vars
  BY <1>15 DEF vars, redisVars, hubVars, connVars, pageVars, history, budget
<1> QED
  BY <1>1, <1>2, <1>3, <1>4, <1>5, <1>6, <1>7, <1>8, <1>9, <1>10, <1>11, <1>12, <1>13,
     <1>14, <1>15 DEF Next, Publish, Hub, Serve, Browser, LeaveClosed, Drop

-----------------------------------------------------------------------------
(* The log. *)

LEMMA LogCapacity == CHANLOG_MAXLEN \in Nat /\ CHANLOG_MAXLEN > 0
  BY ChannelParameters

\* Only the publisher touches the keys of the channel.
LEMMA RedisStep ==
    ASSUME [Next]_vars
    PROVE  Write \/ Stamp \/ Send \/ UNCHANGED redisVars
<1>1. ASSUME NEW t \in Task, Hub(t) \/ RestartTask(t)
      PROVE  UNCHANGED redisVars
  BY <1>1 DEF Hub, HandleOrder, FanOut, ReaderDies, RestartTask
<1>2. ASSUME NEW c \in Client, Serve(c) \/ Drop(c)
      PROVE  UNCHANGED redisVars
  BY <1>2 DEF Serve, ReadBacklog, SendReplay, Hello, Pump, LeaveClosed, Drop, Leave, redisVars
<1>3. ASSUME NEW c \in Client, Browser(c)
      PROVE  UNCHANGED redisVars
  BY <1>3 DEF Browser, LoadState, LoadSeq, RefetchRead, RefetchApply, Connect
<1>4. CASE UNCHANGED vars
  BY <1>4 DEF vars
<1> QED
  BY <1>1, <1>2, <1>3, <1>4 DEF Next, Publish

LEMMA LogStep == ASSUME Types, LogIsTail, [Next]_vars PROVE LogIsTail'
<1> USE LogCapacity DEF LogIsTail
<1>1. written \in Nat /\ seq \in Nat /\ sent \in Nat /\ chanlog \in Seq(Nat)
  BY DEF Types
<1>2. CASE Write
  <2>1. written' = sent + 1 /\ seq' = seq /\ sent' = sent /\ chanlog' = chanlog
    BY <1>2 DEF Write
  <2>2. sent' <= seq' /\ seq' <= written' /\ written' <= sent' + 1
    BY <1>1, <2>1
  <2> QED
    BY <2>1, <2>2
<1>3. CASE Stamp
  <2>1. written' = written /\ seq' = seq + 1 /\ sent' = sent /\ chanlog' = chanlog
    BY <1>3 DEF Stamp
  <2>2. seq < written
    BY <1>3 DEF Stamp
  <2>3. sent' <= seq' /\ seq' <= written' /\ written' <= sent' + 1
    BY <1>1, <2>1, <2>2
  <2> QED
    BY <2>1, <2>3
<1>4. CASE Send
  <2> DEFINE longer == Append(chanlog, seq)
  <2>1. seq = sent + 1 /\ sent' = sent + 1 /\ seq' = seq /\ written' = written
    BY <1>1, <1>4 DEF Send
  <2>2. /\ longer \in Seq(Nat) /\ Len(longer) = Len(chanlog) + 1 /\ Len(chanlog) \in Nat
        /\ \A i \in 1 .. Len(chanlog) : longer[i] = chanlog[i]
        /\ longer[Len(chanlog) + 1] = seq
    BY <1>1
  <2>3. \A i \in 1 .. Len(longer) : longer[i] = sent - Len(chanlog) + i
    BY <1>1, <2>1, <2>2
  <2>4. chanlog' = Capped(longer)
    BY <1>4 DEF Send
  <2>5. CASE Len(longer) > CHANLOG_MAXLEN
    <3>1. chanlog' = Tail(longer)
      BY <2>4, <2>5 DEF Capped
    <3>2. longer # <<>>
      BY <1>1, ElemsOfAppend, EmptyHasNone
    <3>3. /\ Len(Tail(longer)) = Len(longer) - 1
          /\ \A i \in 1 .. Len(Tail(longer)) : Tail(longer)[i] = longer[i + 1]
      BY <2>2, <3>2
    <3>4. Len(chanlog) = CHANLOG_MAXLEN
      BY <1>1, <2>2, <2>5
    <3> HIDE DEF longer
    <3>5. Len(chanlog') = CHANLOG_MAXLEN /\ CHANLOG_MAXLEN <= sent
      BY <1>1, <2>2, <3>1, <3>3, <3>4
    <3>6. \A i \in 1 .. Len(chanlog') : chanlog'[i] = sent - Len(chanlog) + (i + 1)
      BY <1>1, <2>2, <2>3, <3>1, <3>3
    <3> QED
      BY <1>1, <2>1, <3>4, <3>5, <3>6
  <2>6. CASE ~(Len(longer) > CHANLOG_MAXLEN)
    <3>1. chanlog' = longer
      BY <2>4, <2>6 DEF Capped
    <3> HIDE DEF longer
    <3> QED
      BY <1>1, <2>1, <2>2, <2>3, <2>6, <3>1
  <2> QED
    BY <2>5, <2>6
<1>5. CASE UNCHANGED redisVars
  BY <1>5 DEF redisVars
<1> QED
  BY <1>2, <1>3, <1>4, <1>5, RedisStep

-----------------------------------------------------------------------------
(* Connections and subscriptions. *)

LEMMA AttachedStep == ASSUME Types, Attached, [Next]_vars PROVE Attached'
<1> USE ChannelParameters DEF Attached, Connected
<1>1. CASE Publish
  BY <1>1 DEF Publish, Write, Stamp, Send, connVars
<1>2. ASSUME NEW t \in Task, HandleOrder(t)
      PROVE  Attached'
  BY <1>2 DEF HandleOrder, connVars
<1>3. ASSUME NEW t \in Task, FanOut(t)
      PROVE  Attached'
  BY <1>3 DEF FanOut, Types
<1>4. ASSUME NEW t \in Task, ReaderDies(t)
      PROVE  Attached'
  BY <1>4 DEF ReaderDies, Types, Members
<1>5. ASSUME NEW t \in Task, RestartTask(t)
      PROVE  Attached'
  BY <1>5 DEF RestartTask, Types
<1>6. ASSUME NEW c \in Client, Leave(c)
      PROVE  Attached'
  BY <1>6 DEF Leave, HangUp, Types
<1>7. ASSUME NEW c \in Client, NEW t \in Task, Connect(c, t)
      PROVE  Attached'
  BY <1>7 DEF Connect, Types
<1>8. ASSUME NEW c \in Client, ReadBacklog(c) \/ SendReplay(c) \/ Hello(c)
      PROVE  Attached'
  <2>1. CASE ReadBacklog(c)
    BY <2>1 DEF ReadBacklog, Types
  <2>2. CASE SendReplay(c)
    BY <2>2 DEF SendReplay, Receive, Types
  <2>3. CASE Hello(c)
    BY <2>3 DEF Hello, Types
  <2> QED
    BY <1>8, <2>1, <2>2, <2>3
<1>9. ASSUME NEW c \in Client, Pump(c)
      PROVE  Attached'
  <2>1. \A d \in Client : d # c => lastSeq'[d] = lastSeq[d]
    BY <1>9 DEF Pump, Receive, Types
  <2> QED
    BY <1>9, <2>1 DEF Pump, Types
<1>10. ASSUME NEW c \in Client, Browser(c), \A t \in Task : ~Connect(c, t)
       PROVE  Attached'
  BY <1>10 DEF Browser, LoadState, LoadSeq, RefetchRead, RefetchApply, connVars, Types
<1>11. CASE UNCHANGED vars
  BY <1>11 DEF vars, connVars
<1> QED
  BY <1>1, <1>2, <1>3, <1>4, <1>5, <1>6, <1>7, <1>8, <1>9, <1>10, <1>11
  DEF Next, Hub, Serve, Browser, LeaveClosed, Drop

LEMMA LastOfAppend ==
    ASSUME NEW s \in Seq(Order), NEW o \in Order
    PROVE  /\ Append(s, o) # <<>>
           /\ Append(s, o)[Len(Append(s, o))] = o
<1>1. Len(Append(s, o)) = Len(s) + 1 /\ Len(s) \in Nat /\ Append(s, o)[Len(s) + 1] = o
  OBVIOUS
<1>2. Len(<<>>) = 0
  OBVIOUS
<1> QED
  BY <1>1, <1>2

LEMMA LastOfTail ==
    ASSUME NEW s \in Seq(Order), s # <<>>
    PROVE  IF Tail(s) = <<>> THEN Head(s) = s[Len(s)]
           ELSE Tail(s)[Len(Tail(s))] = s[Len(s)]
<1>1. /\ Len(s) \in Nat /\ Len(s) > 0 /\ Head(s) = s[1]
      /\ Tail(s) \in Seq(Order) /\ Len(Tail(s)) = Len(s) - 1
      /\ \A i \in 1 .. Len(Tail(s)) : Tail(s)[i] = s[i + 1]
  OBVIOUS
<1>2. Tail(s) = <<>> <=> Len(Tail(s)) = 0
  BY <1>1, EmptySeq
<1> QED
  BY <1>1, <1>2

\* Only joining, leaving, restarting and Redis itself change what a hub is
\* subscribed to.
LEMMA SubscriptionFrame ==
    ASSUME [Next]_vars
    PROVE  \/ \E t \in Task : HandleOrder(t) \/ RestartTask(t)
           \/ \E c \in Client : (phase[c] \in Connected \/ closing[c]) /\ Leave(c)
           \/ \E c \in Client, t \in Task : Connect(c, t)
           \/ UNCHANGED <<orders, subscribed, at>>
<1>1. CASE Publish
  BY <1>1 DEF Publish, Write, Stamp, Send, hubVars, connVars
<1>2. ASSUME NEW t \in Task, FanOut(t) \/ ReaderDies(t)
      PROVE  UNCHANGED <<orders, subscribed, at>>
  BY <1>2 DEF FanOut, ReaderDies
<1>3. ASSUME NEW c \in Client, ReadBacklog(c) \/ SendReplay(c) \/ Hello(c) \/ Pump(c)
      PROVE  UNCHANGED <<orders, subscribed, at>>
  BY <1>3 DEF ReadBacklog, SendReplay, Hello, Pump, hubVars
<1>4. ASSUME NEW c \in Client, LoadState(c) \/ LoadSeq(c) \/ RefetchRead(c) \/ RefetchApply(c)
      PROVE  UNCHANGED <<orders, subscribed, at>>
  BY <1>4 DEF LoadState, LoadSeq, RefetchRead, RefetchApply, hubVars, connVars
<1>5. CASE UNCHANGED vars
  BY <1>5 DEF vars, hubVars, connVars
<1> QED
  BY <1>1, <1>2, <1>3, <1>4, <1>5 DEF Next, Hub, Serve, Browser, LeaveClosed, Drop

LEMMA SubscribedStep ==
    ASSUME Types, Attached, SubscribedWhileWanted, [Next]_vars
    PROVE  SubscribedWhileWanted'
<1> USE ChannelParameters
<1>0. orders \in [Task -> Seq(Order)] /\ subscribed \in [Task -> BOOLEAN]
      /\ at \in [Client -> Task \cup {NoTask}]
  BY DEF Types
<1>1. ASSUME NEW t \in Task, HandleOrder(t)
      PROVE  SubscribedWhileWanted'
  <2>1. /\ subscribed' = [subscribed EXCEPT ![t] = Head(orders[t]) = "subscribe"]
        /\ orders' = [orders EXCEPT ![t] = Tail(@)] /\ at' = at /\ orders[t] # <<>>
    BY <1>1 DEF HandleOrder, connVars
  <2>2. IF Tail(orders[t]) = <<>> THEN Head(orders[t]) = orders[t][Len(orders[t])]
        ELSE Tail(orders[t])[Len(Tail(orders[t]))] = orders[t][Len(orders[t])]
    BY <1>0, <2>1, LastOfTail
  <2>3. /\ subscribed'[t] = (Head(orders[t]) = "subscribe") /\ orders'[t] = Tail(orders[t])
        /\ \A u \in Task \ {t} : subscribed'[u] = subscribed[u] /\ orders'[u] = orders[u]
        /\ \A u \in Task : Members(u)' = Members(u)
    BY <1>0, <2>1 DEF Members
  <2>4. (IF orders'[t] = <<>> THEN subscribed'[t] ELSE orders'[t][Len(orders'[t])] = "subscribe")
            <=> Members(t)' # {}
    <3>1. orders[t][Len(orders[t])] = "subscribe" <=> Members(t)' # {}
      BY <2>1, <2>3 DEF SubscribedWhileWanted
    <3>2. CASE orders'[t] = <<>>
      BY <2>2, <2>3, <3>1, <3>2
    <3>3. CASE orders'[t] # <<>>
      BY <2>2, <2>3, <3>1, <3>3
    <3> QED
      BY <3>2, <3>3
  <2> QED
    BY <2>3, <2>4 DEF SubscribedWhileWanted
<1>2. ASSUME NEW t \in Task, RestartTask(t)
      PROVE  SubscribedWhileWanted'
  <2>1. /\ orders' = [orders EXCEPT ![t] = <<>>]
        /\ subscribed' = [subscribed EXCEPT ![t] = FALSE]
        /\ at' = [c \in Client |-> IF at[c] = t THEN NoTask ELSE at[c]]
    BY <1>2 DEF RestartTask
  <2>2. Members(t)' = {} /\ \A u \in Task \ {t} : Members(u)' = Members(u)
    BY <1>0, <2>1 DEF Members
  <2> QED
    BY <1>0, <2>1, <2>2 DEF SubscribedWhileWanted
<1>3. ASSUME NEW c \in Client, NEW t \in Task, at[c] = t, Leave(c)
      PROVE  SubscribedWhileWanted'
  <2>1. /\ at' = [at EXCEPT ![c] = NoTask]
        /\ orders' = [orders EXCEPT ![t] = IF Members(t) = {c}
                                               THEN Append(@, "unsubscribe") ELSE @]
        /\ subscribed' = subscribed
    BY <1>3 DEF Leave, HangUp
  <2>2. \A u \in Task : Members(u)' = Members(u) \ {c} /\ (u # t => c \notin Members(u))
    BY <1>0, <1>3, <2>1 DEF Members
  <2>3. c \in Members(t)
    BY <1>3 DEF Members
  <2>4. CASE Members(t) = {c}
    <3>1. /\ Append(orders[t], "unsubscribe") # <<>>
          /\ Append(orders[t], "unsubscribe")[Len(Append(orders[t], "unsubscribe"))]
                = "unsubscribe"
      BY <1>0, <1>3, LastOfAppend DEF Order
    <3>2. orders'[t] = Append(orders[t], "unsubscribe")
      BY <1>0, <1>3, <2>1, <2>4
    <3> QED
      BY <1>0, <1>3, <2>1, <2>2, <2>4, <3>1, <3>2 DEF SubscribedWhileWanted
  <2>5. CASE Members(t) # {c}
    <3>1. orders' = orders
      BY <1>0, <2>1, <2>5
    <3>2. PICK d \in Members(t) : d # c
      BY <2>3, <2>5
    <3>3. d \in Members(t)'
      BY <1>3, <2>2, <3>2
    <3> QED
      BY <1>0, <1>3, <2>1, <2>2, <3>1, <3>2, <3>3 DEF SubscribedWhileWanted
  <2> QED
    BY <2>4, <2>5
<1>4. ASSUME NEW c \in Client, NEW t \in Task, Connect(c, t)
      PROVE  SubscribedWhileWanted'
  <2>1. /\ at[c] = NoTask
        /\ at' = [at EXCEPT ![c] = t]
        /\ orders' = [orders EXCEPT ![t] = IF Members(t) = {} THEN Append(@, "subscribe") ELSE @]
        /\ subscribed' = subscribed
    BY <1>4 DEF Connect, Attached, Connected
  <2>2. c \in Members(t)' /\ \A u \in Task \ {t} : Members(u)' = Members(u)
    BY <1>0, <2>1 DEF Members
  <2>3. CASE Members(t) = {}
    <3>1. /\ Append(orders[t], "subscribe") # <<>>
          /\ Append(orders[t], "subscribe")[Len(Append(orders[t], "subscribe"))] = "subscribe"
      BY <1>0, LastOfAppend DEF Order
    <3>2. orders'[t] = Append(orders[t], "subscribe")
      BY <1>0, <2>1, <2>3
    <3> QED
      BY <1>0, <2>1, <2>2, <3>1, <3>2 DEF SubscribedWhileWanted
  <2>4. CASE Members(t) # {}
    <3>1. orders' = orders
      BY <1>0, <2>1, <2>4
    <3> QED
      BY <1>0, <2>1, <2>2, <2>4, <3>1 DEF SubscribedWhileWanted
  <2> QED
    BY <2>3, <2>4
<1>5. CASE UNCHANGED <<orders, subscribed, at>>
  BY <1>5 DEF SubscribedWhileWanted, Members
<1>6. ASSUME NEW c \in Client, phase[c] \in Connected \/ closing[c]
      PROVE  at[c] \in Task
  BY <1>0, <1>6 DEF Attached
<1> QED
  BY <1>1, <1>2, <1>3, <1>4, <1>5, <1>6, SubscriptionFrame

\* What a serving connection's hub has asked for has been handled, because the
\* backlog is read after the SUBSCRIBE took effect.
LEMMA SubscribedFirstStep ==
    ASSUME PromptSubscribe, Types, Attached, SubscribedFirst, [Next]_vars
    PROVE  SubscribedFirst'
<1> USE ChannelParameters DEF SubscribedFirst, Serving
<1>0. /\ orders \in [Task -> Seq(Order)] /\ phase \in [Client -> Phase]
      /\ at \in [Client -> Task \cup {NoTask}]
      /\ \A d \in Client : Serving(d) => at[d] \in Task /\ d \in Members(at[d])
  BY DEF Types, Attached, Connected, Members
<1>1. ASSUME NEW t \in Task, HandleOrder(t)
      PROVE  SubscribedFirst'
  <2>1. /\ orders[t] # <<>> /\ orders' = [orders EXCEPT ![t] = Tail(@)]
        /\ phase' = phase /\ at' = at
    BY <1>1 DEF HandleOrder, connVars
  <2> QED
    BY <1>0, <2>1
<1>2. ASSUME NEW t \in Task, RestartTask(t)
      PROVE  SubscribedFirst'
  <2>1. /\ orders' = [orders EXCEPT ![t] = <<>>]
        /\ phase' = [c \in Client |-> IF at[c] = t THEN "away" ELSE phase[c]]
        /\ at' = [c \in Client |-> IF at[c] = t THEN NoTask ELSE at[c]]
    BY <1>2 DEF RestartTask
  <2> QED
    BY <1>0, <2>1
<1>3. ASSUME NEW c \in Client, Leave(c)
      PROVE  SubscribedFirst'
  <2>1. /\ at' = [at EXCEPT ![c] = NoTask] /\ phase' = [phase EXCEPT ![c] = "away"]
        /\ orders' = [orders EXCEPT ![at[c]] = IF Members(at[c]) = {c}
                                               THEN Append(@, "unsubscribe") ELSE @]
    BY <1>3 DEF Leave, HangUp
  <2>2. SUFFICES ASSUME NEW d \in Client, Serving(d)'
                 PROVE  orders'[at'[d]] = <<>>
    OBVIOUS
  <2>3. d # c /\ at'[d] = at[d] /\ Serving(d)
    BY <1>0, <2>1, <2>2
  <2>4. orders'[at[d]] = orders[at[d]]
    BY <1>0, <2>1, <2>3
  <2> QED
    BY <2>3, <2>4
<1>4. ASSUME NEW c \in Client, NEW t \in Task, Connect(c, t)
      PROVE  SubscribedFirst'
  <2>1. /\ at' = [at EXCEPT ![c] = t] /\ phase' = [phase EXCEPT ![c] = "joined"]
        /\ orders' = [orders EXCEPT ![t] = IF Members(t) = {} THEN Append(@, "subscribe") ELSE @]
    BY <1>4 DEF Connect
  <2>2. SUFFICES ASSUME NEW d \in Client, Serving(d)'
                 PROVE  orders'[at'[d]] = <<>>
    OBVIOUS
  <2>3. d # c /\ at'[d] = at[d] /\ Serving(d)
    BY <1>0, <2>1, <2>2
  <2>4. orders'[at[d]] = orders[at[d]]
    BY <1>0, <2>1, <2>3
  <2> QED
    BY <2>3, <2>4
<1>5. ASSUME NEW c \in Client, ReadBacklog(c) \/ Hello(c)
      PROVE  SubscribedFirst'
  <2>1. orders' = orders /\ at' = at
    BY <1>5 DEF ReadBacklog, Hello, hubVars
  <2>2. \A d \in Client \ {c} : phase'[d] = phase[d]
    BY <1>0, <1>5 DEF ReadBacklog, Hello
  <2>3. orders[at[c]] = <<>>
    BY <1>5 DEF ReadBacklog, Hello
  <2> QED
    BY <2>1, <2>2, <2>3
<1>6. ASSUME NEW c \in Client, LoadState(c) \/ LoadSeq(c)
      PROVE  SubscribedFirst'
  BY <1>0, <1>6 DEF LoadState, LoadSeq, hubVars
<1>7. CASE UNCHANGED <<orders, phase, at>>
  BY <1>7
<1>8. \/ \E t \in Task : HandleOrder(t) \/ RestartTask(t)
      \/ \E c \in Client : \/ Leave(c) \/ ReadBacklog(c) \/ Hello(c)
                           \/ LoadState(c) \/ LoadSeq(c)
                           \/ \E t \in Task : Connect(c, t)
      \/ UNCHANGED <<orders, phase, at>>
  <2>1. CASE Publish
    BY <2>1 DEF Publish, Write, Stamp, Send, hubVars, connVars
  <2>2. ASSUME NEW t \in Task, FanOut(t) \/ ReaderDies(t)
        PROVE  UNCHANGED <<orders, phase, at>>
    BY <2>2 DEF FanOut, ReaderDies
  <2>3. ASSUME NEW c \in Client, SendReplay(c) \/ Pump(c) \/ RefetchRead(c) \/ RefetchApply(c)
        PROVE  UNCHANGED <<orders, phase, at>>
    BY <2>3 DEF SendReplay, Pump, RefetchRead, RefetchApply, hubVars, connVars
  <2>4. CASE UNCHANGED vars
    BY <2>4 DEF vars, hubVars, connVars
  <2> QED
    BY <2>1, <2>2, <2>3, <2>4 DEF Next, Hub, Serve, Browser, LeaveClosed, Drop
<1> QED
  BY <1>1, <1>2, <1>3, <1>4, <1>5, <1>6, <1>7, <1>8

\* A page asks for what follows the last message it has seen.
LEMMA ResumesStep == ASSUME Types, Attached, Resumes, [Next]_vars PROVE Resumes'
<1> USE DEF Resumes
<1>0. /\ phase \in [Client -> Phase] /\ since \in [Client -> Nat] /\ seen \in [Client -> Nat]
      /\ lastSeq \in [Client -> Nat] /\ replay \in [Client -> Seq(Nat)] /\ seq \in Nat
      /\ queue \in [Client -> Seq(Nat)]
      /\ \A d \in Client : phase[d] \notin Connected => replay[d] = <<>> /\ lastSeq[d] = 0
  BY DEF Types, Attached, Connected
<1>1. ASSUME NEW t \in Task, RestartTask(t)
      PROVE  Resumes'
  BY <1>0, <1>1 DEF RestartTask, pageVars
<1>2. ASSUME NEW c \in Client, Leave(c)
      PROVE  Resumes'
  BY <1>0, <1>2 DEF Leave, HangUp, pageVars
<1>3. ASSUME NEW c \in Client, NEW t \in Task, Connect(c, t)
      PROVE  Resumes'
  BY <1>0, <1>3 DEF Connect, Connected, pageVars
<1>4. ASSUME NEW c \in Client, ReadBacklog(c) \/ Hello(c)
      PROVE  Resumes'
  BY <1>0, <1>4 DEF ReadBacklog, Hello, pageVars
<1>5. ASSUME NEW c \in Client, NEW m \in Nat, Receive(c, m)
      PROVE  /\ \A d \in Client : lastSeq'[d] <= seen'[d]
             /\ \A d \in Client \ {c} : seen'[d] = seen[d]
  <2>1. /\ Max({seen[c], m}) = IF seen[c] >= m THEN seen[c] ELSE m
        /\ Max({lastSeq[c], m}) = IF lastSeq[c] >= m THEN lastSeq[c] ELSE m
    BY <1>0, MaxOfTwo
  <2>2. /\ seen' = [seen EXCEPT ![c] = Max({@, m})]
        /\ lastSeq' = [lastSeq EXCEPT ![c] = Max({@, m})]
    BY <1>5 DEF Receive
  <2> QED
    BY <1>0, <2>1, <2>2
<1>6. ASSUME NEW c \in Client, SendReplay(c)
      PROVE  Resumes'
  <2>1. Head(replay[c]) \in Nat /\ Receive(c, Head(replay[c]))
    BY <1>0, <1>6, ElemsOfTail DEF SendReplay
  <2>2. /\ phase' = phase /\ since' = since /\ phase[c] = "replaying"
        /\ replay' = [replay EXCEPT ![c] = Tail(@)]
    BY <1>6 DEF SendReplay
  <2> QED
    BY <1>0, <1>5, <2>1, <2>2
<1>7. ASSUME NEW c \in Client, Pump(c)
      PROVE  Resumes'
  <2>1. Head(queue[c]) \in Nat
    BY <1>0, <1>7, ElemsOfTail DEF Pump
  <2>2. phase' = phase /\ since' = since /\ replay' = replay /\ phase[c] = "streaming"
    BY <1>7 DEF Pump
  <2>3. CASE Receive(c, Head(queue[c]))
    BY <1>0, <1>5, <2>1, <2>2, <2>3
  <2>4. CASE UNCHANGED <<got, lastSeq, pageVars>>
    BY <2>2, <2>4 DEF pageVars
  <2> QED
    BY <1>7, <2>3, <2>4 DEF Pump
<1>8. ASSUME NEW c \in Client, LoadState(c) \/ LoadSeq(c)
      PROVE  Resumes'
  <2>1. /\ \A d \in Client \ {c} : phase'[d] = phase[d] /\ seen'[d] = seen[d]
        /\ seen'[c] \in {seen[c], seq} /\ phase'[c] \in {"loading", "away"}
        /\ since' = since /\ lastSeq' = lastSeq /\ replay' = replay
    BY <1>0, <1>8 DEF LoadState, LoadSeq
  <2>2. phase[c] \in {"new", "loading"}
    BY <1>8 DEF LoadState, LoadSeq
  <2>3. lastSeq[c] = 0
    BY <1>0, <2>2 DEF Connected
  <2> QED
    BY <1>0, <2>1, <2>3
<1>9. CASE UNCHANGED <<phase, since, lastSeq, replay, seen>>
  BY <1>9
<1>10. \/ \E t \in Task : RestartTask(t)
       \/ \E c \in Client : \/ Leave(c) \/ ReadBacklog(c) \/ SendReplay(c) \/ Hello(c) \/ Pump(c)
                            \/ LoadState(c) \/ LoadSeq(c)
                            \/ \E t \in Task : Connect(c, t)
       \/ UNCHANGED <<phase, since, lastSeq, replay, seen>>
  <2>1. CASE Publish
    BY <2>1 DEF Publish, Write, Stamp, Send, connVars, pageVars
  <2>2. ASSUME NEW t \in Task, Hub(t)
        PROVE  UNCHANGED <<phase, since, lastSeq, replay, seen>>
    BY <2>2 DEF Hub, HandleOrder, FanOut, ReaderDies, connVars, pageVars
  <2>3. ASSUME NEW c \in Client, RefetchRead(c) \/ RefetchApply(c)
        PROVE  UNCHANGED <<phase, since, lastSeq, replay, seen>>
    BY <2>3 DEF RefetchRead, RefetchApply, connVars
  <2>4. CASE UNCHANGED vars
    BY <2>4 DEF vars, connVars, pageVars
  <2> QED
    BY <2>1, <2>2, <2>3, <2>4 DEF Next, Serve, Browser, LeaveClosed, Drop
<1> QED
  BY <1>1, <1>2, <1>3, <1>4, <1>6, <1>7, <1>8, <1>9, <1>10

-----------------------------------------------------------------------------
(* The backlog. *)

\* The entries after a number are the sent messages with a greater number that
\* the log still holds, in order.
LEMMA AfterOfLog ==
    ASSUME Types, LogIsTail, NEW n \in Nat
    PROVE  /\ Rising(After(chanlog, n))
           /\ \A m \in Nat : m \in Elems(After(chanlog, n)) <=>
                                 n < m /\ sent - Len(chanlog) < m /\ m <= sent
<1> DEFINE len == Len(chanlog)
           gone == sent - len
           older == {i \in DOMAIN chanlog : chanlog[i] <= n}
           k == IF n < gone THEN 0 ELSE IF n - gone > len THEN len ELSE n - gone
<1>1. /\ chanlog \in Seq(Nat) /\ len \in Nat /\ DOMAIN chanlog = 1 .. len /\ sent \in Nat
      /\ gone \in Nat /\ k \in 0 .. len
      /\ \A i \in 1 .. len : chanlog[i] = gone + i
  BY LogCapacity DEF Types, LogIsTail
<1>2. older = 1 .. k
  <2> HIDE DEF gone, len
  <2> QED
    BY <1>1
<1>3. Cardinality(older) = k
  <2> HIDE DEF older, k, gone, len
  <2>1. k \in Nat /\ 1 \in Int /\ k \in Int
    BY <1>1
  <2>2. Cardinality(1 .. k) = IF 1 > k THEN 0 ELSE k - 1 + 1
    BY <2>1, FS_Interval
  <2> QED
    BY <1>2, <2>1, <2>2
<1>4. After(chanlog, n) = SubSeq(chanlog, k + 1, len)
  BY <1>3 DEF After
<1> HIDE DEF older, k, gone, len
<1>5. \A i \in k + 1 .. len : chanlog[i] \in Nat
  BY <1>1
<1>6. /\ Len(SubSeq(chanlog, k + 1, len)) = len - k
      /\ \A i \in 1 .. len - k : SubSeq(chanlog, k + 1, len)[i] = chanlog[k + i]
  <2>1. k + 1 \in Int /\ len \in Int
    BY <1>1
  <2>2. /\ Len(SubSeq(chanlog, k + 1, len))
               = IF k + 1 <= len THEN len - (k + 1) + 1 ELSE 0
        /\ \A i \in 1 .. len - (k + 1) + 1 :
               SubSeq(chanlog, k + 1, len)[i] = chanlog[(k + 1) + i - 1]
    BY <1>5, <2>1, SubSeqProperties
  <2> QED
    BY <1>1, <2>2
<1>7. Len(After(chanlog, n)) = len - k /\ \A i \in 1 .. len - k : After(chanlog, n)[i] = gone + k + i
  BY <1>1, <1>4, <1>6
<1>8. Rising(After(chanlog, n))
  BY <1>1, <1>7 DEF Rising
<1>9. Elems(After(chanlog, n)) = {gone + k + i : i \in 1 .. len - k}
  BY <1>1, <1>7 DEF Elems
<1>10. \A m \in Nat : m \in Elems(After(chanlog, n)) <=> gone + k < m /\ m <= sent
  <2>1. gone + len = sent
    BY <1>1 DEF gone
  <2>2. \A m \in Nat : gone + k < m /\ m <= sent =>
            m - gone - k \in 1 .. len - k /\ m = gone + k + (m - gone - k)
    BY <1>1, <2>1
  <2>3. ASSUME NEW m \in Nat, m \in Elems(After(chanlog, n))
        PROVE  gone + k < m /\ m <= sent
    <3>1. PICK i \in 1 .. len - k : m = gone + k + i
      BY <1>9, <2>3
    <3> QED
      BY <1>1, <2>1, <3>1
  <2>4. ASSUME NEW m \in Nat, gone + k < m, m <= sent
        PROVE  m \in Elems(After(chanlog, n))
    BY <1>9, <2>2, <2>4
  <2> QED
    BY <2>3, <2>4
<1>11. \A m \in Nat : m <= sent => (gone + k < m <=> n < m /\ gone < m)
  BY <1>1 DEF k, gone
<1> QED
  BY <1>8, <1>10, <1>11 DEF gone, len

\* Which sent messages the log no longer holds.
LEMMA NotInTheLog ==
    ASSUME Types, LogIsTail, NEW m \in 1 .. sent
    PROVE  (\A i \in DOMAIN chanlog : chanlog[i] # m) <=> m <= sent - Len(chanlog)
<1>1. /\ Len(chanlog) \in Nat /\ DOMAIN chanlog = 1 .. Len(chanlog) /\ sent \in Nat
      /\ Len(chanlog) <= sent
      /\ \A i \in 1 .. Len(chanlog) : chanlog[i] = sent - Len(chanlog) + i
  BY LogCapacity DEF Types, LogIsTail
<1>2. ASSUME m > sent - Len(chanlog)
      PROVE  \E i \in 1 .. Len(chanlog) : chanlog[i] = m
  <2>1. m - (sent - Len(chanlog)) \in 1 .. Len(chanlog)
    BY <1>1, <1>2
  <2> QED
    BY <1>1, <2>1
<1>3. ASSUME NEW i \in 1 .. Len(chanlog), chanlog[i] = m
      PROVE  m > sent - Len(chanlog)
  BY <1>1, <1>3
<1>4. CASE m > sent - Len(chanlog)
  BY <1>1, <1>2, <1>4
<1>5. CASE ~(m > sent - Len(chanlog))
  <2>1. m <= sent - Len(chanlog)
    BY <1>1, <1>5
  <2> QED
    BY <1>1, <1>3, <1>5, <2>1
<1> QED
  BY <1>4, <1>5

\* Only what had left the log when a page came back counts as expired.
LEMMA ExpiredStep ==
    ASSUME Types, LogIsTail, ExpiredLeftTheLog, [Next]_vars
    PROVE  ExpiredLeftTheLog'
<1> USE LogCapacity DEF ExpiredLeftTheLog
<1>1. /\ sent \in Nat /\ sent' \in Nat /\ sent <= sent'
      /\ expired \in [Client -> SUBSET Nat] /\ since \in [Client -> Nat]
  <2>1. Types'
    BY TypesStep
  <2>2. sent <= sent'
    BY RedisStep DEF Types, Write, Stamp, Send, redisVars, LogIsTail
  <2> QED
    BY <2>1, <2>2 DEF Types
<1>2. ASSUME NEW c \in Client, ReadBacklog(c)
      PROVE  ExpiredLeftTheLog'
  <2>1. /\ sent' = sent
        /\ expired' = [expired EXCEPT ![c] = @ \cup {m \in since[c] + 1 .. sent :
                                                   \A i \in DOMAIN chanlog : chanlog[i] # m}]
    BY <1>2 DEF ReadBacklog, redisVars
  <2>2. ASSUME NEW m \in since[c] + 1 .. sent, \A i \in DOMAIN chanlog : chanlog[i] # m
        PROVE  m + CHANLOG_MAXLEN <= sent
    <3>1. m \in 1 .. sent
      BY <1>1
    <3>2. m <= sent - Len(chanlog)
      BY <2>2, <3>1, NotInTheLog
    <3> QED
      BY <1>1, <3>1, <3>2 DEF LogIsTail
  <2> QED
    BY <1>1, <2>1, <2>2
<1>3. ASSUME expired' = expired
      PROVE  ExpiredLeftTheLog'
  BY <1>1, <1>3
<1>4. \/ \E c \in Client : ReadBacklog(c)
      \/ expired' = expired
  <2>1. CASE Publish
    BY <2>1 DEF Publish, Write, Stamp, Send, history
  <2>2. ASSUME NEW t \in Task, Hub(t) \/ RestartTask(t)
        PROVE  expired' = expired
    BY <2>2 DEF Hub, HandleOrder, FanOut, ReaderDies, RestartTask, history
  <2>3. ASSUME NEW c \in Client, Serve(c) \/ Drop(c), ~ReadBacklog(c)
        PROVE  expired' = expired
    BY <2>3 DEF Serve, SendReplay, Hello, Pump, LeaveClosed, Drop, Leave, history
  <2>4. ASSUME NEW c \in Client, Browser(c)
        PROVE  expired' = expired
    BY <2>4 DEF Browser, LoadState, LoadSeq, RefetchRead, RefetchApply, Connect, history
  <2>5. CASE UNCHANGED vars
    BY <2>5 DEF vars, history
  <2> QED
    BY <2>1, <2>2, <2>3, <2>4, <2>5 DEF Next, Serve
<1> QED
  BY <1>2, <1>3, <1>4

-----------------------------------------------------------------------------
(* The order of the messages. *)

\* What the hub's reader does with the first message of its wire.
LEMMA Delivery ==
    ASSUME Types, InOrder, NEW t \in Task, FanOut(t) \/ ReaderDies(t)
    PROVE  /\ reading[t] /\ \A u \in Task : reading'[u] => reading[u]
           /\ Head(wire[t]) \in 1 .. sent
           /\ wire[t] # <<>> /\ wire'[t] = Tail(wire[t])
           /\ \A u \in Task \ {t} : wire'[u] = wire[u]
           /\ \A c \in Client :
               /\ closing[c] => closing'[c]
               /\ \/ queue'[c] = queue[c]
                  \/ at[c] = t /\ queue'[c] = Append(queue[c], Head(wire[t]))
               /\ at[c] = t /\ reading'[t] /\ ~closing'[c] =>
                      queue'[c] = Append(queue[c], Head(wire[t]))
           /\ sent' = sent
           /\ phase' = phase /\ at' = at /\ replay' = replay
           /\ start' = start /\ seen' = seen /\ got' = got /\ expired' = expired
<1>1. wire[t] # <<>> /\ wire \in [Task -> Seq(Nat)] /\ wire' = [wire EXCEPT ![t] = Tail(@)]
  BY DEF FanOut, ReaderDies, Types
<1>2. Head(wire[t]) \in 1 .. sent
  <2>1. Head(wire[t]) \in Elems(wire[t])
    BY <1>1, ElemsOfTail
  <2> QED
    BY <2>1 DEF InOrder, WireInOrder
<1>3. sent' = sent /\ phase' = phase /\ at' = at /\ replay' = replay
      /\ start' = start /\ seen' = seen /\ got' = got /\ expired' = expired
  BY DEF FanOut, ReaderDies, redisVars, pageVars, history
<1>4. reading[t] /\ \A u \in Task : reading'[u] => reading[u]
  BY DEF FanOut, ReaderDies, Types
<1>5. ASSUME NEW c \in Client
      PROVE  /\ closing[c] => closing'[c]
             /\ \/ queue'[c] = queue[c]
                \/ at[c] = t /\ queue'[c] = Append(queue[c], Head(wire[t]))
             /\ at[c] = t /\ reading'[t] /\ ~closing'[c] =>
                    queue'[c] = Append(queue[c], Head(wire[t]))
  <2>1. CASE FanOut(t)
    BY <2>1 DEF FanOut, Types
  <2>2. CASE ReaderDies(t)
    BY <2>2 DEF ReaderDies, Members, Types
  <2> QED
    BY <2>1, <2>2
<1> QED
  BY <1>1, <1>2, <1>3, <1>4, <1>5

LEMMA InOrderStep ==
    ASSUME Types, LogIsTail, Attached, InOrder, [Next]_vars
    PROVE  InOrder'
<1> USE ChannelParameters
<1>0. /\ wire \in [Task -> Seq(Nat)] /\ queue \in [Client -> Seq(Nat)]
      /\ replay \in [Client -> Seq(Nat)] /\ at \in [Client -> Task \cup {NoTask}]
      /\ sent \in Nat /\ seq \in Nat /\ since \in [Client -> Nat] /\ NoTask \notin Task
      /\ \A c \in Client : at[c] = NoTask => replay[c] = <<>> /\ queue[c] = <<>>
      /\ chanlog \in Seq(Nat)
  BY DEF Types, Attached
<1>1. CASE Send
  <2>1. /\ sent' = sent + 1 /\ queue' = queue /\ replay' = replay /\ at' = at
        /\ wire' = [t \in Task |-> IF subscribed[t] THEN Append(wire[t], sent + 1) ELSE wire[t]]
    BY <1>0, <1>1 DEF Send, LogIsTail, connVars, Types
  <2>2. ASSUME NEW t \in Task
        PROVE  /\ WireInOrder(t)'
               /\ Elems(wire'[t]) \subseteq Elems(wire[t]) \cup {sent + 1}
    <3>1. Rising(wire[t]) /\ Elems(wire[t]) \subseteq 1 .. sent
      BY DEF InOrder, WireInOrder
    <3>2. /\ Rising(Append(wire[t], sent + 1))
          /\ Elems(Append(wire[t], sent + 1)) = Elems(wire[t]) \cup {sent + 1}
      <4>1. \A m \in Elems(wire[t]) : m < sent + 1
        BY <1>0, <3>1
      <4> QED
        BY <1>0, <3>1, <4>1, RisingAppend, ElemsOfAppend
    <3>3. wire'[t] = Append(wire[t], sent + 1) \/ wire'[t] = wire[t]
      BY <2>1
    <3>4. Rising(wire'[t]) /\ Elems(wire'[t]) \subseteq Elems(wire[t]) \cup {sent + 1}
      BY <3>1, <3>2, <3>3
    <3>5. 1 .. sent \subseteq 1 .. sent + 1 /\ sent + 1 \in 1 .. sent + 1
      BY <1>0
    <3>6. Elems(wire'[t]) \subseteq 1 .. sent'
      BY <2>1, <3>1, <3>4, <3>5
    <3> QED
      BY <3>4, <3>6 DEF WireInOrder
  <2>3. ASSUME NEW c \in Client
        PROVE  QueueInOrder(c)'
    BY <1>0, <2>1, <2>2 DEF InOrder, QueueInOrder
  <2> QED
    BY <2>2, <2>3 DEF InOrder
<1>2. ASSUME NEW t \in Task, FanOut(t) \/ ReaderDies(t)
      PROVE  InOrder'
  <2>0. /\ Head(wire[t]) \in 1 .. sent
        /\ wire[t] # <<>> /\ wire'[t] = Tail(wire[t])
        /\ \A u \in Task \ {t} : wire'[u] = wire[u]
        /\ \A c \in Client :
               \/ queue'[c] = queue[c]
               \/ at[c] = t /\ queue'[c] = Append(queue[c], Head(wire[t]))
        /\ sent' = sent /\ at' = at /\ replay' = replay
    BY <1>2, Delivery
  <2>1. /\ Elems(wire[t]) = {Head(wire[t])} \cup Elems(wire'[t])
        /\ Rising(wire'[t]) /\ \A m \in Elems(wire'[t]) : Head(wire[t]) < m
    BY <1>0, <2>0, ElemsOfTail, RisingTail DEF InOrder, WireInOrder
  <2>2. ASSUME NEW u \in Task
        PROVE  WireInOrder(u)'
    BY <2>0, <2>1 DEF InOrder, WireInOrder
  <2>3. ASSUME NEW c \in Client
        PROVE  QueueInOrder(c)'
    <3>1. QueueInOrder(c)
      BY DEF InOrder
    <3>2. CASE queue'[c] = queue[c]
      <4>1. at[c] \in Task => Elems(wire'[at[c]]) \subseteq Elems(wire[at[c]])
        BY <2>0, <2>1
      <4> QED
        BY <2>0, <3>1, <3>2, <4>1 DEF QueueInOrder
    <3>3. CASE at[c] = t /\ queue'[c] = Append(queue[c], Head(wire[t]))
      <4>1. \A m \in Elems(queue[c]) : m < Head(wire[t])
        BY <2>1, <3>1, <3>3 DEF QueueInOrder
      <4>2. Rising(queue'[c]) /\ Elems(queue'[c]) = Elems(queue[c]) \cup {Head(wire[t])}
        BY <1>0, <2>0, <3>1, <3>3, <4>1, RisingAppend, ElemsOfAppend DEF QueueInOrder
      <4>3. Elems(queue[c]) \subseteq Elems(queue[c]) /\ Elems(wire'[t]) \subseteq Elems(wire[t])
        BY <2>1
      <4> QED
        BY <2>0, <2>1, <3>1, <3>3, <4>2, <4>3 DEF QueueInOrder
    <3> QED
      BY <2>0, <3>2, <3>3
  <2> QED
    BY <2>2, <2>3 DEF InOrder
<1>3. ASSUME NEW t \in Task, RestartTask(t)
      PROVE  InOrder'
  <2>1. /\ wire' = [wire EXCEPT ![t] = <<>>] /\ sent' = sent
        /\ replay' = [c \in Client |-> IF at[c] = t THEN <<>> ELSE replay[c]]
        /\ queue' = [c \in Client |-> IF at[c] = t THEN <<>> ELSE queue[c]]
        /\ at' = [c \in Client |-> IF at[c] = t THEN NoTask ELSE at[c]]
    BY <1>3 DEF RestartTask, redisVars
  <2>2. \A u \in Task : WireInOrder(u)'
    BY <1>0, <2>1, EmptyHasNone DEF InOrder, WireInOrder
  <2>3. \A c \in Client : QueueInOrder(c)'
    BY <1>0, <2>1, EmptyHasNone DEF InOrder, QueueInOrder
  <2> QED
    BY <2>2, <2>3 DEF InOrder
<1>4. ASSUME NEW c \in Client, Leave(c)
      PROVE  InOrder'
  <2>1. /\ wire' = wire /\ sent' = sent /\ at' = [at EXCEPT ![c] = NoTask]
        /\ replay' = [replay EXCEPT ![c] = <<>>] /\ queue' = [queue EXCEPT ![c] = <<>>]
    BY <1>4 DEF Leave, HangUp, redisVars
  <2> QED
    BY <1>0, <2>1, EmptyHasNone DEF InOrder, WireInOrder, QueueInOrder
<1>5. ASSUME NEW c \in Client, NEW t \in Task, Connect(c, t)
      PROVE  InOrder'
  <2>1. /\ wire' = wire /\ sent' = sent /\ at' = [at EXCEPT ![c] = t]
        /\ replay' = replay /\ queue' = queue
    BY <1>5 DEF Connect, redisVars
  <2>2. queue[c] = <<>>
    BY <1>5 DEF Connect, Attached, Connected
  <2> QED
    BY <1>0, <2>1, <2>2, EmptyHasNone DEF InOrder, WireInOrder, QueueInOrder
<1>6. ASSUME NEW c \in Client, ReadBacklog(c)
      PROVE  InOrder'
  <2>1. /\ wire' = wire /\ sent' = sent /\ at' = at /\ queue' = queue
        /\ replay' = [replay EXCEPT ![c] = After(chanlog, since[c])]
    BY <1>6 DEF ReadBacklog, redisVars, hubVars
  <2>2. Rising(After(chanlog, since[c]))
    BY <1>0, AfterOfLog
  <2> QED
    BY <1>0, <2>1, <2>2 DEF InOrder, WireInOrder, QueueInOrder
<1>7. ASSUME NEW c \in Client, SendReplay(c)
      PROVE  InOrder'
  <2>1. /\ wire' = wire /\ sent' = sent /\ at' = at /\ queue' = queue
        /\ replay' = [replay EXCEPT ![c] = Tail(@)] /\ replay[c] # <<>>
    BY <1>7 DEF SendReplay, redisVars, hubVars
  <2>2. Rising(Tail(replay[c]))
    BY <1>0, <2>1, RisingTail DEF InOrder, QueueInOrder
  <2> QED
    BY <1>0, <2>1, <2>2 DEF InOrder, WireInOrder, QueueInOrder
<1>8. ASSUME NEW c \in Client, Pump(c)
      PROVE  InOrder'
  <2>1. /\ wire' = wire /\ sent' = sent /\ at' = at /\ replay' = replay
        /\ queue' = [queue EXCEPT ![c] = Tail(@)] /\ queue[c] # <<>>
    BY <1>8 DEF Pump, redisVars, hubVars
  <2>2. Rising(Tail(queue[c])) /\ Elems(Tail(queue[c])) \subseteq Elems(queue[c])
    BY <1>0, <2>1, RisingTail, ElemsOfTail DEF InOrder, QueueInOrder
  <2> QED
    BY <1>0, <2>1, <2>2 DEF InOrder, WireInOrder, QueueInOrder
<1>9. CASE UNCHANGED <<sent, wire, at, queue, replay>>
  BY <1>9 DEF InOrder, WireInOrder, QueueInOrder
<1>10. \/ Send
       \/ \E t \in Task : FanOut(t) \/ ReaderDies(t) \/ RestartTask(t)
       \/ \E c \in Client : \/ Leave(c) \/ ReadBacklog(c) \/ SendReplay(c) \/ Pump(c)
                            \/ \E t \in Task : Connect(c, t)
       \/ UNCHANGED <<sent, wire, at, queue, replay>>
  <2>1. CASE Write \/ Stamp
    BY <2>1 DEF Write, Stamp, connVars, hubVars
  <2>2. ASSUME NEW t \in Task, HandleOrder(t)
        PROVE  UNCHANGED <<sent, wire, at, queue, replay>>
    BY <2>2 DEF HandleOrder, connVars, redisVars
  <2>3. ASSUME NEW c \in Client, \/ Hello(c) \/ LoadState(c) \/ LoadSeq(c)
                                 \/ RefetchRead(c) \/ RefetchApply(c)
        PROVE  UNCHANGED <<sent, wire, at, queue, replay>>
    BY <2>3 DEF Hello, LoadState, LoadSeq, RefetchRead, RefetchApply, connVars, hubVars, redisVars
  <2>4. CASE UNCHANGED vars
    BY <2>4 DEF vars, connVars, hubVars, redisVars
  <2> QED
    BY <2>1, <2>2, <2>3, <2>4 DEF Next, Publish, Hub, Serve, Browser, LeaveClosed, Drop
<1> QED
  BY <1>1, <1>2, <1>3, <1>4, <1>5, <1>6, <1>7, <1>8, <1>9, <1>10

-----------------------------------------------------------------------------
(* Nothing missing. *)

\* Where the numbers up to the first element of a rising sequence are all
\* known or in the sequence, those below the first are known.
LEMMA BelowTheHead ==
    ASSUME NEW s \in Seq(Nat), s # <<>>, Rising(s), NEW K, NEW a \in Nat,
           a + 1 .. Head(s) \subseteq K \cup Elems(s)
    PROVE  a + 1 .. Head(s) \subseteq K \cup {Head(s)}
<1>1. /\ Head(s) \in Nat /\ Elems(s) = {Head(s)} \cup Elems(Tail(s))
      /\ \A m \in Elems(Tail(s)) : Head(s) < m
  BY ElemsOfTail, RisingTail
<1>2. SUFFICES ASSUME NEW m \in a + 1 .. Head(s), m \in Elems(Tail(s))
               PROVE  FALSE
  BY <1>1
<1> QED
  BY <1>1, <1>2

LEMMA MissingPublish ==
    ASSUME Types, LogIsTail, Attached, SubscribedWhileWanted, SubscribedFirst, NothingMissing,
           Send
    PROVE  NothingMissing'
<1>1. /\ sent' = sent + 1 /\ sent \in Nat
      /\ wire' = [t \in Task |-> IF subscribed[t] THEN Append(wire[t], sent + 1) ELSE wire[t]]
  BY DEF Send, LogIsTail, Types
<1>2. /\ phase' = phase /\ at' = at /\ replay' = replay /\ queue' = queue /\ closing' = closing
      /\ reading' = reading /\ seen' = seen /\ start' = start /\ got' = got
      /\ expired' = expired
  BY DEF Send, connVars, pageVars, history
<1>3. SUFFICES ASSUME NEW c \in Client
               PROVE  NoneMissing(c)'
  BY DEF NothingMissing
<1>4. CASE Serving(c)
  <2>1. at[c] \in Task /\ orders[at[c]] = <<>>
    BY <1>4 DEF Types, Attached, Serving, Connected, SubscribedFirst
  <2>2. subscribed[at[c]]
    BY <2>1 DEF SubscribedWhileWanted, Members
  <2>3. wire'[at[c]] = Append(wire[at[c]], sent + 1)
    BY <1>1, <2>1, <2>2
  <2>4. Elems(wire'[at[c]]) = Elems(wire[at[c]]) \cup {sent + 1}
    BY <1>1, <2>1, <2>3, ElemsOfAppend DEF Types
  <2>5. \A a \in Nat : a + 1 .. sent + 1 \subseteq (a + 1 .. sent) \cup {sent + 1}
    BY <1>1
  <2>6. NoneMissing(c) /\ start[c] \in Nat
    BY DEF NothingMissing, Types
  <2> QED
    BY <1>1, <1>2, <2>4, <2>5, <2>6 DEF NoneMissing, Known, Serving
<1>5. CASE ~Serving(c)
  BY <1>2, <1>5 DEF NothingMissing, NoneMissing, Known, Serving
<1> QED
  BY <1>4, <1>5

LEMMA MissingDelivery ==
    ASSUME Types, Attached, InOrder, NothingMissing,
           NEW t \in Task, FanOut(t) \/ ReaderDies(t)
    PROVE  NothingMissing'
<1> DEFINE m == Head(wire[t])
<1>0. /\ reading[t] /\ \A u \in Task : reading'[u] => reading[u]
      /\ m \in 1 .. sent
      /\ wire[t] # <<>> /\ wire'[t] = Tail(wire[t])
      /\ \A u \in Task \ {t} : wire'[u] = wire[u]
      /\ \A c \in Client :
          /\ closing[c] => closing'[c]
          /\ \/ queue'[c] = queue[c]
             \/ at[c] = t /\ queue'[c] = Append(queue[c], m)
          /\ at[c] = t /\ reading'[t] /\ ~closing'[c] => queue'[c] = Append(queue[c], m)
      /\ sent' = sent /\ phase' = phase /\ at' = at /\ replay' = replay
      /\ start' = start /\ seen' = seen /\ got' = got /\ expired' = expired
  BY Delivery
<1>1. /\ wire[t] \in Seq(Nat) /\ Elems(wire[t]) = {m} \cup Elems(wire'[t]) /\ sent \in Nat
      /\ Rising(wire[t])
  BY <1>0, ElemsOfTail DEF Types, InOrder, WireInOrder
<1> HIDE DEF m
<1>2. SUFFICES ASSUME NEW c \in Client
               PROVE  NoneMissing(c)'
  BY DEF NothingMissing
<1> DEFINE K == Known(c) \cup Elems(replay[c]) \cup Elems(queue[c])
<1>3. NoneMissing(c) /\ start[c] \in Nat
  BY DEF NothingMissing, Types
<1>4. CASE ~Serving(c)
  BY <1>0, <1>3, <1>4 DEF NoneMissing, Known, Serving
<1>5. CASE Serving(c)
  <2>1. at[c] \in Task
    BY <1>5 DEF Types, Attached, Serving, Connected
  <2>2. CASE at[c] # t
    <3>1. queue'[c] = queue[c] /\ wire'[at[c]] = wire[at[c]]
      BY <1>0, <2>1, <2>2
    <3> QED
      BY <1>0, <1>3, <2>1, <3>1 DEF NoneMissing, Known, Serving
  <2>3. CASE at[c] = t /\ queue'[c] = queue[c] /\ (closing'[c] \/ ~reading'[t])
    BY <1>0, <1>3, <2>3 DEF NoneMissing, Known, Serving
  <2>4. CASE at[c] = t /\ queue'[c] = Append(queue[c], m)
    <3>1. Elems(queue'[c]) = Elems(queue[c]) \cup {m}
      <4>1. queue[c] \in Seq(Nat) /\ m \in Nat
        BY <1>0 DEF Types
      <4> QED
        BY <2>4, <4>1, ElemsOfAppend
    <3>2. Known(c)' = Known(c)
      BY <1>0 DEF Known
    <3>3. ASSUME ~closing'[c]
          PROVE  /\ start[c] + 1 .. sent \subseteq K \cup Elems(wire[t])
                 /\ start[c] + 1 .. m \subseteq K \cup {m}
                 /\ \A n \in Elems(queue[c]) : start[c] + 1 .. n \subseteq K
      <4>1. /\ start[c] + 1 .. sent \subseteq K \cup Elems(wire[t])
            /\ \A n \in Elems(queue[c]) : start[c] + 1 .. n \subseteq K
        BY <1>0, <1>3, <1>5, <2>4, <3>3 DEF NoneMissing
      <4> HIDE DEF K
      <4>2. start[c] + 1 .. m \subseteq K \cup Elems(wire[t])
        BY <1>0, <1>1, <1>3, <4>1
      <4> QED
        BY <1>0, <1>1, <1>3, <4>1, <4>2, BelowTheHead DEF m
    <3>4. ASSUME ~closing'[c]
          PROVE  /\ \A n \in Elems(queue'[c]) : start[c] + 1 .. n \subseteq K \cup {m}
                 /\ start[c] + 1 .. sent \subseteq K \cup {m} \cup Elems(wire'[t])
      <4> HIDE DEF K
      <4> QED
        BY <1>1, <3>1, <3>3, <3>4
    <3>5. K \cup {m} = Known(c)' \cup Elems(replay'[c]) \cup Elems(queue'[c])
      BY <1>0, <3>1, <3>2
    <3>6. /\ start[c] + 1 .. seen[c] \subseteq Known(c)
          /\ \A n \in Elems(replay[c]) : start[c] + 1 .. n \subseteq Known(c) \cup Elems(replay[c])
      BY <1>3, <1>5 DEF NoneMissing
    <3> HIDE DEF K
    <3> QED
      BY <1>0, <2>4, <3>2, <3>4, <3>5, <3>6 DEF NoneMissing
  <2> QED
    BY <1>0, <2>1, <2>2, <2>3, <2>4
<1> QED
  BY <1>4, <1>5

\* A connection nothing of which changes misses no more than before.
LEMMA NotTouched ==
    ASSUME NEW d \in Client, NoneMissing(d), Serving(d)' => Serving(d), sent' = sent,
           start'[d] = start[d], seen'[d] = seen[d],
           got'[d] = got[d], expired'[d] = expired[d],
           replay'[d] = replay[d], queue'[d] = queue[d], closing'[d] = closing[d],
           at'[d] = at[d], wire'[at[d]] = wire[at[d]], reading'[at[d]] = reading[at[d]]
    PROVE  NoneMissing(d)'
<1>1. Known(d)' = Known(d)
  BY DEF Known
<1> QED
  BY <1>1 DEF NoneMissing

LEMMA MissingBacklog ==
    ASSUME Types, LogIsTail, InOrder, Resumes, NothingMissing,
           NEW c \in Client, ReadBacklog(c)
    PROVE  NothingMissing'
<1> DEFINE lost == {m \in since[c] + 1 .. sent : \A i \in DOMAIN chanlog : chanlog[i] # m}
<1>1. /\ phase' = [phase EXCEPT ![c] = "replaying"] /\ phase[c] = "joined"
      /\ replay' = [replay EXCEPT ![c] = After(chanlog, since[c])]
      /\ expired' = [expired EXCEPT ![c] = @ \cup lost]
      /\ at' = at /\ queue' = queue /\ closing' = closing /\ start' = start /\ got' = got
      /\ wire' = wire /\ reading' = reading /\ sent' = sent /\ seen' = seen
  BY DEF ReadBacklog, hubVars, redisVars, pageVars
<1>2. ASSUME NEW d \in Client \ {c}
      PROVE  NoneMissing(d)'
  <2>1. phase'[d] = phase[d] /\ replay'[d] = replay[d] /\ expired'[d] = expired[d]
    BY <1>1, <1>2 DEF Types
  <2> QED
    BY <1>1, <2>1, NotTouched DEF NothingMissing, Serving
<1>3. /\ since[c] = seen[c] /\ since[c] \in Nat /\ sent \in Nat /\ start[c] \in Nat
      /\ start[c] + 1 .. seen[c] \subseteq Known(c)
  BY <1>1 DEF Resumes, NothingMissing, NoneMissing, Types
<1>4. /\ expired'[c] = expired[c] \cup lost
      /\ replay'[c] = After(chanlog, since[c]) /\ got'[c] = got[c]
  BY <1>1 DEF Types
<1>5. \A m \in Elems(replay'[c]) : m <= sent
  BY <1>3, <1>4, AfterOfLog, AfterIsASeq, ElemsAreNumbers DEF Types
<1>6. since[c] + 1 .. sent \subseteq lost \cup Elems(replay'[c])
  <2>1. SUFFICES ASSUME NEW m \in since[c] + 1 .. sent, m \notin Elems(replay'[c])
                 PROVE  m \in lost
    OBVIOUS
  <2>2. m \in 1 .. sent /\ m \in Nat /\ since[c] < m /\ m <= sent
    BY <1>3
  <2>3. ~(sent - Len(chanlog) < m)
    BY <1>3, <1>4, <2>1, <2>2, AfterOfLog
  <2>4. m <= sent - Len(chanlog)
    BY <1>3, <2>2, <2>3 DEF Types
  <2> QED
    BY <2>2, <2>4, NotInTheLog
<1>7. Known(c)' = Known(c) \cup lost
  BY <1>4 DEF Known
<1> HIDE DEF lost
<1>8. start[c] + 1 .. sent \subseteq Known(c)' \cup Elems(replay'[c])
  <2>1. start[c] + 1 .. sent \subseteq (start[c] + 1 .. seen[c]) \cup (since[c] + 1 .. sent)
    BY <1>3
  <2> QED
    BY <1>3, <1>6, <1>7, <2>1
<1>9. \A n \in Nat : n <= sent => start[c] + 1 .. n \subseteq start[c] + 1 .. sent
  BY <1>3
<1>10. Elems(queue'[c]) \subseteq 1 .. sent /\ Elems(replay'[c]) \subseteq Nat
  BY <1>1, <1>3, <1>4, AfterIsASeq, ElemsAreNumbers DEF InOrder, QueueInOrder, Types
<1>11. \A n \in Elems(queue'[c]) : n \in Nat /\ n <= sent
  BY <1>3, <1>10
<1>12. NoneMissing(c)'
  <2>1. start'[c] = start[c] /\ seen'[c] = seen[c] /\ sent' = sent
    BY <1>1
  <2>2. start'[c] + 1 .. seen'[c] \subseteq Known(c)'
    BY <1>3, <1>7, <2>1
  <2>3. \A n \in Elems(replay'[c]) :
            start'[c] + 1 .. n \subseteq Known(c)' \cup Elems(replay'[c])
    BY <1>5, <1>8, <1>9, <1>10, <2>1
  <2>4. \A n \in Elems(queue'[c]) :
            start'[c] + 1 .. n \subseteq Known(c)' \cup Elems(replay'[c]) \cup Elems(queue'[c])
    BY <1>8, <1>9, <1>11, <2>1
  <2>5. start'[c] + 1 .. sent' \subseteq Known(c)' \cup Elems(replay'[c]) \cup Elems(queue'[c])
                                            \cup Elems(wire'[at'[c]])
    BY <1>8, <2>1
  <2> QED
    BY <2>2, <2>3, <2>4, <2>5 DEF NoneMissing
<1> QED
  BY <1>2, <1>12 DEF NothingMissing

LEMMA MissingReplay ==
    ASSUME Types, InOrder, NothingMissing, NEW c \in Client, SendReplay(c)
    PROVE  NothingMissing'
<1> DEFINE m == Head(replay[c])
<1>1. /\ phase' = phase /\ phase[c] = "replaying" /\ replay[c] # <<>>
      /\ replay' = [replay EXCEPT ![c] = Tail(@)]
      /\ got' = [got EXCEPT ![c] = @ \cup {m}]
      /\ seen' = [seen EXCEPT ![c] = Max({@, m})]
      /\ at' = at /\ queue' = queue /\ closing' = closing /\ start' = start
      /\ expired' = expired /\ wire' = wire /\ reading' = reading /\ sent' = sent
  BY DEF SendReplay, Receive, hubVars, redisVars
<1>2. ASSUME NEW d \in Client \ {c}
      PROVE  NoneMissing(d)'
  <2>1. replay'[d] = replay[d] /\ got'[d] = got[d] /\ seen'[d] = seen[d]
    BY <1>1, <1>2 DEF Types
  <2> QED
    BY <1>1, <2>1, NotTouched DEF NothingMissing, Serving
<1>3. /\ replay[c] \in Seq(Nat) /\ start[c] \in Nat /\ seen[c] \in Nat /\ m \in Nat
      /\ Elems(replay[c]) = {m} \cup Elems(Tail(replay[c])) /\ Rising(replay[c])
      /\ \A n \in Elems(Tail(replay[c])) : m < n
  BY <1>1, ElemsOfTail, RisingTail DEF Types, InOrder, QueueInOrder
<1>4. /\ NoneMissing(c) /\ Serving(c)
  BY <1>1 DEF NothingMissing, Serving
<1>5. start[c] + 1 .. m \subseteq Known(c) \cup {m}
  <2>1. start[c] + 1 .. m \subseteq Known(c) \cup Elems(replay[c])
    BY <1>3, <1>4 DEF NoneMissing
  <2> QED
    BY <1>1, <1>3, <2>1, BelowTheHead
<1>6. /\ replay'[c] = Tail(replay[c]) /\ got'[c] = got[c] \cup {m}
      /\ seen'[c] = IF seen[c] >= m THEN seen[c] ELSE m
  BY <1>1, <1>3, MaxOfTwo DEF Types
<1> HIDE DEF m
<1>7. Known(c)' = Known(c) \cup {m}
  BY <1>1, <1>6 DEF Known
<1>8. Known(c) \cup Elems(replay[c]) = Known(c)' \cup Elems(replay'[c])
  BY <1>3, <1>6, <1>7
<1>9. start[c] + 1 .. seen'[c] \subseteq Known(c)'
  BY <1>4, <1>5, <1>6, <1>7 DEF NoneMissing
<1>10. Elems(replay'[c]) \subseteq Elems(replay[c])
  BY <1>3, <1>6
<1>11. NoneMissing(c)'
  BY <1>1, <1>4, <1>8, <1>9, <1>10 DEF NoneMissing, Serving
<1> QED
  BY <1>2, <1>11 DEF NothingMissing

LEMMA MissingPump ==
    ASSUME Types, InOrder, Resumes, NothingMissing, NEW c \in Client, Pump(c)
    PROVE  NothingMissing'
<1> DEFINE m == Head(queue[c])
<1>1. /\ phase' = phase /\ phase[c] = "streaming" /\ queue[c] # <<>> /\ ~closing[c]
      /\ queue' = [queue EXCEPT ![c] = Tail(@)]
      /\ \/ /\ got' = [got EXCEPT ![c] = @ \cup {m}]
            /\ seen' = [seen EXCEPT ![c] = Max({@, m})]
         \/ /\ got' = got /\ seen' = seen /\ ~(m > lastSeq[c])
      /\ at' = at /\ replay' = replay /\ closing' = closing /\ start' = start
      /\ expired' = expired /\ wire' = wire /\ reading' = reading /\ sent' = sent
  BY DEF Pump, Receive, hubVars, redisVars, pageVars
<1>2. ASSUME NEW d \in Client \ {c}
      PROVE  NoneMissing(d)'
  <2>1. queue'[d] = queue[d] /\ got'[d] = got[d] /\ seen'[d] = seen[d]
    BY <1>1, <1>2 DEF Types
  <2> QED
    BY <1>1, <2>1 DEF NothingMissing, NoneMissing, Known, Serving
<1>3. /\ queue[c] \in Seq(Nat) /\ start[c] \in Nat /\ seen[c] \in Nat /\ m \in Nat
      /\ lastSeq[c] \in Nat
      /\ Elems(queue[c]) = {m} \cup Elems(Tail(queue[c])) /\ Rising(queue[c])
  BY <1>1, ElemsOfTail DEF Types, InOrder, QueueInOrder
<1>4. NoneMissing(c) /\ Serving(c) /\ replay[c] = <<>> /\ lastSeq[c] <= seen[c]
  BY <1>1 DEF NothingMissing, Serving, Resumes
<1>5. Elems(replay[c]) = {}
  BY <1>4, EmptyHasNone
<1>6. start[c] + 1 .. m \subseteq Known(c) \cup {m}
  <2>1. start[c] + 1 .. m \subseteq Known(c) \cup Elems(queue[c])
    BY <1>1, <1>3, <1>4, <1>5 DEF NoneMissing
  <2> QED
    BY <1>1, <1>3, <2>1, BelowTheHead
<1>7. queue'[c] = Tail(queue[c])
  BY <1>1 DEF Types
<1>8. CASE got' = [got EXCEPT ![c] = @ \cup {m}] /\ seen' = [seen EXCEPT ![c] = Max({@, m})]
  <2>1. /\ got'[c] = got[c] \cup {m}
        /\ seen'[c] = IF seen[c] >= m THEN seen[c] ELSE m
    BY <1>3, <1>8, MaxOfTwo DEF Types
  <2> HIDE DEF m
  <2>2. Known(c)' = Known(c) \cup {m}
    BY <1>1, <2>1 DEF Known
  <2>3. Known(c) \cup Elems(queue[c]) = Known(c)' \cup Elems(queue'[c])
    BY <1>3, <1>7, <2>2
  <2>4. start[c] + 1 .. seen'[c] \subseteq Known(c)'
    BY <1>4, <1>6, <2>1, <2>2 DEF NoneMissing
  <2>5. Elems(queue'[c]) \subseteq Elems(queue[c])
    BY <1>3, <1>7
  <2>6. NoneMissing(c)'
    BY <1>1, <1>4, <1>5, <2>3, <2>4, <2>5 DEF NoneMissing, Serving
  <2> QED
    BY <1>2, <2>6 DEF NothingMissing
<1>9. CASE got' = got /\ seen' = seen /\ ~(m > lastSeq[c])
  <2>1. m <= seen[c]
    BY <1>3, <1>4, <1>9
  <2> HIDE DEF m
  <2>2. Known(c)' = Known(c) /\ start[c] + 1 .. seen[c] \subseteq Known(c)
    BY <1>1, <1>4, <1>9 DEF Known, NoneMissing
  <2>3. \A n \in Int : m \in start[c] + 1 .. n => m \in Known(c)
    BY <1>3, <2>1, <2>2
  <2>4. /\ \A n \in Elems(queue[c]) : start[c] + 1 .. n \subseteq Known(c) \cup Elems(queue[c])
        /\ reading[at[c]] => start[c] + 1 .. sent \subseteq Known(c) \cup Elems(queue[c])
                                                           \cup Elems(wire[at[c]])
    BY <1>1, <1>4, <1>5 DEF NoneMissing
  <2>5. sent \in Int /\ Elems(queue[c]) \subseteq Int
    BY <1>3, ElemsAreNumbers DEF Types
  <2>6. /\ \A n \in Elems(queue'[c]) :
               start[c] + 1 .. n \subseteq Known(c) \cup Elems(queue'[c])
        /\ reading[at[c]] => start[c] + 1 .. sent \subseteq Known(c) \cup Elems(queue'[c])
                                                           \cup Elems(wire[at[c]])
    BY <1>3, <1>7, <2>3, <2>4, <2>5
  <2>7. NoneMissing(c)'
    BY <1>1, <1>4, <1>5, <1>9, <2>2, <2>6 DEF NoneMissing
  <2> QED
    BY <1>2, <2>7 DEF NothingMissing
<1> QED
  BY <1>1, <1>8, <1>9

LEMMA MissingStep ==
    ASSUME PromptSubscribe, IInv, [Next]_vars
    PROVE  NothingMissing'
<1> USE DEF IInv
<1>1. CASE Write \/ Stamp
  BY <1>1 DEF Write, Stamp, NothingMissing, NoneMissing, Known, Serving, connVars, pageVars,
              history, hubVars
<1>2. CASE Send
  BY <1>2, MissingPublish
<1>3. ASSUME NEW t \in Task, HandleOrder(t)
      PROVE  NothingMissing'
  BY <1>3 DEF HandleOrder, NothingMissing, NoneMissing, Known, Serving, connVars, pageVars,
              history, redisVars
<1>4. ASSUME NEW t \in Task, FanOut(t) \/ ReaderDies(t)
      PROVE  NothingMissing'
  BY <1>4, MissingDelivery
<1>5. ASSUME NEW t \in Task, RestartTask(t)
      PROVE  NothingMissing'
  <2>1. /\ wire' = [wire EXCEPT ![t] = <<>>] /\ sent' = sent
        /\ reading' = [reading EXCEPT ![t] = TRUE]
        /\ phase' = [c \in Client |-> IF at[c] = t THEN "away" ELSE phase[c]]
        /\ at' = [c \in Client |-> IF at[c] = t THEN NoTask ELSE at[c]]
        /\ replay' = [c \in Client |-> IF at[c] = t THEN <<>> ELSE replay[c]]
        /\ queue' = [c \in Client |-> IF at[c] = t THEN <<>> ELSE queue[c]]
        /\ closing' = [c \in Client |-> closing[c] /\ at[c] # t]
        /\ start' = start /\ seen' = seen /\ got' = got /\ expired' = expired
    BY <1>5 DEF RestartTask, redisVars, pageVars, history
  <2>2. SUFFICES ASSUME NEW c \in Client
                 PROVE  NoneMissing(c)'
    BY DEF NothingMissing
  <2>3. NoneMissing(c)
    BY DEF NothingMissing
  <2>4. CASE at[c] = t
    BY <2>1, <2>3, <2>4 DEF NoneMissing, Known, Serving
  <2>5. CASE at[c] # t
    <3>1. /\ phase'[c] = phase[c] /\ at'[c] = at[c] /\ replay'[c] = replay[c]
          /\ queue'[c] = queue[c] /\ closing'[c] = closing[c]
          /\ wire'[at[c]] = wire[at[c]] /\ reading'[at[c]] = reading[at[c]]
      BY <2>1, <2>5 DEF Types
    <3> QED
      BY <2>1, <2>3, <3>1 DEF NoneMissing, Known, Serving
  <2> QED
    BY <2>4, <2>5
<1>6. ASSUME NEW c \in Client, Leave(c)
      PROVE  NothingMissing'
  <2>1. /\ phase' = [phase EXCEPT ![c] = "away"] /\ at' = [at EXCEPT ![c] = NoTask]
        /\ replay' = [replay EXCEPT ![c] = <<>>] /\ queue' = [queue EXCEPT ![c] = <<>>]
        /\ closing' = [closing EXCEPT ![c] = FALSE]
        /\ wire' = wire /\ reading' = reading /\ sent' = sent
        /\ start' = start /\ seen' = seen /\ got' = got /\ expired' = expired
    BY <1>6 DEF Leave, HangUp, redisVars, pageVars, history
  <2>2. ASSUME NEW d \in Client \ {c}
        PROVE  NoneMissing(d)'
    <3>1. /\ phase'[d] = phase[d] /\ at'[d] = at[d] /\ replay'[d] = replay[d]
          /\ queue'[d] = queue[d] /\ closing'[d] = closing[d]
      BY <2>1, <2>2 DEF Types
    <3> QED
      BY <2>1, <3>1 DEF NothingMissing, NoneMissing, Known, Serving
  <2>3. NoneMissing(c)'
    BY <2>1 DEF NothingMissing, NoneMissing, Known, Serving, Types
  <2> QED
    BY <2>2, <2>3 DEF NothingMissing
<1>7. ASSUME NEW c \in Client, NEW t \in Task, Connect(c, t)
      PROVE  NothingMissing'
  <2>1. /\ phase' = [phase EXCEPT ![c] = "joined"] /\ at' = [at EXCEPT ![c] = t]
        /\ replay' = replay /\ queue' = queue /\ closing' = closing
        /\ wire' = wire /\ reading' = reading /\ sent' = sent
        /\ start' = start /\ seen' = seen /\ got' = got /\ expired' = expired
    BY <1>7 DEF Connect, redisVars, pageVars, history
  <2>2. ASSUME NEW d \in Client \ {c}
        PROVE  NoneMissing(d)'
    <3>1. /\ phase'[d] = phase[d] /\ at'[d] = at[d] /\ replay'[d] = replay[d]
          /\ queue'[d] = queue[d] /\ closing'[d] = closing[d]
      BY <2>1, <2>2 DEF Types
    <3> QED
      BY <2>1, <3>1 DEF NothingMissing, NoneMissing, Known, Serving
  <2>3. NoneMissing(c)'
    BY <2>1 DEF NothingMissing, NoneMissing, Known, Serving, Types
  <2> QED
    BY <2>2, <2>3 DEF NothingMissing
<1>8. ASSUME NEW c \in Client, ReadBacklog(c)
      PROVE  NothingMissing'
  BY <1>8, MissingBacklog
<1>9. ASSUME NEW c \in Client, SendReplay(c)
      PROVE  NothingMissing'
  BY <1>9, MissingReplay
<1>10. ASSUME NEW c \in Client, Pump(c)
       PROVE  NothingMissing'
  BY <1>10, MissingPump
<1>11. ASSUME NEW c \in Client, Hello(c)
       PROVE  NothingMissing'
  <2>1. /\ phase' = [phase EXCEPT ![c] = "streaming"] /\ phase[c] = "replaying" /\ at' = at
        /\ replay' = replay /\ queue' = queue /\ closing' = closing
        /\ wire' = wire /\ reading' = reading /\ sent' = sent
        /\ start' = start /\ seen' = seen /\ got' = got /\ expired' = expired
    BY <1>11 DEF Hello, redisVars, pageVars, history, hubVars
  <2>2. \A d \in Client : Serving(d)' => Serving(d)
    BY <2>1 DEF Serving, Types
  <2> QED
    BY <2>1, <2>2, NotTouched DEF NothingMissing
<1>12. ASSUME NEW c \in Client, LoadState(c)
       PROVE  NothingMissing'
  <2>1. /\ phase' = [phase EXCEPT ![c] = "loading"] /\ at' = at
        /\ replay' = replay /\ queue' = queue /\ closing' = closing
        /\ wire' = wire /\ reading' = reading /\ sent' = sent
        /\ start' = start /\ seen' = seen /\ got' = got /\ expired' = expired
    BY <1>12 DEF LoadState, redisVars, history, hubVars
  <2>2. \A d \in Client : Serving(d)' => Serving(d)
    BY <2>1 DEF Serving, Types
  <2> QED
    BY <2>1, <2>2, NotTouched DEF NothingMissing
<1>13. ASSUME NEW c \in Client, LoadSeq(c)
       PROVE  NothingMissing'
  <2>1. /\ phase' = [phase EXCEPT ![c] = "away"] /\ at' = at
        /\ replay' = replay /\ queue' = queue /\ closing' = closing
        /\ wire' = wire /\ reading' = reading /\ sent' = sent
        /\ seen' = [seen EXCEPT ![c] = seq] /\ start' = [start EXCEPT ![c] = seq]
        /\ got' = got /\ expired' = expired
    BY <1>13 DEF LoadSeq, redisVars, hubVars
  <2>2. seq + 1 .. seq = {}
    BY DEF Types
  <2>3. start'[c] + 1 .. seen'[c] = {}
    BY <2>1, <2>2 DEF Types
  <2>4. NoneMissing(c)'
    BY <2>1, <2>3 DEF NoneMissing, Serving, Types
  <2>5. ASSUME NEW d \in Client \ {c}
        PROVE  NoneMissing(d)'
    <3>1. phase'[d] = phase[d] /\ seen'[d] = seen[d] /\ start'[d] = start[d]
      BY <2>1, <2>5 DEF Types
    <3> QED
      BY <2>1, <3>1 DEF NothingMissing, NoneMissing, Known, Serving
  <2> QED
    BY <2>4, <2>5 DEF NothingMissing
<1>14. ASSUME NEW c \in Client, RefetchRead(c) \/ RefetchApply(c)
       PROVE  NothingMissing'
  BY <1>14 DEF RefetchRead, RefetchApply, NothingMissing, NoneMissing, Known, Serving, connVars,
               history, redisVars, hubVars
<1>15. CASE UNCHANGED vars
  BY <1>15 DEF vars, NothingMissing, NoneMissing, Known, Serving, connVars, pageVars,
               history, redisVars, hubVars
<1> QED
  BY <1>1, <1>2, <1>3, <1>4, <1>5, <1>6, <1>7, <1>8, <1>9, <1>10, <1>11, <1>12, <1>13, <1>14,
     <1>15 DEF Next, Publish, Hub, Serve, Browser, LeaveClosed, Drop

-----------------------------------------------------------------------------
(* The theorems. *)

LEMMA IInvAtFirst == ASSUME Init PROVE IInv
<1>1. Types
  BY TypesAtFirst
<1>2. LogIsTail
  BY LogCapacity DEF Init, LogIsTail
<1>3. Attached /\ SubscribedFirst /\ Resumes /\ ExpiredLeftTheLog
  BY DEF Init, Attached, SubscribedFirst, Resumes, ExpiredLeftTheLog, Serving, Connected
<1>4. SubscribedWhileWanted
  BY ChannelParameters DEF Init, SubscribedWhileWanted, Members
<1>5. InOrder
  BY EmptyHasNone DEF Init, InOrder, WireInOrder, QueueInOrder
<1>6. NothingMissing
  BY DEF Init, NothingMissing, NoneMissing, Serving
<1> QED
  BY <1>1, <1>2, <1>3, <1>4, <1>5, <1>6 DEF IInv

LEMMA IInvStep == ASSUME PromptSubscribe, IInv, [Next]_vars PROVE IInv'
<1>1. /\ Types /\ LogIsTail /\ Attached /\ SubscribedWhileWanted /\ SubscribedFirst
      /\ InOrder /\ Resumes /\ ExpiredLeftTheLog
  BY DEF IInv
<1>2. Types' /\ LogIsTail' /\ Attached' /\ SubscribedWhileWanted'
  BY <1>1, TypesStep, LogStep, AttachedStep, SubscribedStep
<1>3. SubscribedFirst' /\ InOrder' /\ Resumes' /\ ExpiredLeftTheLog' /\ NothingMissing'
  BY <1>1, SubscribedFirstStep, InOrderStep, ResumesStep, ExpiredStep, MissingStep
<1> QED
  BY <1>2, <1>3 DEF IInv

LEMMA IInvMeansNoGap == ASSUME IInv PROVE NoGap
<1>1. SUFFICES ASSUME NEW c \in Client
               PROVE  start[c] + 1 .. seen[c] \subseteq
                          got[c] \cup {m \in expired[c] : m + CHANLOG_MAXLEN <= sent}
  BY DEF NoGap
<1>2. \A m \in expired[c] : m + CHANLOG_MAXLEN <= sent
  BY DEF IInv, ExpiredLeftTheLog
<1>3. start[c] + 1 .. seen[c] \subseteq got[c] \cup expired[c]
  BY DEF IInv, NothingMissing, NoneMissing, Known
<1> QED
  BY <1>2, <1>3

\* A hub is subscribed, or has last asked to be, exactly while it has clients
\* (ws.py, join and leave), whichever of the two commands Redis handles late.
THEOREM SubscribedAlways == Spec => []SubscribedWhileWanted
<1> DEFINE Inv == Types /\ Attached /\ SubscribedWhileWanted
<1>1. Init => Inv
  BY IInvAtFirst DEF IInv
<1>2. Inv /\ [Next]_vars => Inv'
  BY TypesStep, AttachedStep, SubscribedStep
<1> QED
  BY <1>1, <1>2, PTL DEF Spec

\* No page ever misses a message below the last one it has seen, but for what
\* had left the log (ws.py, 8-10), when the SUBSCRIBE of join takes effect
\* before the backlog is read (the option the README discusses).
THEOREM NeverAGap == PromptSubscribe => (Spec => []NoGap)
<1> SUFFICES ASSUME PromptSubscribe
             PROVE  Spec => []NoGap
  OBVIOUS
<1>1. Init => IInv
  BY IInvAtFirst
<1>2. IInv /\ [Next]_vars => IInv'
  BY IInvStep
<1>3. IInv => NoGap
  BY IInvMeansNoGap
<1> QED
  BY <1>1, <1>2, <1>3, PTL DEF Spec

=============================================================================

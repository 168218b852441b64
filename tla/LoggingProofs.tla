--------------------------- MODULE LoggingProofs ---------------------------
(***************************************************************************)
(* Theorems about Logging, for any set of posters, length of the queue and *)
(* number of posts.                                                        *)
(*                                                                         *)
(* Fifo ties the console to what log_post took in; it is inductive with    *)
(* the types and what LOGGER may have in its hand (HandInv).  With it each *)
(* step of Logging is a step of LossyLog or none.                          *)
(***************************************************************************)
EXTENDS Logging, SequenceTheorems, TLAPS

\* Without a queue nothing waits; LOGGER prints what it has taken.
HandInv ==
    /\ ~created => queue = <<>> /\ logger # "print"
    /\ logger = "print" => rec # <<>>

IInv == TypeOK /\ HandInv /\ Fifo
-----------------------------------------------------------------------------
(***************************************************************************)
(* Sequences.                                                              *)
(***************************************************************************)

\* Append and concatenation commute.
LEMMA ConcatAppend ==
    ASSUME NEW S, NEW s \in Seq(S), NEW q \in Seq(S), NEW e \in S
    PROVE  s \o Append(q, e) = Append(s \o q, e)
<1> DEFINE left  == s \o Append(q, e)
           right == Append(s \o q, e)
<1>1. /\ left \in Seq(S) /\ right \in Seq(S)
      /\ Len(left) = Len(s) + Len(q) + 1 /\ Len(right) = Len(left)
      /\ \A i \in 1 .. Len(left) : left[i] = right[i]
  OBVIOUS
<1> HIDE DEF left, right
<1>2. left = right
  BY <1>1, SeqEqual
<1> QED BY <1>2 DEF left, right

\* A sequence of one element at the end is an Append.
LEMMA ConcatOne ==
    ASSUME NEW S, NEW s \in Seq(S), NEW e \in S
    PROVE  s \o <<e>> = Append(s, e)
<1> DEFINE left  == s \o <<e>>
           right == Append(s, e)
<1>1. /\ left \in Seq(S) /\ right \in Seq(S)
      /\ Len(left) = Len(s) + 1 /\ Len(right) = Len(left)
      /\ \A i \in 1 .. Len(left) : left[i] = right[i]
  OBVIOUS
<1> HIDE DEF left, right
<1>2. left = right
  BY <1>1, SeqEqual
<1> QED BY <1>2 DEF left, right

\* A sequence is its head before its tail.
LEMMA HeadThenTail ==
    ASSUME NEW S, NEW q \in Seq(S), q # <<>>
    PROVE  <<Head(q)>> \o Tail(q) = q
<1> DEFINE left == <<Head(q)>> \o Tail(q)
<1>1. /\ left \in Seq(S) /\ Len(left) = Len(q)
      /\ \A i \in 1 .. Len(left) : left[i] = q[i]
  OBVIOUS
<1> HIDE DEF left
<1>2. left = q
  BY <1>1, SeqEqual
<1> QED BY <1>2 DEF left
-----------------------------------------------------------------------------
(***************************************************************************)
(* The inductive invariant.                                                *)
(***************************************************************************)

\* At the start nothing has been posted.
LEMMA InitIInv == Init => IInv
<1> SUFFICES ASSUME Init PROVE IInv
  OBVIOUS
<1>1. posts \in [Tasks -> 0 .. MaxPosts]
  BY LoggingAssumption DEF Init
<1>2. TypeOK
  BY <1>1, LoggingAssumption DEF Init, TypeOK
<1>3. Fifo
  <2>1. <<>> \o <<>> = <<>>
    BY ConcatEmptySeq, EmptySeq
  <2> QED BY <2>1 DEF Init, Fifo, InHand
<1> QED BY <1>2, <1>3 DEF Init, IInv, HandInv

\* What LOGGER has in its hand is a sequence of at most one record.
LEMMA HandType == TypeOK => rec \in Seq(Record) /\ InHand \in Seq(Record)
<1> SUFFICES ASSUME TypeOK PROVE rec \in Seq(Record) /\ InHand \in Seq(Record)
  OBVIOUS
<1>1. rec \in Seq(Record)
  <2>1. CASE rec = <<>>
    BY <2>1
  <2>2. ASSUME NEW r \in Record, rec = <<r>> PROVE rec \in Seq(Record)
    BY <2>2
  <2> QED BY <2>1, <2>2 DEF TypeOK
<1> QED BY <1>1 DEF InHand

\* The record of a call of log_post, and the count of posts after it.
LEMMA PostedRecord ==
    ASSUME TypeOK, NEW t \in Tasks, posts[t] < MaxPosts,
           posts' = [posts EXCEPT ![t] = @ + 1]
    PROVE  /\ [task |-> t, n |-> posts[t] + 1] \in Record
           /\ posts' \in [Tasks -> 0 .. MaxPosts]
<1>1. posts \in [Tasks -> 0 .. MaxPosts] /\ posts[t] \in 0 .. MaxPosts
  BY DEF TypeOK
<1>2. posts[t] + 1 \in 1 .. MaxPosts
  BY <1>1, LoggingAssumption
<1> QED BY <1>1, <1>2, LoggingAssumption DEF Record

\* A call of log_post.
LEMMA PostIInv ==
    ASSUME IInv, NEW t \in Tasks, posts[t] < MaxPosts, log_post(t),
           state' \in {"running", "fatal"}, UNCHANGED <<created, logger, rec>>
    PROVE  IInv'
<1> DEFINE r == [task |-> t, n |-> posts[t] + 1]
<1>1. TypeOK /\ HandInv /\ Fifo
  BY DEF IInv
<1>2. /\ \/ ~created /\ console' = Append(console, r) /\ sent' = Append(sent, r)
            /\ UNCHANGED queue
         \/ /\ created /\ Len(queue) < LOG_QUEUE_LENGTH
            /\ queue' = Append(queue, r) /\ sent' = Append(sent, r) /\ UNCHANGED console
         \/ UNCHANGED <<queue, console, sent>>
      /\ posts' = [posts EXCEPT ![t] = @ + 1]
  BY DEF log_post, Enqueue, Room
<1>3. r \in Record /\ posts' \in [Tasks -> 0 .. MaxPosts]
  BY <1>1, <1>2, PostedRecord
<1>4. sent' \in Seq(Record)
  <2>1. sent \in Seq(Record)
    BY <1>1 DEF TypeOK
  <2> HIDE DEF r
  <2>2. Append(sent, r) \in Seq(Record)
    BY <1>3, <2>1
  <2> QED BY <1>2, <2>1, <2>2
<1>5. /\ console \in Seq(Record) /\ queue \in Seq(Record) /\ InHand \in Seq(Record)
      /\ InHand' = InHand
  <2>1. InHand' = InHand
    BY DEF InHand
  <2> QED BY <1>1, <2>1, HandType DEF TypeOK
<1> HIDE DEF r
<1>6. TypeOK'
  <2>1. console' \in Seq(Record) /\ queue' \in Seq(Record) /\ Len(queue') <= LOG_QUEUE_LENGTH
    <3>1. Append(console, r) \in Seq(Record)
      BY <1>3, <1>5
    <3>2. Append(queue, r) \in Seq(Record) /\ Len(Append(queue, r)) = Len(queue) + 1
      BY <1>3, <1>5
    <3>3. Len(queue) \in Nat /\ Len(queue) <= LOG_QUEUE_LENGTH
      BY <1>1, <1>5 DEF TypeOK
    <3>4. CASE UNCHANGED queue
      BY <1>2, <1>5, <3>1, <3>3, <3>4
    <3>5. CASE Len(queue) < LOG_QUEUE_LENGTH /\ queue' = Append(queue, r) /\ UNCHANGED console
      BY <1>5, <3>2, <3>3, <3>5, LoggingAssumption
    <3> QED BY <1>2, <3>4, <3>5
  <2> QED BY <1>1, <1>3, <1>4, <2>1 DEF TypeOK
<1>7. HandInv'
  BY <1>1, <1>2 DEF HandInv
<1>8. Fifo'
  <2>1. CASE /\ ~created /\ console' = Append(console, r) /\ sent' = Append(sent, r)
             /\ UNCHANGED queue
    <3>1. InHand = <<>> /\ queue = <<>>
      BY <1>1, <2>1 DEF HandInv, InHand
    <3>2. console \o <<>> \o <<>> = console /\ console' \o <<>> \o <<>> = console'
      <4>1. console' \in Seq(Record)
        BY <1>3, <1>5, <2>1
      <4> QED BY <1>5, <4>1, ConcatEmptySeq
    <3> QED BY <1>1, <1>5, <2>1, <3>1, <3>2 DEF Fifo
  <2>2. CASE queue' = Append(queue, r) /\ sent' = Append(sent, r) /\ UNCHANGED console
    <3>1. console \o InHand \in Seq(Record)
      BY <1>5, ConcatProperties
    <3>2. (console \o InHand) \o Append(queue, r) = Append((console \o InHand) \o queue, r)
      BY <1>3, <1>5, <3>1, ConcatAppend
    <3> QED BY <1>1, <1>5, <2>2, <3>2 DEF Fifo
  <2>3. CASE UNCHANGED <<queue, console, sent>>
    BY <1>1, <1>5, <2>3 DEF Fifo
  <2> QED BY <1>2, <2>1, <2>2, <2>3
<1> QED BY <1>6, <1>7, <1>8 DEF IInv

\* LOGGER takes the oldest record into its hand.
LEMMA ReceiveIInv == IInv /\ LoggerReceive => IInv'
<1> SUFFICES ASSUME IInv, LoggerReceive PROVE IInv'
  OBVIOUS
<1>1. /\ TypeOK /\ HandInv /\ Fifo
      /\ queue \in Seq(Record) /\ console \in Seq(Record) /\ queue # <<>>
  BY DEF IInv, TypeOK, LoggerReceive
<1>2. /\ rec' = <<Head(queue)>> /\ queue' = Tail(queue) /\ logger' = "print"
      /\ UNCHANGED <<created, console, state, posts, sent>> /\ logger = "receive" /\ created
  BY DEF LoggerReceive
<1>3. Head(queue) \in Record /\ Tail(queue) \in Seq(Record) /\ Len(Tail(queue)) = Len(queue) - 1
  BY <1>1, HeadTailProperties
<1>4. TypeOK'
  <2>1. rec' \in {<<r>> : r \in Record}
    BY <1>2, <1>3
  <2>2. Len(queue') <= LOG_QUEUE_LENGTH
    BY <1>1, <1>2, <1>3, LoggingAssumption DEF TypeOK
  <2> QED BY <1>1, <1>2, <1>3, <2>1, <2>2 DEF TypeOK
<1>5. HandInv'
  BY <1>1, <1>2 DEF HandInv
<1>6. Fifo'
  <2>1. sent = (console \o <<>>) \o queue /\ console \o <<>> = console
    BY <1>1, <1>2, ConcatEmptySeq DEF Fifo, InHand
  <2>2. <<Head(queue)>> \in Seq(Record)
    BY <1>3
  <2>3. (console \o <<Head(queue)>>) \o Tail(queue) = console \o (<<Head(queue)>> \o Tail(queue))
    BY <1>1, <1>3, <2>2, ConcatAssociative
  <2>4. <<Head(queue)>> \o Tail(queue) = queue
    BY <1>1, HeadThenTail
  <2> QED BY <1>2, <2>1, <2>3, <2>4 DEF Fifo, InHand
<1> QED BY <1>4, <1>5, <1>6 DEF IInv

\* LOGGER prints the record in its hand.
LEMMA PrintIInv == IInv /\ LoggerPrint => IInv'
<1> SUFFICES ASSUME IInv, LoggerPrint PROVE IInv'
  OBVIOUS
<1>1. /\ TypeOK /\ HandInv /\ Fifo
      /\ queue \in Seq(Record) /\ console \in Seq(Record) /\ rec \in Seq(Record)
  <2>1. TypeOK /\ HandInv /\ Fifo
    BY DEF IInv
  <2> QED BY <2>1, HandType DEF TypeOK
<1>2. /\ console' = console \o rec /\ logger = "print" /\ logger' = "receive"
      /\ UNCHANGED <<created, queue, rec, state, posts, sent>>
  BY DEF LoggerPrint
<1>3. console' \in Seq(Record)
  BY <1>1, <1>2, ConcatProperties
<1>4. TypeOK'
  BY <1>1, <1>2, <1>3 DEF TypeOK
<1>5. HandInv'
  BY <1>1, <1>2 DEF HandInv
<1>6. Fifo'
  <2>1. console' \o <<>> = console'
    BY <1>3, ConcatEmptySeq
  <2> QED BY <1>1, <1>2, <2>1 DEF Fifo, InHand
<1> QED BY <1>4, <1>5, <1>6 DEF IInv

\* Every step preserves the invariant.
LEMMA NextIInv == IInv /\ [Next]_vars => IInv'
<1> SUFFICES ASSUME IInv, [Next]_vars PROVE IInv'
  OBVIOUS
<1>1. ASSUME NEW t \in Tasks, Post(t) \/ error_fatal(t)
      PROVE  IInv'
  <2>1. /\ posts[t] < MaxPosts /\ log_post(t) /\ state' \in {"running", "fatal"}
        /\ UNCHANGED <<created, logger, rec>>
    BY <1>1 DEF Post, error_fatal
  <2> QED BY <2>1, PostIInv
<1>2. CASE LoggerReceive
  BY <1>2, ReceiveIInv
<1>3. CASE LoggerPrint
  BY <1>3, PrintIInv
<1>4. CASE LoggerStart
  BY <1>4, ZenonT(60) DEF IInv, TypeOK, HandInv, Fifo, InHand, LoggerStart
<1>5. CASE LoggerNoQueue
  BY <1>5 DEF IInv, TypeOK, HandInv, Fifo, InHand, LoggerNoQueue
<1>6. CASE UNCHANGED vars
  <2>1. TypeOK' /\ HandInv'
    BY <1>6 DEF IInv, TypeOK, HandInv, vars
  <2>2. Fifo'
    BY <1>6, ZenonT(60) DEF IInv, Fifo, InHand, vars
  <2> QED BY <2>1, <2>2 DEF IInv
<1> QED BY <1>1, <1>2, <1>3, <1>4, <1>5, <1>6 DEF Next, LoggerStep

\* IInv holds in every reachable state.
LEMMA Inductive == Spec => []IInv
BY InitIInv, NextIInv, PTL DEF Spec
-----------------------------------------------------------------------------
(***************************************************************************)
(* LossyLog.                                                               *)
(***************************************************************************)

\* What is waiting is what was kept and is not shown.
LEMMA KeptLength ==
    ASSUME IInv
    PROVE  /\ Len(sent) = Len(console) + Len(InHand) + Len(queue)
           /\ Len(sent) \in Nat /\ Len(console) \in Nat
           /\ Len(InHand) \in Nat /\ Len(queue) \in Nat
<1>1. /\ console \in Seq(Record) /\ queue \in Seq(Record) /\ InHand \in Seq(Record)
      /\ sent = (console \o InHand) \o queue
  BY HandType DEF IInv, TypeOK, Fifo
<1>2. /\ console \o InHand \in Seq(Record)
      /\ Len(console \o InHand) = Len(console) + Len(InHand)
  BY <1>1, ConcatProperties
<1>3. Len((console \o InHand) \o queue) = Len(console \o InHand) + Len(queue)
  BY <1>1, <1>2, ConcatProperties
<1> QED BY <1>1, <1>2, <1>3, LenProperties

\* The first state of Logging is LossyLog's.
LEMMA LossyInit == Init => L!LInit
BY DEF Init, L!LInit

\* A post is kept, lost or shown at once.
LEMMA LossyPost ==
    ASSUME IInv, NEW t \in Tasks, state = "running", log_post(t),
           state' \in {"running", "fatal"}
    PROVE  L!Keep(t) \/ L!Lose(t) \/ L!KeepAndShow(t)
<1> DEFINE r == [task |-> t, n |-> posts[t] + 1]
<1>1. /\ \/ ~created /\ console' = Append(console, r) /\ sent' = Append(sent, r)
         \/ sent' = Append(sent, r) /\ UNCHANGED console
         \/ created /\ ~Room /\ UNCHANGED <<console, sent>>
      /\ posts' = [posts EXCEPT ![t] = @ + 1]
  BY DEF log_post, Enqueue
<1>2. r = L!NextOf(t)
  BY DEF L!NextOf
<1>3. (state' # "running") \in BOOLEAN
  OBVIOUS
<1> HIDE DEF r
<1>4. CASE ~created /\ console' = Append(console, r) /\ sent' = Append(sent, r)
  <2>1. console \in Seq(Record) /\ InHand = <<>> /\ queue = <<>>
    BY <1>4 DEF IInv, TypeOK, HandInv, InHand
  <2>2. sent = console
    BY <2>1, ConcatEmptySeq DEF IInv, Fifo
  <2> QED BY <1>1, <1>2, <1>3, <1>4, <2>2 DEF L!KeepAndShow
<1>5. CASE sent' = Append(sent, r) /\ UNCHANGED console
  BY <1>1, <1>2, <1>3, <1>5 DEF L!Keep
<1>6. CASE created /\ ~Room /\ UNCHANGED <<console, sent>>
  <2>1. Len(sent) >= Len(console) + LOG_QUEUE_LENGTH
    BY <1>6, KeptLength, LoggingAssumption DEF Room
  <2> QED BY <1>1, <1>3, <1>6, <2>1 DEF L!Lose
<1> QED BY <1>1, <1>4, <1>5, <1>6

\* The record printed is the oldest that was kept and not shown.
LEMMA LossyPrint == IInv /\ LoggerPrint => L!Show
<1> SUFFICES ASSUME IInv, LoggerPrint PROVE L!Show
  OBVIOUS
<1>1. /\ console' = console \o rec /\ logger = "print" /\ InHand = rec
      /\ UNCHANGED <<state, posts, sent>>
  BY DEF LoggerPrint, InHand
<1>2. PICK r \in Record : rec = <<r>>
  BY <1>1 DEF IInv, TypeOK, HandInv
<1>3. console \in Seq(Record) /\ queue \in Seq(Record)
  BY DEF IInv, TypeOK
<1>4. console' = Append(console, r)
  BY <1>1, <1>2, <1>3, ConcatOne
<1>5. Len(console) < Len(sent) /\ sent[Len(console) + 1] = r
  <2>1. Append(console, r) \in Seq(Record) /\ Len(Append(console, r)) = Len(console) + 1
    BY <1>3
  <2>2. Append(console, r)[Len(console) + 1] = r
    BY <1>3
  <2>3. sent = Append(console, r) \o queue
    BY <1>1, <1>4 DEF IInv, Fifo
  <2>4. Len(console) \in Nat /\ Len(queue) \in Nat
    BY <1>3, LenProperties
  <2>5. Len(sent) = Len(console) + 1 + Len(queue)
    BY <1>3, <2>1, <2>3, ConcatProperties
  <2>6. sent[Len(console) + 1] = Append(console, r)[Len(console) + 1]
    BY <1>3, <2>1, <2>3, <2>4, ConcatProperties
  <2> QED BY <2>2, <2>4, <2>5, <2>6
<1> QED BY <1>1, <1>4, <1>5 DEF L!Show

\* Every step is a step of LossyLog, or none.
LEMMA LossyStep == IInv /\ [Next]_vars => [L!LNext]_L!lvars
<1> SUFFICES ASSUME IInv, [Next]_vars PROVE [L!LNext]_L!lvars
  OBVIOUS
<1>1. ASSUME NEW t \in Tasks, Post(t) \/ error_fatal(t)
      PROVE  L!LNext
  <2>1. state = "running" /\ log_post(t) /\ state' \in {"running", "fatal"}
    BY <1>1 DEF Post, error_fatal
  <2>2. L!Keep(t) \/ L!Lose(t) \/ L!KeepAndShow(t)
    BY <2>1, LossyPost
  <2> QED BY <2>1, <2>2 DEF L!LNext
<1>2. CASE LoggerPrint
  <2>1. state = "running"
    BY <1>2 DEF LoggerPrint
  <2> QED BY <1>2, <2>1, LossyPrint DEF L!LNext
<1>3. CASE LoggerNoQueue
  BY <1>3 DEF LoggerNoQueue, L!LNext, L!Stop
<1>4. CASE LoggerStart \/ LoggerReceive \/ UNCHANGED vars
  BY <1>4 DEF LoggerStart, LoggerReceive, vars, L!lvars
<1> QED BY <1>1, <1>2, <1>3, <1>4 DEF Next, LoggerStep
-----------------------------------------------------------------------------
(***************************************************************************)
(* The theorems.                                                           *)
(***************************************************************************)

\* Every variable keeps its type, and the queue its length.
THEOREM TypeCorrect == Spec => []TypeOK
<1>1. IInv => TypeOK
  BY DEF IInv
<1> QED BY <1>1, Inductive, PTL

\* The console and what waits behind it are what log_post took in, in its
\* order (logging.c:56, task_logger.c:18-23).
THEOREM FirstInFirstOut == Spec => []Fifo
<1>1. IInv => Fifo
  BY DEF IInv
<1> QED BY <1>1, Inductive, PTL

\* The log is a lossy log: what it loses, keeps and shows, and in which order.
THEOREM Lossy == Spec => KeepsLossyLog
<1>1. Spec => L!LInit /\ [][L!LNext]_L!lvars
  BY LossyInit, LossyStep, Inductive, PTL DEF Spec
<1> QED BY <1>1 DEF KeepsLossyLog, L!LSpec
=============================================================================

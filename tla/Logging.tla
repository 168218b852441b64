------------------------------ MODULE Logging ------------------------------
(***************************************************************************)
(* The log: any task posts records without waiting (logging.c), the LOGGER *)
(* task prints them (task_logger.c), and error.c posts on behalf of a task *)
(* that meets an error, an abort following when the error is fatal.        *)
(*                                                                         *)
(* A record is named by its poster and its number.  The three prints of    *)
(* the fallback of log_post are one step: layout is left out.  External: a *)
(* queue receive without a queue fails an assertion of the kernel, which   *)
(* aborts (CONFIG_FREERTOS_ASSERT_FAIL_ABORT, sdkconfig).                  *)
(***************************************************************************)
EXTENDS Integers, Sequences

CONSTANTS Tasks, LOG_QUEUE_LENGTH, MaxPosts     \* MaxPosts bounds the posts of a task

ASSUME LoggingAssumption == LOG_QUEUE_LENGTH \in Nat \ {0} /\ MaxPosts \in Nat

VARIABLES
    created,        \* g_log_queue # NULL
    queue,          \* the records in g_log_queue
    logger,         \* the LOGGER task: not started, at its receive, at its printf
    rec,            \* the record LOGGER took last
    console,        \* the records printed
    state,          \* "running", or what stopped the program
    \* Not in the code:
    posts,          \* the calls of log_post each task has made
    sent            \* the records log_post took in, in order

vars == <<created, queue, logger, rec, console, state, posts, sent>>

Record == [task : Tasks, n : 1 .. MaxPosts]

\* logging_init has run: the first call of app_main.  Nobody looks whether
\* there was memory for the queue.
Init ==
    /\ created \in BOOLEAN
    /\ queue = <<>>
    /\ logger = "off"
    /\ rec = <<>>
    /\ console = <<>>
    /\ state = "running"
    /\ posts = [t \in Tasks |-> 0]
    /\ sent = <<>>

Room_OneMore == Len(queue) <= LOG_QUEUE_LENGTH      \* mutant

Room_OneLess == Len(queue) + 1 < LOG_QUEUE_LENGTH   \* mutant

Room == Len(queue) < LOG_QUEUE_LENGTH

Enqueue(r) == queue' = Append(queue, r) /\ UNCHANGED console

log_post_Waits(t) ==    \* mutant: portMAX_DELAY
    LET r == [task |-> t, n |-> posts[t] + 1]
    IN  /\ created => Room
        /\ IF created THEN Enqueue(r) ELSE console' = Append(console, r) /\ UNCHANGED queue
        /\ sent' = Append(sent, r)
        /\ posts' = [posts EXCEPT ![t] = @ + 1]

\* log_post: never waits.
log_post(t) ==
    LET r == [task |-> t, n |-> posts[t] + 1]
    IN  /\ \/ /\ ~created
              /\ console' = Append(console, r)
              /\ sent' = Append(sent, r)
              /\ UNCHANGED queue
           \/ /\ created /\ Room
              /\ Enqueue(r)
              /\ sent' = Append(sent, r)
           \/ /\ created /\ ~Room
              /\ UNCHANGED <<queue, console, sent>>
        /\ posts' = [posts EXCEPT ![t] = @ + 1]

\* A task's call of log_post, its own or that of error_report.
Post(t) ==
    /\ state = "running"
    /\ posts[t] < MaxPosts
    /\ log_post(t)
    /\ UNCHANGED <<created, logger, rec, state>>

\* error_fatal: post, then abort.
error_fatal(t) ==
    /\ state = "running"
    /\ posts[t] < MaxPosts
    /\ log_post(t)
    /\ state' = "fatal"
    /\ UNCHANGED <<created, logger, rec>>

\* task_logger_start: app_main and NET have posted before.
LoggerStart ==
    /\ state = "running"
    /\ logger = "off"
    /\ logger' = "receive"
    /\ UNCHANGED <<created, queue, rec, console, state, posts, sent>>

LoggerReceive_NoPrint ==    \* mutant: back to the receive
    /\ state = "running"
    /\ logger = "receive"
    /\ created /\ queue # <<>>
    /\ rec' = <<Head(queue)>>
    /\ queue' = Tail(queue)
    /\ UNCHANGED <<created, logger, console, state, posts, sent>>

\* xQueueReceive; a receive that times out changes nothing.
LoggerReceive ==
    /\ state = "running"
    /\ logger = "receive"
    /\ created /\ queue # <<>>
    /\ rec' = <<Head(queue)>>
    /\ queue' = Tail(queue)
    /\ logger' = "print"
    /\ UNCHANGED <<created, console, state, posts, sent>>

LoggerNoQueue ==
    /\ state = "running"
    /\ logger = "receive"
    /\ ~created
    /\ state' = "assertion"
    /\ UNCHANGED <<created, queue, logger, rec, console, posts, sent>>

LoggerPrint_Again ==    \* mutant: stays at the printf
    /\ state = "running"
    /\ logger = "print"
    /\ console' = console \o rec
    /\ logger' \in {"receive", "print"}
    /\ UNCHANGED <<created, queue, rec, state, posts, sent>>

LoggerPrint ==
    /\ state = "running"
    /\ logger = "print"
    /\ console' = console \o rec
    /\ logger' = "receive"
    /\ UNCHANGED <<created, queue, rec, state, posts, sent>>

LoggerStep == LoggerReceive \/ LoggerNoQueue \/ LoggerPrint

Next ==
    \/ \E t \in Tasks : Post(t) \/ error_fatal(t)
    \/ LoggerStart \/ LoggerStep

Spec == Init /\ [][Next]_vars

\* The posters go on, and so does LOGGER, of the highest priority the program
\* uses (config.h:13), once it exists.  Nothing says that it ever does: the
\* result of its xTaskCreate is ignored, and app_main may abort before.
FairSpec == Spec /\ (\A t \in Tasks : WF_vars(Post(t))) /\ WF_vars(LoggerStep)
-----------------------------------------------------------------------------
InHand == IF logger = "print" THEN rec ELSE <<>>

TypeOK ==
    /\ created \in BOOLEAN
    /\ queue \in Seq(Record) /\ Len(queue) <= LOG_QUEUE_LENGTH
    /\ logger \in {"off", "receive", "print"}
    /\ rec \in {<<>>} \cup {<<r>> : r \in Record}
    /\ console \in Seq(Record)
    /\ state \in {"running", "fatal", "assertion"}
    /\ posts \in [Tasks -> 0 .. MaxPosts]
    /\ sent \in Seq(Record)

\* The console and what waits behind it are what log_post took in, in the
\* order it was taken in: no record is printed twice, lost on the way or
\* overtaken (logging.c:56, task_logger.c:18-23).
Fifo == sent = console \o InHand \o queue

\* What the log is to posters and reader: module LossyLog, with the calls of
\* log_post, the records it took in and those printed.
L == INSTANCE LossyLog WITH
        Posters  <- Tasks,
        Capacity <- LOG_QUEUE_LENGTH,
        posted   <- posts,
        kept     <- sent,
        shown    <- console,
        stopped  <- state # "running"

\* A record is lost only when LOG_QUEUE_LENGTH others wait to be printed, LOGGER
\* running or not; what app_main and NET post before they start it is kept; the
\* console shows what was taken in, in its order, and nothing after an abort
\* (app_main.c:59-73, logging.c:52-56, task_logger.c:18-23).
KeepsLossyLog == L!LSpec

\* log_post never waits: the posters get through all their posts though
\* LOGGER may never run (logging.c:52-56), unless the program is aborted.
PostersFinish == <>(state # "running" \/ \A t \in Tasks : posts[t] = MaxPosts)

\* What log_post took in is printed, before LOGGER started or after, unless the
\* program is aborted (task_logger.c:18-23).
Printed ==
    \A t \in Tasks : \A k \in 1 .. MaxPosts :
        LET r == [task |-> t, n |-> k]
        IN  logger # "off" /\ (\E i \in DOMAIN sent : sent[i] = r)
                ~> state # "running" \/ (\E i \in DOMAIN console : console[i] = r)
=============================================================================

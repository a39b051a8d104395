-------------------------------- MODULE Itti ---------------------------------
(***************************************************************************)
(* The inter-task interface, common/utils/itti/intertask_interface.c: the  *)
(* start of the tasks (targets/COMMON/create_tasks.c), the queues and the  *)
(* event descriptors their messages go through, and the end of the process *)
(* (itti_wait_tasks_end, signals.c).                                       *)
(*                                                                         *)
(* A task with a thread of its own is named by that thread; the sub-tasks  *)
(* all belong to TASK_L2L1 (tasks_def.h) and have a queue but no event     *)
(* descriptor.  Every thread runs the loop of a task: receive a message,   *)
(* handle it (which may send messages, or end the program), receive again. *)
(* The lock-free queue is a library: its enqueue and dequeue are atomic    *)
(* here.  The build without RTAI is modelled.                              *)
(***************************************************************************)
EXTENDS Naturals, Sequences, FiniteSets

CONSTANTS
    Threads,      \* the tasks that have a thread
    L2L1,         \* the one that has sub-tasks
    SubTasks,
    Terminators,  \* bound: the tasks that may call exit_fun
    QUEUE_SIZE,   \* tasks_info[].queue_size
    MaxMessages   \* bound: messages every process sends, TERMINATE_MESSAGE aside

ASSUME IttiAssumption ==
    /\ L2L1 \in Threads /\ IsFiniteSet(Threads)
    /\ Terminators \subseteq Threads /\ SubTasks \cap Threads = {} /\ "main" \notin Threads
    /\ QUEUE_SIZE \in Nat \ {0} /\ MaxMessages \in Nat

Tasks == Threads \cup SubTasks
Processes == Threads \cup {"main"}
TASK_GET_THREAD_ID(task) == IF task \in SubTasks THEN L2L1 ELSE task

VARIABLES
    task_state,     \* threads[].task_state, read and written by everybody without a lock
    created_tasks, ready_tasks, wait_tasks,
    message_queue,  \* tasks[].message_queue
    event_fd,       \* threads[].task_event_fd: a counter (EFD_SEMAPHORE)
    thread_handling_signals,
    signals,        \* signals pending for the process, blocked until main waits for them
    pc,             \* where every process is
    loaded,         \* the value of ready_tasks a thread has read and is about to increment
    sending,        \* the call of itti_send_msg_to_task a process is in
    visiting,       \* the threads main or a broadcast has still to look at
    sent,           \* messages sent, for the bound
    fatal           \* the AssertFatal that ended the process, or "none"

startVars == <<created_tasks, ready_tasks, wait_tasks, loaded>>
queueVars == <<message_queue, event_fd>>
signalVars == <<thread_handling_signals, signals>>
ittiVars == <<task_state, startVars, queueVars, signalVars, pc, sending, visiting, sent, fatal>>

NotSending == [at |-> "none"]
Call(task, message) == [at |-> "check", to |-> task, message |-> message]

\* As itti_init and the itti_wait_ready(1) of create_tasks leave it.
IttiInit ==
    /\ task_state = [t \in Threads |-> "NOT_CONFIGURED"]
    /\ created_tasks = 0 /\ ready_tasks = 0 /\ wait_tasks = TRUE
    /\ message_queue = [t \in Tasks |-> <<>>]
    /\ event_fd = [t \in Threads |-> 0]
    /\ thread_handling_signals = FALSE /\ signals = {}
    /\ pc = [p \in Processes |-> IF p = "main" THEN "create" ELSE "none"]
    /\ loaded = [t \in Threads |-> 0]
    /\ sending = [p \in Processes |-> NotSending]
    /\ visiting = [p \in Processes |-> {}]
    /\ sent = [p \in Processes |-> 0]
    /\ fatal = "none"

\* The process runs: no assertion ended it, and main has not left itti_wait_tasks_end.
Running == fatal = "none" /\ pc["main"] \notin {"ended", "forced exit"}

At(p, place) == Running /\ pc[p] = place /\ sending[p] = NotSending
Go(p, place) == pc' = [pc EXCEPT ![p] = place]

-----------------------------------------------------------------------------
(* The start: main in create_tasks, every new thread in itti_mark_task_ready. *)

\* itti_create_task: pthread_create starts the thread ...
CreateTask(t) ==
    /\ At("main", "create")
    /\ task_state[t] = "NOT_CONFIGURED"
    /\ task_state' = [task_state EXCEPT ![t] = "STARTING"]
    /\ pc' = [pc EXCEPT !["main"] = "thread created", ![t] = "starting"]
    /\ UNCHANGED <<startVars, queueVars, signalVars, sending, visiting, sent, fatal>>

\* ... which may have counted itself before main does.  Only main writes created_tasks.
CountCreatedTask ==
    /\ At("main", "thread created")
    /\ created_tasks' = created_tasks + 1
    /\ Go("main", "created")
    /\ UNCHANGED <<task_state, ready_tasks, wait_tasks, loaded, queueVars, signalVars, sending,
                   visiting, sent, fatal>>

\* ... and the wait, until the thread it created is ready.
TaskIsReady ==
    /\ At("main", "created")
    /\ \A t \in Threads : task_state[t] # "STARTING"
    /\ Go("main", IF \E t \in Threads : task_state[t] = "NOT_CONFIGURED" THEN "create"
                  ELSE "wait ready")
    /\ UNCHANGED <<task_state, startVars, queueVars, signalVars, sending, visiting, sent, fatal>>

\* Mutant of MarkTaskReady: the thread waits for main before it says it is ready.
MarkTaskReadyLast(t) ==
    /\ At(t, "starting")
    /\ ~wait_tasks
    /\ task_state' = [task_state EXCEPT ![t] = "READY"]
    /\ Go(t, "ready")
    /\ UNCHANGED <<startVars, queueVars, signalVars, sending, visiting, sent, fatal>>

\* itti_mark_task_ready: the state, then the unprotected ready_tasks++, then the wait.
MarkTaskReady(t) ==
    /\ At(t, "starting")
    /\ task_state' = [task_state EXCEPT ![t] = "READY"]
    /\ Go(t, "ready")
    /\ UNCHANGED <<startVars, queueVars, signalVars, sending, visiting, sent, fatal>>

LoadReadyTasks(t) ==
    /\ At(t, "ready")
    /\ loaded' = [loaded EXCEPT ![t] = ready_tasks]
    /\ Go(t, "counting")
    /\ UNCHANGED <<task_state, created_tasks, ready_tasks, wait_tasks, queueVars, signalVars,
                   sending, visiting, sent, fatal>>

StoreReadyTasks(t) ==
    /\ At(t, "counting")
    /\ ready_tasks' = loaded[t] + 1
    /\ loaded' = [loaded EXCEPT ![t] = 0]
    /\ Go(t, "holding")
    /\ UNCHANGED <<task_state, created_tasks, wait_tasks, queueVars, signalVars,
                   sending, visiting, sent, fatal>>

\* Mutant of Released: the task does not wait for the other tasks.
ReleasedAtOnce(t) ==
    /\ At(t, "holding")
    /\ Go(t, "handling")
    /\ UNCHANGED <<task_state, startVars, queueVars, signalVars, sending, visiting, sent, fatal>>

\* The task starts; what it does before its first itti_receive_msg is like handling a message.
Released(t) ==
    /\ At(t, "holding")
    /\ ~wait_tasks
    /\ Go(t, "handling")
    /\ UNCHANGED <<task_state, startVars, queueVars, signalVars, sending, visiting, sent, fatal>>

\* itti_wait_ready(0) at the end of create_tasks: it releases the tasks, then compares.
ReleaseTasks ==
    /\ At("main", "wait ready")
    /\ wait_tasks' = FALSE
    /\ Go("main", "compare")
    /\ UNCHANGED <<task_state, created_tasks, ready_tasks, loaded, queueVars, signalVars,
                   sending, visiting, sent, fatal>>

CompareReadyTasks ==
    /\ At("main", "compare")
    /\ \/ created_tasks = ready_tasks /\ Go("main", "started") /\ UNCHANGED fatal
       \/ created_tasks # ready_tasks /\ fatal' = "wait_ready" /\ UNCHANGED pc
    /\ UNCHANGED <<task_state, startVars, queueVars, signalVars, sending, visiting, sent>>

-----------------------------------------------------------------------------
(* itti_send_msg_to_task, by any process. *)

\* The state of the destination is read before the message is queued.
CheckDestination(p) ==
    LET state == task_state[TASK_GET_THREAD_ID(sending[p].to)]
    IN  /\ Running /\ sending[p].at = "check"
        /\ \/ /\ state = "ENDED"                      \* the message is dropped (and not freed)
              /\ sending' = [sending EXCEPT ![p] = NotSending]
              /\ UNCHANGED fatal
           \/ /\ state = "READY"
              /\ sending' = [sending EXCEPT ![p].at = "enqueue"]
              /\ UNCHANGED fatal
           \/ /\ state \in {"NOT_CONFIGURED", "STARTING"}
              /\ fatal' = "not_ready"
              /\ UNCHANGED sending
        /\ UNCHANGED <<task_state, startVars, queueVars, signalVars, pc, visiting, sent>>

\* Mutant of Enqueue: a full queue is not noticed.
EnqueueUnbounded(p) ==
    LET task == sending[p].to
    IN  /\ Running /\ sending[p].at = "enqueue"
        /\ message_queue' = [message_queue EXCEPT ![task] = Append(@, sending[p].message)]
        /\ sending' = [sending EXCEPT ![p] = IF task \in SubTasks THEN NotSending
                                             ELSE [@ EXCEPT !.at = "write"]]
        /\ UNCHANGED <<task_state, startVars, event_fd, signalVars, pc, visiting, sent, fatal>>

\* Sub-tasks poll their queue: no event is written for them.
Enqueue(p) ==
    LET task == sending[p].to
    IN  /\ Running /\ sending[p].at = "enqueue"
        /\ IF Len(message_queue[task]) = QUEUE_SIZE
           THEN fatal' = "queue_full" /\ UNCHANGED <<message_queue, sending>>
           ELSE /\ message_queue' = [message_queue EXCEPT ![task] = Append(@, sending[p].message)]
                /\ sending' = [sending EXCEPT ![p] = IF task \in SubTasks THEN NotSending
                                                     ELSE [@ EXCEPT !.at = "write"]]
                /\ UNCHANGED fatal
        /\ UNCHANGED <<task_state, startVars, event_fd, signalVars, pc, visiting, sent>>

WriteEvent(p) ==
    /\ Running /\ sending[p].at = "write"
    /\ event_fd' = [event_fd EXCEPT ![sending[p].to] = @ + 1]
    /\ sending' = [sending EXCEPT ![p] = NotSending]
    /\ UNCHANGED <<task_state, startVars, message_queue, signalVars, pc, visiting, sent, fatal>>

-----------------------------------------------------------------------------
(* The loop of a task. *)

\* Mutant of ReadEvent: the descriptor is no semaphore, and a read takes the whole counter.
ReadEventAll(t) ==
    /\ At(t, "receiving")
    /\ event_fd[t] > 0
    /\ event_fd' = [event_fd EXCEPT ![t] = 0]
    /\ Go(t, "dequeue")
    /\ UNCHANGED <<task_state, startVars, message_queue, signalVars, sending, visiting, sent, fatal>>

\* itti_receive_msg: epoll_wait returns when the counter is not 0, read takes 1 from it ...
ReadEvent(t) ==
    /\ At(t, "receiving")
    /\ event_fd[t] > 0
    /\ event_fd' = [event_fd EXCEPT ![t] = @ - 1]
    /\ Go(t, "dequeue")
    /\ UNCHANGED <<task_state, startVars, message_queue, signalVars, sending, visiting, sent, fatal>>

\* ... and there must be a message then.  Every task leaves on a TERMINATE_MESSAGE.
Dequeue(t) ==
    /\ At(t, "dequeue")
    /\ \/ /\ message_queue[t] = <<>>
          /\ fatal' = "no_message"
          /\ UNCHANGED <<message_queue, pc>>
       \/ /\ message_queue[t] # <<>>
          /\ message_queue' = [message_queue EXCEPT ![t] = Tail(@)]
          /\ Go(t, IF Head(message_queue[t]) = "TERMINATE" THEN "exited" ELSE "handling")
          /\ UNCHANGED fatal
    /\ UNCHANGED <<task_state, startVars, event_fd, signalVars, sending, visiting, sent>>

\* itti_poll_msg for a sub-task, in a thread of the MAC or the physical layer.
PollMsg(s) ==
    /\ Running
    /\ message_queue[s] # <<>>
    /\ message_queue' = [message_queue EXCEPT ![s] = Tail(@)]
    /\ UNCHANGED <<task_state, startVars, event_fd, signalVars, pc, sending, visiting, sent, fatal>>

SendMessage(p, place, task) ==
    /\ At(p, place)
    /\ sent[p] < MaxMessages
    /\ sent' = [sent EXCEPT ![p] = @ + 1]
    /\ sending' = [sending EXCEPT ![p] = Call(task, "DATA")]
    /\ UNCHANGED <<task_state, startVars, queueVars, signalVars, pc, visiting, fatal>>

ReceiveAgain(t) ==
    /\ At(t, "handling")
    /\ Go(t, "receiving")
    /\ UNCHANGED <<task_state, startVars, queueVars, signalVars, sending, visiting, sent, fatal>>

-----------------------------------------------------------------------------
(* The end. *)

\* exit_fun calls itti_terminate_tasks(TASK_UNKNOWN), which itti_alloc_new_message_sized
\* resolves to the task that calls: its own thread is left out of the broadcast.
TerminateTasks(t) ==
    /\ At(t, "handling")
    /\ visiting' = [visiting EXCEPT ![t] = Threads \ {t}]
    /\ Go(t, "terminating")
    /\ UNCHANGED <<task_state, startVars, queueVars, signalVars, sending, sent, fatal>>

\* Mutant of BroadcastNext: nothing is sent to a task that has messages to handle.
BroadcastToIdle(p) ==
    /\ pc[p] \in {"terminating", "broadcasting"} /\ At(p, pc[p])
    /\ \E t \in visiting[p] :
          /\ visiting' = [visiting EXCEPT ![p] = @ \ {t}]
          /\ sending' = IF task_state[t] = "READY" /\ message_queue[t] = <<>>
                        THEN [sending EXCEPT ![p] = Call(t, "TERMINATE")] ELSE sending
    /\ UNCHANGED <<task_state, startVars, queueVars, signalVars, pc, sent, fatal>>

\* itti_send_broadcast_message sends a copy to every thread that is ready.  The code goes
\* through them in the order of their identifiers; any order is allowed here.
BroadcastNext(p) ==
    /\ pc[p] \in {"terminating", "broadcasting"} /\ At(p, pc[p])
    /\ \E t \in visiting[p] :
          /\ visiting' = [visiting EXCEPT ![p] = @ \ {t}]
          /\ sending' = IF task_state[t] = "READY"
                        THEN [sending EXCEPT ![p] = Call(t, "TERMINATE")] ELSE sending
    /\ UNCHANGED <<task_state, startVars, queueVars, signalVars, pc, sent, fatal>>

\* The last lines of itti_terminate_tasks: nobody is told if main is not listening yet ...
TellMain(t) ==
    /\ At(t, "terminating")
    /\ visiting[t] = {}
    /\ signals' = IF thread_handling_signals THEN signals \cup {"SIGUSR1"} ELSE signals
    /\ Go(t, "leaving")
    /\ UNCHANGED <<task_state, startVars, queueVars, thread_handling_signals, sending, visiting,
                   sent, fatal>>

\* ... and main may be joining the threads before this one has come to its pthread_exit.
ExitThread(t) ==
    /\ At(t, "leaving")
    /\ Go(t, "exited")
    /\ UNCHANGED <<task_state, startVars, queueVars, signalVars, sending, visiting, sent, fatal>>

\* main has set up the rest of the program and enters itti_wait_tasks_end.
WaitTasksEnd ==
    /\ At("main", "started")
    /\ thread_handling_signals' = TRUE
    /\ Go("main", "waiting")
    /\ UNCHANGED <<task_state, startVars, queueVars, signals, sending, visiting, sent, fatal>>

\* The user types Ctrl-C.  Every thread blocks the signal, so it stays pending for main
\* (for ever, if main no longer waits for signals: left out).
Interrupt ==
    /\ Running
    /\ pc["main"] \notin {"broadcasting", "joining", "joining, some run"}
    /\ signals' = signals \cup {"SIGINT"}
    /\ UNCHANGED <<task_state, startVars, queueVars, thread_handling_signals, pc, sending,
                   visiting, sent, fatal>>

\* signal_handle: SIGINT broadcasts the end (main is no task, so no thread is left out),
\* SIGUSR1 says that a task has done so.  (For SIGTIMER main sends TIMER_HAS_EXPIRED to a
\* task: SendMessage below.)
HandleSigint ==
    /\ At("main", "waiting")
    /\ "SIGINT" \in signals
    /\ signals' = signals \ {"SIGINT"}
    /\ visiting' = [visiting EXCEPT !["main"] = Threads]
    /\ Go("main", "broadcasting")
    /\ UNCHANGED <<task_state, startVars, queueVars, thread_handling_signals, sending, sent, fatal>>

\* Mutant of BroadcastDone: end is not set, and main goes on to wait for signals.
BroadcastDoneNoEnd ==
    /\ At("main", "broadcasting")
    /\ visiting["main"] = {}
    /\ Go("main", "waiting")
    /\ UNCHANGED <<task_state, startVars, queueVars, signalVars, sending, visiting, sent, fatal>>

BroadcastDone ==
    /\ At("main", "broadcasting")
    /\ visiting["main"] = {}
    /\ visiting' = [visiting EXCEPT !["main"] = Threads]
    /\ Go("main", "joining")
    /\ UNCHANGED <<task_state, startVars, queueVars, signalVars, sending, sent, fatal>>

HandleSigusr1 ==
    /\ At("main", "waiting")
    /\ "SIGUSR1" \in signals
    /\ signals' = signals \ {"SIGUSR1"}
    /\ visiting' = [visiting EXCEPT !["main"] = Threads]
    /\ Go("main", "joining")
    /\ UNCHANGED <<task_state, startVars, queueVars, thread_handling_signals, sending, sent, fatal>>

\* One pass of pthread_tryjoin_np over the threads.  The loop around it never comes to a
\* second pass, because `end` is set.
TryJoin ==
    /\ pc["main"] \in {"joining", "joining, some run"} /\ At("main", pc["main"])
    /\ \E t \in visiting["main"] :
          /\ visiting' = [visiting EXCEPT !["main"] = @ \ {t}]
          /\ IF pc[t] = "exited"
             THEN task_state' = [task_state EXCEPT ![t] = "ENDED"] /\ UNCHANGED pc
             ELSE Go("main", "joining, some run") /\ UNCHANGED task_state
    /\ UNCHANGED <<startVars, queueVars, signalVars, sending, sent, fatal>>

JoinDone ==
    /\ pc["main"] \in {"joining", "joining, some run"} /\ At("main", pc["main"])
    /\ visiting["main"] = {}
    /\ Go("main", IF pc["main"] = "joining" THEN "ended" ELSE "forced exit")
    /\ UNCHANGED <<task_state, startVars, queueVars, signalVars, sending, visiting, sent, fatal>>

-----------------------------------------------------------------------------
Send(p) == CheckDestination(p) \/ Enqueue(p) \/ WriteEvent(p)

MainStep ==
    \/ (\E t \in Threads : CreateTask(t)) \/ CountCreatedTask \/ TaskIsReady \/ ReleaseTasks
    \/ CompareReadyTasks
    \/ WaitTasksEnd \/ HandleSigint \/ BroadcastNext("main") \/ BroadcastDone
    \/ HandleSigusr1 \/ TryJoin \/ JoinDone \/ Send("main")

ThreadStep(t) ==
    \/ MarkTaskReady(t) \/ LoadReadyTasks(t) \/ StoreReadyTasks(t) \/ Released(t)
    \/ ReadEvent(t) \/ Dequeue(t) \/ ReceiveAgain(t)
    \/ BroadcastNext(t) \/ TellMain(t) \/ ExitThread(t) \/ Send(t)

IttiNext ==
    \/ MainStep
    \/ \E t \in Threads : ThreadStep(t)
    \/ \E t \in Terminators : TerminateTasks(t)
    \/ \E t \in Threads, task \in Tasks : SendMessage(t, "handling", task)
    \/ \E t \in Threads : SendMessage("main", "waiting", t)
    \/ \E s \in SubTasks : PollMsg(s)
    \/ Interrupt

(***************************************************************************)
(* Fairness: the operating system runs every thread.  No task is obliged   *)
(* to send anything or to end the program, no timer to expire, no user to  *)
(* interrupt it.                                                           *)
(***************************************************************************)
IttiFairness == WF_ittiVars(MainStep) /\ \A t \in Threads : WF_ittiVars(ThreadStep(t))

IttiSpec == IttiInit /\ [][IttiNext]_ittiVars /\ IttiFairness

-----------------------------------------------------------------------------
\* The state variables keep their types; no queue, and so no event counter, goes past
\* tasks_info[].queue_size, and ready_tasks never counts a thread that pthread_create has not
\* started (it may be ahead of created_tasks until main has counted that thread).
IttiTypeOK ==
    /\ task_state \in [Threads -> {"NOT_CONFIGURED", "STARTING", "READY", "ENDED"}]
    /\ created_tasks \in 0 .. Cardinality(Threads)
    /\ ready_tasks \in 0 .. Cardinality({t \in Threads : task_state[t] # "NOT_CONFIGURED"})
    /\ wait_tasks \in BOOLEAN /\ thread_handling_signals \in BOOLEAN
    /\ \A t \in Tasks : message_queue[t] \in Seq({"DATA", "TERMINATE"})
                        /\ Len(message_queue[t]) <= QUEUE_SIZE
    /\ event_fd \in [Threads -> 0 .. QUEUE_SIZE]
    /\ signals \subseteq {"SIGINT", "SIGUSR1"}
    /\ \A p \in Processes : sending[p] = NotSending \/ sending[p].to \in Tasks
    /\ visiting \in [Processes -> SUBSET Threads]

WritersTo(t) == {p \in Processes : sending[p].at = "write" /\ sending[p].to = t}

(***************************************************************************)
(* The event counter of a task is its queue, message for message, up to    *)
(* the senders that are between the two and a receiver that has taken its  *)
(* event already.  So a dequeue always finds a message                     *)
(* (itti_receive_msg_internal_event_fd: "No element in list -> this should *)
(* not happen") and no message is left without an event.                   *)
(***************************************************************************)
EventsMatchMessages ==
    \A t \in Threads :
        Len(message_queue[t]) = event_fd[t] + Cardinality(WritersTo(t))
                                + IF pc[t] = "dequeue" THEN 1 ELSE 0

(***************************************************************************)
(* "We cannot send a message if the task is not running": the wait in      *)
(* itti_mark_task_ready keeps every task from sending until all are ready, *)
(* so no sender dies on a task that is still to start, and none finds a    *)
(* queue without the message its event announced.                          *)
(***************************************************************************)
SendersFindTheirTask ==
    /\ fatal \notin {"not_ready", "no_message"}
    /\ \A p \in Processes :
          sending[p] # NotSending =>
              task_state[TASK_GET_THREAD_ID(sending[p].to)] \in {"READY", "ENDED"}

(***************************************************************************)
(* When main starts to join the threads, each of them has been told: it    *)
(* has left or is at its pthread_exit, or a TERMINATE_MESSAGE is in its    *)
(* queue.  The task that broadcasts sends itself none                      *)
(* (itti_send_broadcast_message), so this needs itti_terminate_tasks to    *)
(* signal main last, and two tasks that end the program at once to tell    *)
(* each other.                                                             *)
(***************************************************************************)
EverybodyIsTold ==
    pc["main"] \in {"joining", "joining, some run"} =>
        \A t \in Threads :
            \/ pc[t] \in {"leaving", "exited"}
            \/ \E k \in DOMAIN message_queue[t] : message_queue[t][k] = "TERMINATE"

\* The start does not block: main waits for the tasks and the tasks for main, but never both
\* for ever (itti_create_task, itti_mark_task_ready).
StartCompletes == <>(thread_handling_signals \/ ~Running)

\* A message in the queue of a task is received, or the task leaves without it
\* (itti_send_msg_to_task, itti_receive_msg).
MessagesAreReceived ==
    \A t \in Threads : message_queue[t] # <<>>
                          ~> message_queue[t] = <<>> \/ pc[t] = "exited" \/ ~Running

\* Ctrl-C ends the program whatever the tasks are doing (signal_handle, itti_wait_tasks_end).
InterruptEndsProgram == "SIGINT" \in signals ~> ~Running
=============================================================================

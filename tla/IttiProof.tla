----------------------------- MODULE IttiProof ------------------------------
(***************************************************************************)
(* Proofs about the inter-task interface, for any number of threads and    *)
(* sub-tasks, any queue size and any number of messages: the types, the    *)
(* counters of the start, the agreement of event descriptors and queues,   *)
(* that no sender meets a task that has not started, and that everybody is *)
(* told of the end before main joins the threads.                          *)
(***************************************************************************)
EXTENDS Itti, FiniteSetTheorems, TLAPS

ThreadPlaces == {"none", "starting", "ready", "counting", "holding", "handling", "receiving",
                 "dequeue", "terminating", "leaving", "exited"}
MainPlaces == {"create", "thread created", "created", "wait ready", "compare", "started", "waiting",
               "broadcasting", "joining", "joining, some run", "ended", "forced exit"}
TaskStates == {"NOT_CONFIGURED", "STARTING", "READY", "ENDED"}
Messages == {"DATA", "TERMINATE"}
Calls == [at : {"check", "enqueue", "write"}, to : Tasks, message : Messages]

\* Types, the part of the inductive invariant every other part needs.
IttiTypes ==
    /\ task_state \in [Threads -> TaskStates]
    /\ created_tasks \in Nat /\ ready_tasks \in Nat /\ wait_tasks \in BOOLEAN
    /\ message_queue \in [Tasks -> Seq(Messages)]
    /\ event_fd \in [Threads -> Nat]
    /\ thread_handling_signals \in BOOLEAN /\ signals \subseteq {"SIGINT", "SIGUSR1"}
    /\ pc \in [Processes -> ThreadPlaces \cup MainPlaces]
    /\ pc["main"] \in MainPlaces /\ \A t \in Threads : pc[t] \in ThreadPlaces
    /\ loaded \in [Threads -> Nat]
    /\ sending \in [Processes -> Calls \cup {NotSending}]
    /\ visiting \in [Processes -> SUBSET Threads]

-----------------------------------------------------------------------------
\* A call of itti_send_msg_to_task is in one of its three places, and no call is in none.
LEMMA CallOrNone ==
    ASSUME IttiTypes, NEW p \in Processes
    PROVE  /\ sending[p].at \in {"check", "enqueue", "write"} => sending[p] \in Calls
           /\ sending[p] # NotSending => sending[p] \in Calls
           /\ sending[p] = NotSending <=> sending[p].at = "none"
  <1>1. NotSending.at = "none"
    BY DEF NotSending
  <1>2. \A c \in Calls : c.at # "none"
    BY DEF Calls
  <1> QED BY <1>1, <1>2 DEF IttiTypes

\* A call that moves on stays a call of the same message.
LEMMA CallMoves ==
    ASSUME NEW c \in Calls, NEW place \in {"enqueue", "write"}
    PROVE  /\ [c EXCEPT !.at = place] \in Calls /\ [c EXCEPT !.at = place].at = place
           /\ [c EXCEPT !.at = place].to = c.to /\ [c EXCEPT !.at = place].message = c.message
  BY DEF Calls

\* A new call.
LEMMA CallIsNew ==
    ASSUME NEW task \in Tasks, NEW message \in Messages
    PROVE  /\ Call(task, message) \in Calls /\ Call(task, message).at = "check"
           /\ Call(task, message).to = task /\ Call(task, message).message = message
  BY DEF Calls, Call

\* The threads and "main" are processes, and no sub-task is a thread.
LEMMA WhoIsWho ==
    /\ "main" \in Processes /\ Threads \subseteq Processes /\ "main" \notin Threads
    /\ Threads \subseteq Tasks /\ SubTasks \subseteq Tasks /\ SubTasks \cap Threads = {}
    /\ Terminators \subseteq Threads /\ L2L1 \in Threads
    /\ \A task \in Tasks : TASK_GET_THREAD_ID(task) \in Threads
    /\ \A t \in Threads : TASK_GET_THREAD_ID(t) = t
    /\ \A p \in Processes : p \in Threads \/ p = "main"
  BY IttiAssumption DEF Processes, Tasks, TASK_GET_THREAD_ID

\* itti_init leaves every variable in its range.
LEMMA TypesInit == IttiInit => IttiTypes
  <1> SUFFICES ASSUME IttiInit PROVE IttiTypes
    OBVIOUS
  <1>1. /\ pc \in [Processes -> ThreadPlaces \cup MainPlaces]
        /\ pc["main"] \in MainPlaces /\ \A t \in Threads : pc[t] \in ThreadPlaces
    BY WhoIsWho DEF IttiInit, ThreadPlaces, MainPlaces
  <1>2. message_queue \in [Tasks -> Seq(Messages)]
    BY DEF IttiInit
  <1>3. task_state \in [Threads -> TaskStates]
    BY DEF IttiInit, TaskStates
  <1> QED BY <1>1, <1>2, <1>3 DEF IttiInit, IttiTypes

-----------------------------------------------------------------------------
\* Each step of itti_send_msg_to_task keeps the types.
LEMMA TypesSend ==
    ASSUME IttiTypes, NEW p \in Processes, Send(p)
    PROVE  IttiTypes'
  <1>1. ASSUME CheckDestination(p) PROVE IttiTypes'
    <2>1. sending[p] \in Calls
      BY <1>1, CallOrNone DEF CheckDestination
    <2>2. [sending[p] EXCEPT !.at = "enqueue"] \in Calls
      BY <2>1, CallMoves
    <2>3. \/ sending' = sending \/ sending' = [sending EXCEPT ![p] = NotSending]
          \/ sending' = [sending EXCEPT ![p] = [sending[p] EXCEPT !.at = "enqueue"]]
      BY <1>1 DEF CheckDestination
    <2>4. sending' \in [Processes -> Calls \cup {NotSending}]
      BY <2>2, <2>3 DEF IttiTypes
    <2> QED BY <1>1, <2>4 DEF CheckDestination, IttiTypes, startVars, queueVars, signalVars
  <1>2. ASSUME Enqueue(p) PROVE IttiTypes'
    <2>1. sending[p] \in Calls
      BY <1>2, CallOrNone DEF Enqueue
    <2>2. [sending[p] EXCEPT !.at = "write"] \in Calls
      BY <2>1, CallMoves
    <2>3. \/ sending' = sending \/ sending' = [sending EXCEPT ![p] = NotSending]
          \/ sending' = [sending EXCEPT ![p] = [sending[p] EXCEPT !.at = "write"]]
      BY <1>2 DEF Enqueue
    <2>4. sending' \in [Processes -> Calls \cup {NotSending}]
      BY <2>2, <2>3 DEF IttiTypes
    <2>5. sending[p].to \in Tasks /\ sending[p].message \in Messages
      BY <2>1 DEF Calls
    <2>6. message_queue' \in [Tasks -> Seq(Messages)]
      <3>1. \/ message_queue' = message_queue
            \/ message_queue' = [message_queue EXCEPT ![sending[p].to] =
                                    Append(@, sending[p].message)]
        BY <1>2 DEF Enqueue
      <3>2. PICK task \in Tasks, m \in Messages : task = sending[p].to /\ m = sending[p].message
        BY <2>5
      <3>3. message_queue \in [Tasks -> Seq(Messages)]
        BY DEF IttiTypes
      <3>4. Append(message_queue[task], m) \in Seq(Messages)
        BY <3>3
      <3> QED BY <3>1, <3>2, <3>3, <3>4
    <2> QED BY <1>2, <2>4, <2>6 DEF Enqueue, IttiTypes, startVars, signalVars
  <1>3. ASSUME WriteEvent(p) PROVE IttiTypes'
    <2>1. sending' \in [Processes -> Calls \cup {NotSending}]
      BY <1>3 DEF WriteEvent, IttiTypes
    <2>2. event_fd' \in [Threads -> Nat]
      <3>1. event_fd \in [Threads -> Nat]
        BY DEF IttiTypes
      <3>2. PICK task : task = sending[p].to
        OBVIOUS
      <3>3. event_fd' = [event_fd EXCEPT ![task] = event_fd[task] + 1]
        BY <1>3, <3>2 DEF WriteEvent
      <3>4. CASE task \in Threads
        BY <3>1, <3>3, <3>4
      <3>5. CASE task \notin Threads
        BY <3>1, <3>3, <3>5
      <3> QED BY <3>4, <3>5
    <2> QED BY <1>3, <2>1, <2>2 DEF WriteEvent, IttiTypes, startVars, signalVars
  <1> QED BY <1>1, <1>2, <1>3 DEF Send

\* BroadcastNext starts at most one call.
LEMMA TypesBroadcast ==
    ASSUME IttiTypes, NEW p \in Processes, BroadcastNext(p)
    PROVE  IttiTypes'
  <1>1. PICK t \in visiting[p] :
           /\ visiting' = [visiting EXCEPT ![p] = @ \ {t}]
           /\ sending' = IF task_state[t] = "READY"
                         THEN [sending EXCEPT ![p] = Call(t, "TERMINATE")] ELSE sending
    BY DEF BroadcastNext
  <1>2. t \in Tasks
    BY WhoIsWho DEF IttiTypes
  <1>3. Call(t, "TERMINATE") \in Calls
    BY <1>2, CallIsNew DEF Messages
  <1>4. sending' \in [Processes -> Calls \cup {NotSending}]
    BY <1>1, <1>3 DEF IttiTypes
  <1>5. visiting' \in [Processes -> SUBSET Threads]
    BY <1>1 DEF IttiTypes
  <1> QED BY <1>4, <1>5 DEF BroadcastNext, IttiTypes, startVars, queueVars, signalVars

\* A process that goes to another place of its own keeps the types.
LEMMA TypesGo ==
    ASSUME IttiTypes, NEW p \in Processes, NEW place, Go(p, place),
           IF p = "main" THEN place \in MainPlaces ELSE place \in ThreadPlaces
    PROVE  /\ pc' \in [Processes -> ThreadPlaces \cup MainPlaces]
           /\ pc'["main"] \in MainPlaces /\ \A t \in Threads : pc'[t] \in ThreadPlaces
  BY WhoIsWho DEF IttiTypes, Go

\* Only the process that goes changes its place.
LEMMA OthersStay ==
    ASSUME IttiTypes, NEW p \in Processes, NEW place, Go(p, place)
    PROVE  pc'[p] = place /\ \A q \in Processes : q # p => pc'[q] = pc[q]
  BY DEF IttiTypes, Go

\* The steps of main.
LEMMA TypesMain == ASSUME IttiTypes, MainStep PROVE IttiTypes'
  <1> DEFINE Places == /\ pc' \in [Processes -> ThreadPlaces \cup MainPlaces]
                       /\ pc'["main"] \in MainPlaces /\ \A t \in Threads : pc'[t] \in ThreadPlaces
  <1> USE WhoIsWho
  <1>1. ASSUME NEW t \in Threads, CreateTask(t) PROVE IttiTypes'
    <2>1. Places
      <3>1. pc' = [[pc EXCEPT !["main"] = "thread created"] EXCEPT ![t] = "starting"]
        BY <1>1 DEF CreateTask
      <3>2. "thread created" \in MainPlaces /\ "starting" \in ThreadPlaces
        BY DEF MainPlaces, ThreadPlaces
      <3> QED BY <3>1, <3>2 DEF IttiTypes
    <2>2. task_state' \in [Threads -> TaskStates]
      BY <1>1 DEF CreateTask, IttiTypes, TaskStates
    <2> QED BY <1>1, <2>1, <2>2 DEF CreateTask, IttiTypes, startVars, queueVars, signalVars
  <1>2. ASSUME TaskIsReady PROVE IttiTypes'
    <2>1. Places
      <3>1. Go("main", "create") \/ Go("main", "wait ready")
        BY <1>2 DEF TaskIsReady
      <3> QED BY <3>1, TypesGo DEF MainPlaces
    <2> QED BY <1>2, <2>1 DEF TaskIsReady, IttiTypes, startVars, queueVars, signalVars
  <1>3. ASSUME ReleaseTasks PROVE IttiTypes'
    <2>1. Places
      BY <1>3, TypesGo DEF ReleaseTasks, MainPlaces
    <2> QED BY <1>3, <2>1 DEF ReleaseTasks, IttiTypes, queueVars, signalVars
  <1>4. ASSUME CompareReadyTasks PROVE IttiTypes'
    <2>1. Places
      <3>1. Go("main", "started") \/ pc' = pc
        BY <1>4 DEF CompareReadyTasks
      <3>2. CASE pc' = pc
        BY <3>2 DEF IttiTypes
      <3> QED BY <3>1, <3>2, TypesGo DEF MainPlaces
    <2> QED BY <1>4, <2>1 DEF CompareReadyTasks, IttiTypes, startVars, queueVars, signalVars
  <1>5. ASSUME WaitTasksEnd PROVE IttiTypes'
    <2>1. Places
      BY <1>5, TypesGo DEF WaitTasksEnd, MainPlaces
    <2> QED BY <1>5, <2>1 DEF WaitTasksEnd, IttiTypes, startVars, queueVars
  <1>6. ASSUME HandleSigint PROVE IttiTypes'
    <2>1. Places
      BY <1>6, TypesGo DEF HandleSigint, MainPlaces
    <2>2. visiting' \in [Processes -> SUBSET Threads]
      BY <1>6 DEF HandleSigint, IttiTypes
    <2> QED BY <1>6, <2>1, <2>2 DEF HandleSigint, IttiTypes, startVars, queueVars
  <1>7. ASSUME BroadcastDone PROVE IttiTypes'
    <2>1. Places
      BY <1>7, TypesGo DEF BroadcastDone, MainPlaces
    <2>2. visiting' \in [Processes -> SUBSET Threads]
      BY <1>7 DEF BroadcastDone, IttiTypes
    <2> QED BY <1>7, <2>1, <2>2 DEF BroadcastDone, IttiTypes, startVars, queueVars, signalVars
  <1>8. ASSUME HandleSigusr1 PROVE IttiTypes'
    <2>1. Places
      BY <1>8, TypesGo DEF HandleSigusr1, MainPlaces
    <2>2. visiting' \in [Processes -> SUBSET Threads]
      BY <1>8 DEF HandleSigusr1, IttiTypes
    <2> QED BY <1>8, <2>1, <2>2 DEF HandleSigusr1, IttiTypes, startVars, queueVars
  <1>9. ASSUME TryJoin PROVE IttiTypes'
    <2>1. PICK t \in visiting["main"] :
             /\ visiting' = [visiting EXCEPT !["main"] = @ \ {t}]
             /\ \/ task_state' = [task_state EXCEPT ![t] = "ENDED"] /\ pc' = pc
                \/ Go("main", "joining, some run") /\ UNCHANGED task_state
      BY <1>9 DEF TryJoin
    <2>2. Places
      <3>1. CASE pc' = pc
        BY <3>1 DEF IttiTypes
      <3> QED BY <2>1, <3>1, TypesGo DEF MainPlaces
    <2>3. visiting' \in [Processes -> SUBSET Threads]
      BY <2>1 DEF IttiTypes
    <2>4. task_state' \in [Threads -> TaskStates]
      BY <2>1 DEF IttiTypes, TaskStates
    <2> QED BY <1>9, <2>2, <2>3, <2>4 DEF TryJoin, IttiTypes, startVars, queueVars, signalVars
  <1>10. ASSUME JoinDone PROVE IttiTypes'
    <2>1. Places
      <3>1. Go("main", "ended") \/ Go("main", "forced exit")
        BY <1>10 DEF JoinDone
      <3> QED BY <3>1, TypesGo DEF MainPlaces
    <2> QED BY <1>10, <2>1 DEF JoinDone, IttiTypes, startVars, queueVars, signalVars
  <1>11. ASSUME CountCreatedTask PROVE IttiTypes'
    <2>1. Places
      BY <1>11, TypesGo DEF CountCreatedTask, MainPlaces
    <2>2. created_tasks' \in Nat
      <3>1. created_tasks \in Nat /\ created_tasks' = created_tasks + 1
        BY <1>11 DEF CountCreatedTask, IttiTypes
      <3> QED BY <3>1
    <2> QED BY <1>11, <2>1, <2>2 DEF CountCreatedTask, IttiTypes, queueVars, signalVars
  <1> QED BY <1>1, <1>2, <1>3, <1>4, <1>5, <1>6, <1>7, <1>8, <1>9, <1>10, <1>11, TypesSend,
             TypesBroadcast DEF MainStep

\* The steps of a thread.
LEMMA TypesThread == ASSUME IttiTypes, NEW t \in Threads, ThreadStep(t) PROVE IttiTypes'
  <1> DEFINE Places == /\ pc' \in [Processes -> ThreadPlaces \cup MainPlaces]
                       /\ pc'["main"] \in MainPlaces /\ \A u \in Threads : pc'[u] \in ThreadPlaces
  <1>0. ASSUME NEW place \in ThreadPlaces, Go(t, place) PROVE Places
    BY <1>0, TypesGo, WhoIsWho
  <1>1. ASSUME MarkTaskReady(t) PROVE IttiTypes'
    <2>1. Places
      BY <1>1, <1>0 DEF MarkTaskReady, ThreadPlaces
    <2>2. task_state' \in [Threads -> TaskStates]
      BY <1>1 DEF MarkTaskReady, IttiTypes, TaskStates
    <2> QED BY <1>1, <2>1, <2>2 DEF MarkTaskReady, IttiTypes, startVars, queueVars, signalVars
  <1>2. ASSUME LoadReadyTasks(t) PROVE IttiTypes'
    <2>1. Places
      BY <1>2, <1>0 DEF LoadReadyTasks, ThreadPlaces
    <2>2. loaded' \in [Threads -> Nat]
      BY <1>2 DEF LoadReadyTasks, IttiTypes
    <2> QED BY <1>2, <2>1, <2>2 DEF LoadReadyTasks, IttiTypes, queueVars, signalVars
  <1>3. ASSUME StoreReadyTasks(t) PROVE IttiTypes'
    <2>1. Places
      BY <1>3, <1>0 DEF StoreReadyTasks, ThreadPlaces
    <2>2. loaded' \in [Threads -> Nat] /\ ready_tasks' \in Nat
      BY <1>3 DEF StoreReadyTasks, IttiTypes
    <2> QED BY <1>3, <2>1, <2>2 DEF StoreReadyTasks, IttiTypes, queueVars, signalVars
  <1>4. ASSUME Released(t) PROVE IttiTypes'
    <2>1. Places
      BY <1>4, <1>0 DEF Released, ThreadPlaces
    <2> QED BY <1>4, <2>1 DEF Released, IttiTypes, startVars, queueVars, signalVars
  <1>5. ASSUME ReadEvent(t) PROVE IttiTypes'
    <2>1. Places
      BY <1>5, <1>0 DEF ReadEvent, ThreadPlaces
    <2>2. event_fd' \in [Threads -> Nat]
      BY <1>5 DEF ReadEvent, IttiTypes
    <2> QED BY <1>5, <2>1, <2>2 DEF ReadEvent, IttiTypes, startVars, signalVars
  <1>6. ASSUME Dequeue(t) PROVE IttiTypes'
    <2>1. Places
      <3>1. pc' = pc \/ Go(t, "exited") \/ Go(t, "handling")
        BY <1>6 DEF Dequeue
      <3>2. CASE pc' = pc
        BY <3>2 DEF IttiTypes
      <3> QED BY <3>1, <3>2, <1>0 DEF ThreadPlaces
    <2>2. message_queue' \in [Tasks -> Seq(Messages)]
      <3>1. message_queue \in [Tasks -> Seq(Messages)] /\ t \in Tasks
        BY WhoIsWho DEF IttiTypes
      <3>2. message_queue[t] # <<>> => Tail(message_queue[t]) \in Seq(Messages)
        BY <3>1
      <3>3. \/ message_queue' = message_queue
            \/ /\ message_queue[t] # <<>>
               /\ message_queue' = [message_queue EXCEPT ![t] = Tail(message_queue[t])]
        BY <1>6 DEF Dequeue
      <3> QED BY <3>1, <3>2, <3>3
    <2> QED BY <1>6, <2>1, <2>2 DEF Dequeue, IttiTypes, startVars, signalVars
  <1>7. ASSUME ReceiveAgain(t) PROVE IttiTypes'
    <2>1. Places
      BY <1>7, <1>0 DEF ReceiveAgain, ThreadPlaces
    <2> QED BY <1>7, <2>1 DEF ReceiveAgain, IttiTypes, startVars, queueVars, signalVars
  <1>8. ASSUME TellMain(t) PROVE IttiTypes'
    <2>1. Places
      BY <1>8, <1>0 DEF TellMain, ThreadPlaces
    <2> QED BY <1>8, <2>1 DEF TellMain, IttiTypes, startVars, queueVars
  <1>9. ASSUME ExitThread(t) PROVE IttiTypes'
    <2>1. Places
      BY <1>9, <1>0 DEF ExitThread, ThreadPlaces
    <2> QED BY <1>9, <2>1 DEF ExitThread, IttiTypes, startVars, queueVars, signalVars
  <1> QED BY <1>1, <1>2, <1>3, <1>4, <1>5, <1>6, <1>7, <1>8, <1>9, TypesSend, TypesBroadcast,
             WhoIsWho DEF ThreadStep

\* Every step keeps the ranges.
LEMMA TypesNext == IttiTypes /\ [IttiNext]_ittiVars => IttiTypes'
  <1> SUFFICES ASSUME IttiTypes, [IttiNext]_ittiVars PROVE IttiTypes'
    OBVIOUS
  <1>1. ASSUME NEW t \in Terminators, TerminateTasks(t) PROVE IttiTypes'
    <2>1. /\ pc' \in [Processes -> ThreadPlaces \cup MainPlaces]
          /\ pc'["main"] \in MainPlaces /\ \A u \in Threads : pc'[u] \in ThreadPlaces
      BY <1>1, TypesGo, WhoIsWho DEF TerminateTasks, ThreadPlaces
    <2>2. visiting' \in [Processes -> SUBSET Threads]
      BY <1>1 DEF TerminateTasks, IttiTypes
    <2> QED BY <1>1, <2>1, <2>2 DEF TerminateTasks, IttiTypes, startVars, queueVars, signalVars
  <1>2. ASSUME NEW p \in Processes, NEW place, NEW task \in Tasks, SendMessage(p, place, task)
        PROVE  IttiTypes'
    <2>1. Call(task, "DATA") \in Calls
      BY CallIsNew DEF Messages
    <2>2. sending' \in [Processes -> Calls \cup {NotSending}]
      BY <1>2, <2>1 DEF SendMessage, IttiTypes
    <2> QED BY <1>2, <2>2 DEF SendMessage, IttiTypes, startVars, queueVars, signalVars
  <1>3. ASSUME NEW s \in SubTasks, PollMsg(s) PROVE IttiTypes'
    <2>1. message_queue \in [Tasks -> Seq(Messages)] /\ s \in Tasks
      BY WhoIsWho DEF IttiTypes
    <2>2. Tail(message_queue[s]) \in Seq(Messages)
      BY <1>3, <2>1 DEF PollMsg
    <2>3. message_queue' \in [Tasks -> Seq(Messages)]
      BY <1>3, <2>1, <2>2 DEF PollMsg
    <2> QED BY <1>3, <2>3 DEF PollMsg, IttiTypes, startVars, signalVars
  <1>4. ASSUME Interrupt PROVE IttiTypes'
    BY <1>4 DEF Interrupt, IttiTypes, startVars, queueVars
  <1>5. ASSUME UNCHANGED ittiVars PROVE IttiTypes'
    BY <1>5 DEF ittiVars, startVars, queueVars, signalVars, IttiTypes
  <1> QED BY <1>1, <1>2, <1>3, <1>4, <1>5, TypesMain, TypesThread, WhoIsWho DEF IttiNext

-----------------------------------------------------------------------------
(* The start and the end of the threads. *)

ReleasedPlaces == {"handling", "receiving", "dequeue", "terminating", "leaving", "exited"}
JoinPlaces == {"joining", "joining, some run", "ended", "forced exit"}
CreatePlaces == {"create", "thread created", "created"}

\* task_state follows where the thread is; main waits for all of them; nobody runs before that,
\* and a thread is marked ENDED only when it has left and main joins the threads.
StateMatchesPlace ==
    \A t \in Threads : /\ pc[t] = "none" <=> task_state[t] = "NOT_CONFIGURED"
                       /\ pc[t] = "starting" <=> task_state[t] = "STARTING"
                       /\ task_state[t] = "ENDED" => pc[t] = "exited" /\ pc["main"] \in JoinPlaces
AllStarted ==
    pc["main"] \notin CreatePlaces => \A t \in Threads : task_state[t] \in {"READY", "ENDED"}
NobodyRunsEarly ==
    /\ wait_tasks <=> pc["main"] \in CreatePlaces \cup {"wait ready"}
    /\ \A t \in Threads : pc[t] \in ReleasedPlaces => ~wait_tasks
    /\ \A p \in Processes : sending[p] # NotSending => ~wait_tasks

StartInv == StateMatchesPlace /\ AllStarted /\ NobodyRunsEarly

\* Before the start no thread exists and nobody sends.
LEMMA StartInit == IttiInit => StartInv
  BY WhoIsWho DEF IttiInit, StartInv, StateMatchesPlace, AllStarted, NobodyRunsEarly,
                  ReleasedPlaces, JoinPlaces, CreatePlaces

\* Nothing that StartInv speaks of changes.
LEMMA StartKept ==
    ASSUME StartInv, UNCHANGED <<task_state, pc, wait_tasks>>,
           \A p \in Processes : sending'[p] = sending[p] \/ sending'[p] = NotSending
                                \/ sending[p] # NotSending \/ ~wait_tasks
    PROVE  StartInv'
  BY DEF StartInv, StateMatchesPlace, AllStarted, NobodyRunsEarly

\* A step of itti_send_msg_to_task does not touch the start.
LEMMA StartSend == ASSUME IttiTypes, StartInv, NEW p \in Processes, Send(p) PROVE StartInv'
  <1>1. sending[p] # NotSending
    BY CallOrNone DEF Send, CheckDestination, Enqueue, WriteEvent
  <1>2. UNCHANGED <<task_state, pc, wait_tasks>>
    BY DEF Send, CheckDestination, Enqueue, WriteEvent, startVars
  <1>3. \A q \in Processes : q # p => sending'[q] = sending[q]
    BY DEF Send, CheckDestination, Enqueue, WriteEvent, IttiTypes
  <1> QED BY <1>1, <1>2, <1>3, StartKept

\* Nor does a step of itti_send_broadcast_message.
LEMMA StartBroadcast ==
    ASSUME IttiTypes, StartInv, NEW p \in Processes, BroadcastNext(p) PROVE StartInv'
  <1>1. UNCHANGED <<task_state, pc, wait_tasks>>
    BY DEF BroadcastNext, startVars
  <1>2. ~wait_tasks
    BY WhoIsWho DEF BroadcastNext, IttiTypes, ThreadPlaces, MainPlaces, StartInv, NobodyRunsEarly,
                    ReleasedPlaces, CreatePlaces
  <1> QED BY <1>1, <1>2, StartKept

\* A running thread goes on.
LEMMA StartThreadGoes ==
    ASSUME IttiTypes, StartInv, UNCHANGED <<task_state, wait_tasks, sending>>,
           NEW t \in Threads, NEW place, Go(t, place),
           pc[t] \notin {"none", "starting", "exited"}, place \notin {"none", "starting"},
           place \in ReleasedPlaces => ~wait_tasks
    PROVE  StartInv'
  <1>1. /\ pc'[t] = place /\ \A u \in Threads : u # t => pc'[u] = pc[u]
        /\ pc'["main"] = pc["main"]
    BY OthersStay, WhoIsWho
  <1>2. StateMatchesPlace'
    BY <1>1 DEF StartInv, StateMatchesPlace
  <1>3. AllStarted'
    BY <1>1 DEF StartInv, AllStarted
  <1>4. NobodyRunsEarly'
    BY <1>1 DEF StartInv, NobodyRunsEarly
  <1> QED BY <1>2, <1>3, <1>4 DEF StartInv

\* main goes on.
LEMMA StartMainGoes ==
    ASSUME IttiTypes, StartInv, UNCHANGED <<task_state, sending>>, NEW place, Go("main", place),
           \/ wait_tasks' = wait_tasks /\ ~wait_tasks
              /\ place \notin CreatePlaces \cup {"wait ready"}
              /\ (pc["main"] \in JoinPlaces => place \in JoinPlaces)
           \/ wait_tasks /\ (wait_tasks' <=> place \in CreatePlaces \cup {"wait ready"})
              /\ pc["main"] \notin JoinPlaces
              /\ (place \notin CreatePlaces =>
                     \A t \in Threads : task_state[t] \in {"READY", "ENDED"})
    PROVE  StartInv'
  <1>1. pc'["main"] = place /\ \A u \in Threads : pc'[u] = pc[u]
    BY OthersStay, WhoIsWho
  <1>2. StateMatchesPlace'
    BY <1>1 DEF StartInv, StateMatchesPlace
  <1>3. AllStarted'
    BY <1>1 DEF StartInv, AllStarted, NobodyRunsEarly
  <1>4. NobodyRunsEarly'
    <2>1. CASE wait_tasks' = wait_tasks /\ ~wait_tasks
      BY <1>1, <2>1 DEF StartInv, NobodyRunsEarly
    <2>2. CASE wait_tasks /\ (wait_tasks' <=> place \in CreatePlaces \cup {"wait ready"})
      <3>1. (\A u \in Threads : pc[u] \notin ReleasedPlaces) /\ \A p \in Processes : sending[p] = NotSending
        BY <2>2 DEF StartInv, NobodyRunsEarly
      <3> QED BY <1>1, <2>2, <3>1 DEF NobodyRunsEarly
    <2> QED BY <2>1, <2>2
  <1> QED BY <1>2, <1>3, <1>4 DEF StartInv

\* The steps of main that create the tasks and wait for them keep StartInv.
LEMMA StartMain == ASSUME IttiTypes, StartInv, MainStep PROVE StartInv'
  <1> USE DEF CreatePlaces
  <1>0. wait_tasks <=> pc["main"] \in CreatePlaces \cup {"wait ready"}
    BY DEF StartInv, NobodyRunsEarly
  <1>1. ASSUME NEW t \in Threads, CreateTask(t) PROVE StartInv'
    <2>1. /\ pc["main"] = "create" /\ task_state[t] = "NOT_CONFIGURED"
          /\ UNCHANGED <<wait_tasks, sending>>
      BY <1>1 DEF CreateTask, At, startVars
    <2>2. /\ pc'["main"] = "thread created" /\ pc'[t] = "starting"
          /\ \A u \in Threads : u # t => pc'[u] = pc[u]
      BY <1>1, WhoIsWho DEF CreateTask, IttiTypes
    <2>3. task_state'[t] = "STARTING" /\ \A u \in Threads : u # t => task_state'[u] = task_state[u]
      BY <1>1 DEF CreateTask, IttiTypes
    <2>4. StateMatchesPlace'
      BY <2>1, <2>2, <2>3 DEF StartInv, StateMatchesPlace, JoinPlaces
    <2>5. AllStarted'
      BY <2>2 DEF AllStarted
    <2>6. NobodyRunsEarly'
      BY <2>1, <2>2 DEF StartInv, NobodyRunsEarly, ReleasedPlaces
    <2> QED BY <2>4, <2>5, <2>6 DEF StartInv
  <1>2. ASSUME TaskIsReady PROVE StartInv'
    <2>1. /\ pc["main"] = "created" /\ UNCHANGED <<task_state, wait_tasks, sending>>
          /\ \A t \in Threads : task_state[t] # "STARTING"
          /\ Go("main", IF \E t \in Threads : task_state[t] = "NOT_CONFIGURED" THEN "create"
                        ELSE "wait ready")
      BY <1>2 DEF TaskIsReady, At, startVars
    <2>2. CASE \E t \in Threads : task_state[t] = "NOT_CONFIGURED"
      BY <1>0, <2>1, <2>2, StartMainGoes DEF JoinPlaces
    <2>3. CASE ~\E t \in Threads : task_state[t] = "NOT_CONFIGURED"
      <3>1. \A t \in Threads : task_state[t] \in {"READY", "ENDED"}
        BY <2>1, <2>3 DEF IttiTypes, TaskStates
      <3> QED BY <1>0, <2>1, <2>3, <3>1, StartMainGoes DEF JoinPlaces
    <2> QED BY <2>2, <2>3
  <1>3. ASSUME ReleaseTasks PROVE StartInv'
    <2>1. /\ pc["main"] = "wait ready" /\ wait_tasks' = FALSE /\ Go("main", "compare")
          /\ UNCHANGED <<task_state, sending>>
      BY <1>3 DEF ReleaseTasks, At
    <2>2. \A t \in Threads : task_state[t] \in {"READY", "ENDED"}
      BY <2>1 DEF StartInv, AllStarted
    <2> QED BY <1>0, <2>1, <2>2, StartMainGoes DEF JoinPlaces
  <1>4. ASSUME CompareReadyTasks PROVE StartInv'
    <2>1. /\ pc["main"] = "compare" /\ UNCHANGED <<task_state, wait_tasks, sending>>
          /\ pc' = pc \/ Go("main", "started")
      BY <1>4 DEF CompareReadyTasks, At, startVars
    <2>2. CASE pc' = pc
      BY <2>1, <2>2, StartKept
    <2>3. CASE Go("main", "started")
      BY <1>0, <2>1, <2>3, StartMainGoes DEF JoinPlaces
    <2> QED BY <2>1, <2>2, <2>3
  <1>5. ASSUME WaitTasksEnd \/ HandleSigint \/ BroadcastDone \/ HandleSigusr1 PROVE StartInv'
    <2>1. PICK place \in {"waiting", "broadcasting", "joining"} :
             /\ pc["main"] \in {"started", "waiting", "broadcasting"} /\ Go("main", place)
             /\ UNCHANGED <<task_state, wait_tasks, sending>>
      BY <1>5 DEF WaitTasksEnd, HandleSigint, BroadcastDone, HandleSigusr1, At, startVars
    <2> QED BY <1>0, <2>1, StartMainGoes DEF JoinPlaces
  <1>6. ASSUME JoinDone PROVE StartInv'
    <2>1. PICK place \in {"ended", "forced exit"} :
             /\ pc["main"] \in {"joining", "joining, some run"} /\ Go("main", place)
             /\ UNCHANGED <<task_state, wait_tasks, sending>>
      BY <1>6 DEF JoinDone, At, startVars
    <2> QED BY <1>0, <2>1, StartMainGoes DEF JoinPlaces
  <1>7. ASSUME TryJoin PROVE StartInv'
    <2>1. pc["main"] \in {"joining", "joining, some run"} /\ UNCHANGED <<wait_tasks, sending>>
      BY <1>7 DEF TryJoin, startVars
    <2>2. PICK t \in visiting["main"] :
             IF pc[t] = "exited"
             THEN task_state' = [task_state EXCEPT ![t] = "ENDED"] /\ pc' = pc
             ELSE Go("main", "joining, some run") /\ UNCHANGED task_state
      BY <1>7 DEF TryJoin
    <2>3. CASE pc[t] = "exited"
      <3>1. t \in Threads
        BY WhoIsWho DEF IttiTypes
      <3>2. /\ pc' = pc /\ task_state'[t] = "ENDED"
            /\ \A u \in Threads : u # t => task_state'[u] = task_state[u]
        BY <2>2, <2>3, <3>1 DEF IttiTypes
      <3>3. StateMatchesPlace'
        BY <2>1, <2>3, <3>2 DEF StartInv, StateMatchesPlace, JoinPlaces
      <3>4. AllStarted' /\ NobodyRunsEarly'
        BY <2>1, <3>2 DEF StartInv, AllStarted, NobodyRunsEarly
      <3> QED BY <3>3, <3>4 DEF StartInv
    <2>4. CASE pc[t] # "exited"
      BY <1>0, <2>1, <2>2, <2>4, StartMainGoes DEF JoinPlaces
    <2> QED BY <2>3, <2>4
  <1>8. ASSUME CountCreatedTask PROVE StartInv'
    <2>1. /\ pc["main"] = "thread created" /\ UNCHANGED <<task_state, wait_tasks, sending>>
          /\ Go("main", "created")
      BY <1>8 DEF CountCreatedTask, At
    <2> QED BY <1>0, <2>1, StartMainGoes DEF JoinPlaces
  <1> QED BY <1>1, <1>2, <1>3, <1>4, <1>5, <1>6, <1>7, <1>8, StartSend, StartBroadcast, WhoIsWho
          DEF MainStep

\* The steps of a thread keep StartInv.
LEMMA StartThread == ASSUME IttiTypes, StartInv, NEW t \in Threads, ThreadStep(t) PROVE StartInv'
  <1>0. pc[t] \in ReleasedPlaces => ~wait_tasks
    BY DEF StartInv, NobodyRunsEarly
  <1>1. ASSUME MarkTaskReady(t) PROVE StartInv'
    <2>1. pc[t] = "starting" /\ UNCHANGED <<wait_tasks, sending>> /\ Go(t, "ready")
      BY <1>1 DEF MarkTaskReady, At, startVars
    <2>2. task_state'[t] = "READY" /\ \A u \in Threads : u # t => task_state'[u] = task_state[u]
      BY <1>1 DEF MarkTaskReady, IttiTypes
    <2>3. /\ pc'[t] = "ready" /\ \A u \in Threads : u # t => pc'[u] = pc[u]
          /\ pc'["main"] = pc["main"]
      BY <2>1, OthersStay, WhoIsWho
    <2>4. StateMatchesPlace'
      BY <2>2, <2>3 DEF StartInv, StateMatchesPlace
    <2>5. AllStarted' /\ NobodyRunsEarly'
      BY <2>1, <2>2, <2>3 DEF StartInv, AllStarted, NobodyRunsEarly, ReleasedPlaces
    <2> QED BY <2>4, <2>5 DEF StartInv
  <1>2. ASSUME LoadReadyTasks(t) \/ StoreReadyTasks(t) PROVE StartInv'
    <2>1. PICK place \in {"counting", "holding"} :
             /\ pc[t] \in {"ready", "counting"} /\ Go(t, place)
             /\ UNCHANGED <<task_state, wait_tasks, sending>>
      BY <1>2 DEF LoadReadyTasks, StoreReadyTasks, At
    <2> QED BY <2>1, StartThreadGoes DEF ReleasedPlaces
  <1>3. ASSUME Released(t) PROVE StartInv'
    BY <1>3, StartThreadGoes DEF Released, At, startVars
  <1>4. ASSUME ReadEvent(t) \/ Dequeue(t) \/ ReceiveAgain(t) \/ TellMain(t) \/ ExitThread(t)
        PROVE  StartInv'
    <2>1. /\ pc[t] \in {"handling", "receiving", "dequeue", "terminating", "leaving"}
          /\ UNCHANGED <<task_state, wait_tasks, sending>>
          /\ pc' = pc \/ \E place \in ReleasedPlaces : Go(t, place)
      BY <1>4 DEF ReadEvent, Dequeue, ReceiveAgain, TellMain, ExitThread, At, startVars, ReleasedPlaces
    <2>2. CASE pc' = pc
      BY <2>1, <2>2, StartKept
    <2>3. ASSUME NEW place \in ReleasedPlaces, Go(t, place) PROVE StartInv'
      BY <1>0, <2>1, <2>3, StartThreadGoes DEF ReleasedPlaces
    <2> QED BY <2>1, <2>2, <2>3
  <1> QED BY <1>1, <1>2, <1>3, <1>4, StartSend, StartBroadcast, WhoIsWho DEF ThreadStep

\* StartInv is inductive, given the ranges.
LEMMA StartNext == IttiTypes /\ StartInv /\ [IttiNext]_ittiVars => StartInv'
  <1> SUFFICES ASSUME IttiTypes, StartInv, [IttiNext]_ittiVars PROVE StartInv'
    OBVIOUS
  <1>1. ASSUME NEW t \in Terminators, TerminateTasks(t) PROVE StartInv'
    <2>1. /\ pc[t] = "handling" /\ Go(t, "terminating") /\ t \in Threads
          /\ UNCHANGED <<task_state, wait_tasks, sending>>
      BY <1>1, WhoIsWho DEF TerminateTasks, At, startVars
    <2> QED BY <2>1, StartThreadGoes DEF StartInv, NobodyRunsEarly, ReleasedPlaces
  <1>2. ASSUME NEW t \in Threads, NEW task, SendMessage(t, "handling", task) PROVE StartInv'
    BY <1>2, StartKept DEF SendMessage, startVars, StartInv, NobodyRunsEarly, ReleasedPlaces, At
  <1>3. ASSUME NEW task, SendMessage("main", "waiting", task) PROVE StartInv'
    BY <1>3, StartKept DEF SendMessage, startVars, StartInv, NobodyRunsEarly, CreatePlaces, At
  <1>4. ASSUME NEW s \in SubTasks, PollMsg(s) PROVE StartInv'
    BY <1>4, StartKept DEF PollMsg, startVars
  <1>5. ASSUME Interrupt PROVE StartInv'
    BY <1>5, StartKept DEF Interrupt, startVars
  <1>6. ASSUME UNCHANGED ittiVars PROVE StartInv'
    BY <1>6, StartKept DEF ittiVars, startVars
  <1> QED BY <1>1, <1>2, <1>3, <1>4, <1>5, <1>6, StartMain, StartThread DEF IttiNext

-----------------------------------------------------------------------------
(* Which steps touch the counters and the queues. *)

\* A step that only moves main, or a thread that runs.
Quiet ==
    /\ UNCHANGED <<task_state, created_tasks, ready_tasks, loaded, message_queue, event_fd, sending>>
    /\ \/ pc' = pc
       \/ \E place : pc["main"] # "thread created" /\ place # "thread created" /\ Go("main", place)
       \/ \E t \in Threads, place \in {"handling", "receiving", "terminating", "leaving", "exited"} :
             /\ pc[t] \in {"holding", "handling", "terminating", "leaving"} /\ Go(t, place)
             /\ pc[t] = "leaving" => place = "exited"

\* A step is quiet, or one of the others.
LEMMA StepKinds ==
    ASSUME IttiNext
    PROVE  \/ \E t \in Threads : \/ CreateTask(t) \/ MarkTaskReady(t) \/ LoadReadyTasks(t)
                                 \/ StoreReadyTasks(t) \/ ReadEvent(t) \/ Dequeue(t)
           \/ \E p \in Processes : Send(p) \/ BroadcastNext(p)
           \/ \E p \in Processes, task \in Tasks : \E place : SendMessage(p, place, task)
           \/ \E s \in SubTasks : PollMsg(s)
           \/ CountCreatedTask \/ TryJoin
           \/ Quiet
  <1>1. ASSUME MainStep
        PROVE  \/ (\E t \in Threads : CreateTask(t)) \/ CountCreatedTask
               \/ Send("main") \/ BroadcastNext("main") \/ TryJoin \/ Quiet
    <2>1. ASSUME \/ TaskIsReady \/ ReleaseTasks \/ CompareReadyTasks \/ WaitTasksEnd \/ HandleSigint
                 \/ BroadcastDone \/ HandleSigusr1 \/ JoinDone
          PROVE  Quiet
      <3>1. UNCHANGED <<task_state, created_tasks, ready_tasks, loaded, message_queue, event_fd, sending>>
        BY <2>1 DEF TaskIsReady, ReleaseTasks, CompareReadyTasks, WaitTasksEnd, HandleSigint,
           BroadcastDone, HandleSigusr1, JoinDone, startVars, queueVars
      <3>2. \/ pc' = pc
            \/ \E place \in {"create", "wait ready", "compare", "started", "waiting", "broadcasting",
                             "joining", "ended", "forced exit"} : Go("main", place)
        BY <2>1 DEF TaskIsReady, ReleaseTasks, CompareReadyTasks, WaitTasksEnd, HandleSigint,
           BroadcastDone, HandleSigusr1, JoinDone
      <3>3. pc["main"] # "thread created"
        BY <2>1 DEF TaskIsReady, ReleaseTasks, CompareReadyTasks, WaitTasksEnd, HandleSigint,
           BroadcastDone, HandleSigusr1, JoinDone, At
      <3> QED BY <3>1, <3>2, <3>3 DEF Quiet
    <2> QED BY <1>1, <2>1 DEF MainStep
  <1>2. ASSUME NEW t \in Threads, ThreadStep(t)
        PROVE  \/ MarkTaskReady(t) \/ LoadReadyTasks(t) \/ StoreReadyTasks(t) \/ ReadEvent(t)
               \/ Dequeue(t) \/ Send(t) \/ BroadcastNext(t) \/ Quiet
    <2>1. ASSUME Released(t) \/ ReceiveAgain(t) \/ TellMain(t) \/ ExitThread(t) PROVE Quiet
      BY <2>1 DEF Released, ReceiveAgain, TellMain, ExitThread, Quiet, At, startVars, queueVars
    <2> QED BY <1>2, <2>1 DEF ThreadStep
  <1>3. ASSUME NEW t \in Terminators, TerminateTasks(t) PROVE Quiet
    BY <1>3, WhoIsWho DEF TerminateTasks, Quiet, At, startVars, queueVars
  <1>4. ASSUME Interrupt PROVE Quiet
    BY <1>4 DEF Interrupt, Quiet, startVars, queueVars
  <1> QED BY <1>1, <1>2, <1>3, <1>4, WhoIsWho DEF IttiNext

-----------------------------------------------------------------------------
(* The counters of the start. *)

EarlyPlaces == {"none", "starting", "ready", "counting"}
Created == {t \in Threads : task_state[t] # "NOT_CONFIGURED"}
Counted == {t \in Threads : pc[t] \notin EarlyPlaces}

\* created_tasks is exact but for the thread main has not counted yet; the unprotected
\* ready_tasks++ may lose threads but invents none, even in the value a thread has loaded and
\* not yet stored.
CountInv ==
    /\ pc["main"] = "thread created" => Cardinality(Created) = created_tasks + 1
    /\ pc["main"] # "thread created" => Cardinality(Created) = created_tasks
    /\ ready_tasks <= Cardinality(Counted)
    /\ \A t \in Threads : pc[t] = "counting" => loaded[t] <= Cardinality(Counted)

\* The threads are finitely many.
LEMMA FiniteThreads ==
    /\ IsFiniteSet(Threads) /\ IsFiniteSet(Processes)
    /\ \A S \in SUBSET Threads : IsFiniteSet(S) /\ Cardinality(S) \in Nat
    /\ \A S \in SUBSET Processes : IsFiniteSet(S) /\ Cardinality(S) \in Nat
  <1>1. IsFiniteSet(Threads) /\ IsFiniteSet(Processes)
    BY IttiAssumption, FS_AddElement DEF Processes
  <1> QED BY <1>1, FS_Subset, FS_CardinalityType

\* No thread was created, none is ready.
LEMMA CountInit == IttiInit => CountInv
  <1> SUFFICES ASSUME IttiInit PROVE CountInv
    OBVIOUS
  <1>1. Created = {}
    BY DEF IttiInit, Created
  <1>2. Counted = {}
    BY WhoIsWho DEF IttiInit, Counted, EarlyPlaces
  <1>3. \A t \in Threads : pc[t] # "counting"
    BY WhoIsWho DEF IttiInit
  <1>4. pc["main"] = "create"
    BY WhoIsWho DEF IttiInit
  <1>5. created_tasks = 0 /\ ready_tasks = 0 /\ Cardinality(Created) = 0 /\ Cardinality(Counted) = 0
    BY <1>1, <1>2, FS_EmptySet DEF IttiInit
  <1> QED BY <1>3, <1>4, <1>5 DEF CountInv

\* A step that leaves the counters and the READY threads alone keeps CountInv.
LEMMA CountKept ==
    ASSUME CountInv, UNCHANGED <<created_tasks, ready_tasks, loaded>>,
           Created' = Created, Counted' = Counted,
           pc'["main"] = "thread created" <=> pc["main"] = "thread created",
           \A t \in Threads : pc'[t] = "counting" => pc[t] = "counting"
    PROVE  CountInv'
  BY DEF CountInv

\* Sending, receiving and broadcasting are such steps.
LEMMA CountQuiet == ASSUME IttiTypes, CountInv, Quiet PROVE CountInv'
  <1>1. Created' = Created /\ UNCHANGED <<created_tasks, ready_tasks, loaded>>
    BY DEF Quiet, Created
  <1>2. CASE pc' = pc
    BY <1>1, <1>2, CountKept DEF Counted
  <1>3. ASSUME NEW place, pc["main"] # "thread created", place # "thread created", Go("main", place)
        PROVE  CountInv'
    <2>1. pc'["main"] = place /\ \A t \in Threads : pc'[t] = pc[t]
      BY <1>3, OthersStay, WhoIsWho
    <2> QED BY <1>1, <1>3, <2>1, CountKept DEF Counted
  <1>4. ASSUME NEW t \in Threads,
               NEW place \in {"handling", "receiving", "terminating", "leaving", "exited"},
               pc[t] \in {"holding", "handling", "terminating", "leaving"}, Go(t, place)
        PROVE  CountInv'
    <2>1. /\ pc'[t] = place /\ \A u \in Threads : u # t => pc'[u] = pc[u]
          /\ pc'["main"] = pc["main"]
      BY <1>4, OthersStay, WhoIsWho
    <2>2. Counted' = Counted
      BY <1>4, <2>1 DEF Counted, EarlyPlaces
    <2> QED BY <1>1, <1>4, <2>1, <2>2, CountKept
  <1> QED BY <1>2, <1>3, <1>4 DEF Quiet

\* CountInv is inductive, given the ranges and StartInv.
LEMMA CountNext == IttiTypes /\ StartInv /\ CountInv /\ [IttiNext]_ittiVars => CountInv'
  <1> SUFFICES ASSUME IttiTypes, StartInv, CountInv, [IttiNext]_ittiVars PROVE CountInv'
    OBVIOUS
  <1>0. /\ Created \in SUBSET Threads /\ Counted \in SUBSET Threads
        /\ created_tasks \in Nat /\ ready_tasks \in Nat /\ \A t \in Threads : loaded[t] \in Nat
        /\ IsFiniteSet(Created) /\ IsFiniteSet(Counted)
        /\ Cardinality(Created) \in Nat /\ Cardinality(Counted) \in Nat
    BY FiniteThreads DEF Created, Counted, IttiTypes
  <1>1. ASSUME NEW t \in Threads, CreateTask(t) PROVE CountInv'
    <2>1. /\ pc'[t] = "starting" /\ \A u \in Threads : u # t => pc'[u] = pc[u]
          /\ pc["main"] = "create" /\ pc'["main"] = "thread created"
      BY <1>1, WhoIsWho DEF CreateTask, IttiTypes, At
    <2>2. /\ task_state[t] = "NOT_CONFIGURED" /\ task_state'[t] = "STARTING"
          /\ \A u \in Threads : u # t => task_state'[u] = task_state[u]
      BY <1>1 DEF CreateTask, IttiTypes
    <2>3. pc[t] = "none"
      BY <2>2 DEF StartInv, StateMatchesPlace
    <2>4. Created' = Created \cup {t} /\ t \notin Created
      BY <2>2 DEF Created
    <2>5. Counted' = Counted
      BY <2>1, <2>3 DEF Counted, EarlyPlaces
    <2>6. Cardinality(Created') = Cardinality(Created) + 1
      BY <1>0, <2>4, FS_AddElement
    <2>7. UNCHANGED <<created_tasks, ready_tasks, loaded>>
      BY <1>1 DEF CreateTask, startVars
    <2>8. Cardinality(Created') = created_tasks' + 1
      BY <2>1, <2>6, <2>7, <1>0 DEF CountInv
    <2> QED BY <2>1, <2>5, <2>7, <2>8 DEF CountInv
  <1>2. ASSUME NEW t \in Threads, MarkTaskReady(t) PROVE CountInv'
    <2>1. /\ pc[t] = "starting" /\ pc'[t] = "ready" /\ \A u \in Threads : u # t => pc'[u] = pc[u]
          /\ pc'["main"] = pc["main"] /\ UNCHANGED <<created_tasks, ready_tasks, loaded>>
      BY <1>2, OthersStay, WhoIsWho DEF MarkTaskReady, At, startVars
    <2>2. /\ task_state[t] = "STARTING" /\ task_state'[t] = "READY"
          /\ \A u \in Threads : u # t => task_state'[u] = task_state[u]
      BY <1>2, <2>1 DEF MarkTaskReady, IttiTypes, StartInv, StateMatchesPlace
    <2>3. Created' = Created
      BY <2>2 DEF Created
    <2>4. Counted' = Counted
      BY <2>1 DEF Counted, EarlyPlaces
    <2> QED BY <2>1, <2>3, <2>4, CountKept
  <1>3. ASSUME NEW t \in Threads, LoadReadyTasks(t) PROVE CountInv'
    <2>1. /\ pc[t] = "ready" /\ pc'[t] = "counting" /\ \A u \in Threads : u # t => pc'[u] = pc[u]
          /\ pc'["main"] = pc["main"] /\ UNCHANGED <<task_state, created_tasks, ready_tasks>>
      BY <1>3, OthersStay, WhoIsWho DEF LoadReadyTasks, At
    <2>2. loaded'[t] = ready_tasks /\ \A u \in Threads : u # t => loaded'[u] = loaded[u]
      BY <1>3 DEF LoadReadyTasks, IttiTypes
    <2>3. Counted' = Counted /\ Created' = Created
      BY <2>1 DEF Counted, Created, EarlyPlaces
    <2> QED BY <2>1, <2>2, <2>3 DEF CountInv
  <1>4. ASSUME NEW t \in Threads, StoreReadyTasks(t) PROVE CountInv'
    <2>1. /\ pc[t] = "counting" /\ pc'[t] = "holding" /\ \A u \in Threads : u # t => pc'[u] = pc[u]
          /\ pc'["main"] = pc["main"]
          /\ UNCHANGED <<task_state, created_tasks>> /\ ready_tasks' = loaded[t] + 1
      BY <1>4, OthersStay, WhoIsWho DEF StoreReadyTasks, At
    <2>2. \A u \in Threads : u # t => loaded'[u] = loaded[u]
      BY <1>4 DEF StoreReadyTasks, IttiTypes
    <2>3. Counted' = Counted \cup {t} /\ t \notin Counted /\ Created' = Created
      BY <2>1 DEF Counted, Created, EarlyPlaces
    <2>4. Cardinality(Counted') = Cardinality(Counted) + 1
      BY <1>0, <2>3, FS_AddElement
    <2>5. loaded[t] <= Cardinality(Counted) /\ loaded[t] \in Nat
      BY <1>0, <2>1 DEF CountInv
    <2>6. ready_tasks' <= Cardinality(Counted')
      BY <1>0, <2>1, <2>4, <2>5
    <2>7. \A u \in Threads : pc'[u] = "counting" => loaded'[u] <= Cardinality(Counted')
      <3> SUFFICES ASSUME NEW u \in Threads, pc'[u] = "counting"
                   PROVE  loaded'[u] <= Cardinality(Counted')
        OBVIOUS
      <3>1. u # t /\ pc[u] = "counting" /\ loaded'[u] = loaded[u]
        BY <2>1, <2>2
      <3>2. loaded[u] <= Cardinality(Counted) /\ loaded[u] \in Nat
        BY <1>0, <3>1 DEF CountInv
      <3> QED BY <1>0, <2>4, <3>1, <3>2
    <2>8. Cardinality(Created') = Cardinality(Created) /\ created_tasks' = created_tasks
      BY <2>1, <2>3
    <2> QED BY <2>1, <2>6, <2>7, <2>8 DEF CountInv
  <1>5. ASSUME NEW t \in Threads, ReadEvent(t) \/ Dequeue(t) PROVE CountInv'
    <2>1. /\ pc[t] \in {"receiving", "dequeue"}
          /\ UNCHANGED <<task_state, created_tasks, ready_tasks, loaded>>
          /\ pc' = pc \/ \E place \in {"dequeue", "exited", "handling"} : Go(t, place)
      BY <1>5 DEF ReadEvent, Dequeue, At, startVars
    <2>2. /\ pc'[t] \in {"receiving", "dequeue", "exited", "handling"}
          /\ pc'["main"] = pc["main"] /\ \A u \in Threads : u # t => pc'[u] = pc[u]
      BY <2>1, OthersStay, WhoIsWho
    <2>3. Created' = Created /\ Counted' = Counted
      BY <2>1, <2>2 DEF Created, Counted, EarlyPlaces
    <2> QED BY <2>1, <2>2, <2>3, CountKept
  <1>6. ASSUME UNCHANGED <<task_state, created_tasks, ready_tasks, loaded, pc>> PROVE CountInv'
    BY <1>6, CountKept DEF Created, Counted
  <1>7. ASSUME NEW p \in Processes, Send(p) \/ BroadcastNext(p) PROVE CountInv'
    BY <1>6, <1>7 DEF Send, CheckDestination, Enqueue, WriteEvent, BroadcastNext, startVars
  <1>8. ASSUME NEW p, NEW place, NEW task, SendMessage(p, place, task) PROVE CountInv'
    BY <1>6, <1>8 DEF SendMessage, startVars
  <1>9. ASSUME NEW q, PollMsg(q) PROVE CountInv'
    BY <1>6, <1>9 DEF PollMsg, startVars
  <1>10. ASSUME TryJoin PROVE CountInv'
    <2>1. PICK t \in visiting["main"] :
             IF pc[t] = "exited"
             THEN task_state' = [task_state EXCEPT ![t] = "ENDED"] /\ pc' = pc
             ELSE Go("main", "joining, some run") /\ UNCHANGED task_state
      BY <1>10 DEF TryJoin
    <2>2. t \in Threads
      BY WhoIsWho DEF IttiTypes
    <2>3. \A u \in Threads : pc'[u] = pc[u]
      BY <2>1, OthersStay, WhoIsWho
    <2>4. Created' = Created
      <3>1. CASE pc[t] = "exited"
        <4>1. task_state[t] # "NOT_CONFIGURED"
          BY <2>2, <3>1 DEF StartInv, StateMatchesPlace
        <4> QED BY <2>1, <2>2, <3>1, <4>1 DEF Created, IttiTypes
      <3>2. CASE pc[t] # "exited"
        BY <2>1, <3>2 DEF Created
      <3> QED BY <3>1, <3>2
    <2>5. Counted' = Counted
      BY <2>3 DEF Counted
    <2>6. pc["main"] # "thread created" /\ pc'["main"] # "thread created"
      <3>1. pc["main"] # "thread created"
        BY <1>10 DEF TryJoin
      <3>2. pc' = pc \/ Go("main", "joining, some run")
        BY <2>1
      <3> QED BY <3>1, <3>2, OthersStay, WhoIsWho
    <2> QED BY <1>10, <2>3, <2>4, <2>5, <2>6, CountKept DEF TryJoin, startVars
  <1>11. ASSUME UNCHANGED ittiVars PROVE CountInv'
    BY <1>6, <1>11 DEF ittiVars, startVars
  <1>12. ASSUME CountCreatedTask PROVE CountInv'
    <2>1. /\ pc["main"] = "thread created" /\ pc'["main"] = "created"
          /\ \A u \in Threads : pc'[u] = pc[u]
      BY <1>12, OthersStay, WhoIsWho DEF CountCreatedTask, At
    <2>2. /\ created_tasks' = created_tasks + 1 /\ UNCHANGED <<task_state, ready_tasks, loaded>>
      BY <1>12 DEF CountCreatedTask
    <2>3. Created' = Created /\ Counted' = Counted
      BY <2>1, <2>2 DEF Created, Counted
    <2> QED BY <1>0, <2>1, <2>2, <2>3 DEF CountInv
  <1> QED BY <1>1, <1>2, <1>3, <1>4, <1>5, <1>7, <1>8, <1>9, <1>10, <1>11, <1>12, CountQuiet,
             StepKinds

-----------------------------------------------------------------------------
(* Queues and event descriptors. *)

\* Only the owners of a descriptor are written to, and no queue is longer than it may be.
QueueInv ==
    /\ EventsMatchMessages
    /\ \A task \in Tasks : Len(message_queue[task]) <= QUEUE_SIZE
    /\ \A p \in Processes : sending[p].at = "write" => sending[p].to \in Threads

\* Queues and events are empty at first.
LEMMA QueueInit == IttiInit => QueueInv
  <1> SUFFICES ASSUME IttiInit PROVE QueueInv
    OBVIOUS
  <1>1. \A p \in Processes : sending[p].at = "none"
    BY DEF IttiInit, NotSending
  <1>2. \A t \in Threads : WritersTo(t) = {}
    BY <1>1 DEF WritersTo
  <1>3. \A t \in Threads : /\ Len(message_queue[t]) = 0 /\ event_fd[t] = 0
                           /\ pc[t] # "dequeue" /\ Cardinality(WritersTo(t)) = 0
    BY <1>2, WhoIsWho, FS_EmptySet DEF IttiInit
  <1>4. \A task \in Tasks : Len(message_queue[task]) <= QUEUE_SIZE
    BY IttiAssumption DEF IttiInit
  <1> QED BY <1>1, <1>3, <1>4 DEF QueueInv, EventsMatchMessages

\* Nothing that QueueInv speaks of changes: a call may begin, or be given up before the queue.
LEMMA QueueKept ==
    ASSUME QueueInv, UNCHANGED <<message_queue, event_fd>>,
           \A t \in Threads : pc'[t] = "dequeue" <=> pc[t] = "dequeue",
           \A p \in Processes : \/ sending'[p] = sending[p]
                                \/ sending[p].at # "write" /\ sending'[p].at # "write"
    PROVE  QueueInv'
  <1>1. \A t \in Threads : WritersTo(t)' = WritersTo(t)
    BY DEF WritersTo
  <1>2. EventsMatchMessages'
    BY <1>1 DEF QueueInv, EventsMatchMessages
  <1> QED BY <1>2 DEF QueueInv

\* The numbers EventsMatchMessages adds up.
LEMMA QueueNumbers ==
    ASSUME IttiTypes, NEW t \in Threads
    PROVE  /\ message_queue[t] \in Seq(Messages) /\ Len(message_queue[t]) \in Nat
           /\ event_fd[t] \in Nat /\ IsFiniteSet(WritersTo(t)) /\ Cardinality(WritersTo(t)) \in Nat
  <1>1. WritersTo(t) \in SUBSET Processes
    BY DEF WritersTo
  <1>2. message_queue[t] \in Seq(Messages) /\ event_fd[t] \in Nat
    BY WhoIsWho DEF IttiTypes
  <1> QED BY <1>1, <1>2, FiniteThreads

\* lfds611_queue_enqueue: one message and one sender with an event to write more.
LEMMA QueueEnqueue ==
    ASSUME IttiTypes, QueueInv, NEW p \in Processes, Enqueue(p)
    PROVE  QueueInv'
  <1>1. sending[p] \in Calls /\ sending[p].at = "enqueue"
    BY CallOrNone DEF Enqueue
  <1>2. PICK task \in Tasks, m \in Messages : task = sending[p].to /\ m = sending[p].message
    BY <1>1 DEF Calls
  <1>3. event_fd' = event_fd /\ pc' = pc
    BY DEF Enqueue
  <1>4. CASE Len(message_queue[task]) = QUEUE_SIZE
    BY <1>2, <1>3, <1>4, QueueKept DEF Enqueue
  <1>5. CASE Len(message_queue[task]) # QUEUE_SIZE
    <2> DEFINE next == IF task \in SubTasks THEN NotSending ELSE [sending[p] EXCEPT !.at = "write"]
    <2>1. /\ message_queue' = [message_queue EXCEPT ![task] = Append(message_queue[task], m)]
          /\ sending' = [sending EXCEPT ![p] = next]
      BY <1>2, <1>5 DEF Enqueue
    <2>2. /\ task \in SubTasks => next.at = "none"
          /\ task \notin SubTasks => next.at = "write" /\ next.to = task
      BY <1>1, <1>2, CallMoves DEF NotSending
    <2> HIDE DEF next
    <2>3. sending'[p] = next /\ \A q \in Processes : q # p => sending'[q] = sending[q]
      BY <2>1 DEF IttiTypes
    <2>4. message_queue[task] \in Seq(Messages)
      BY DEF IttiTypes
    <2>5. /\ Len(message_queue'[task]) = Len(message_queue[task]) + 1
          /\ \A other \in Tasks : other # task => message_queue'[other] = message_queue[other]
      <3>1. message_queue \in [Tasks -> Seq(Messages)]
        BY DEF IttiTypes
      <3>2. message_queue'[task] = Append(message_queue[task], m)
        BY <2>1, <3>1
      <3> QED BY <2>1, <2>4, <3>1, <3>2
    <2>6. \A other \in Tasks : Len(message_queue'[other]) <= QUEUE_SIZE
      <3>1. Len(message_queue[task]) <= QUEUE_SIZE /\ Len(message_queue[task]) \in Nat
        BY <2>4 DEF QueueInv
      <3>2. Len(message_queue'[task]) <= QUEUE_SIZE
        BY <1>5, <2>5, <3>1, IttiAssumption
      <3> QED BY <2>5, <3>2 DEF QueueInv
    <2>7. \A q \in Processes : sending'[q].at = "write" => sending'[q].to \in Threads
      <3>1. task \in SubTasks \/ task \in Threads
        BY DEF Tasks
      <3> QED BY <2>2, <2>3, <3>1 DEF QueueInv
    <2>8. ASSUME NEW t \in Threads
          PROVE  Len(message_queue'[t]) = event_fd'[t] + Cardinality(WritersTo(t)')
                                           + IF pc'[t] = "dequeue" THEN 1 ELSE 0
      <3>1. Len(message_queue[t]) = event_fd[t] + Cardinality(WritersTo(t))
                                    + IF pc[t] = "dequeue" THEN 1 ELSE 0
        BY DEF QueueInv, EventsMatchMessages
      <3>2. CASE t = task
        <4>1. WritersTo(t)' = WritersTo(t) \cup {p} /\ p \notin WritersTo(t)
          BY <1>1, <2>2, <2>3, <3>2, WhoIsWho DEF WritersTo
        <4>2. Cardinality(WritersTo(t)') = Cardinality(WritersTo(t)) + 1
          BY <4>1, QueueNumbers, FS_AddElement
        <4>3. PICK n \in Nat, e \in Nat, c \in Nat :
                 n = Len(message_queue[t]) /\ e = event_fd[t] /\ c = Cardinality(WritersTo(t))
          BY QueueNumbers
        <4>4. Len(message_queue'[t]) = n + 1
          BY <2>5, <3>2, <4>3
        <4>5. event_fd'[t] = e /\ Cardinality(WritersTo(t)') = c + 1 /\ pc'[t] = pc[t]
          BY <1>3, <4>2, <4>3
        <4>6. n = e + c + IF pc[t] = "dequeue" THEN 1 ELSE 0
          BY <3>1, <4>3
        <4> QED BY <4>4, <4>5, <4>6
      <3>3. CASE t # task
        <4>1. WritersTo(t)' = WritersTo(t)
          BY <1>1, <2>2, <2>3, <3>3 DEF WritersTo
        <4> QED BY <1>3, <2>5, <3>1, <3>3, <4>1, WhoIsWho
      <3> QED BY <3>2, <3>3
    <2> QED BY <2>6, <2>7, <2>8 DEF QueueInv, EventsMatchMessages
  <1> QED BY <1>4, <1>5

\* The event of a queued message is written: one event more, one sender fewer.
LEMMA QueueWrite ==
    ASSUME IttiTypes, QueueInv, NEW p \in Processes, WriteEvent(p)
    PROVE  QueueInv'
  <1>1. sending[p].at = "write"
    BY DEF WriteEvent
  <1>2. PICK task \in Threads : task = sending[p].to
    BY <1>1 DEF QueueInv
  <1>3. /\ event_fd' = [event_fd EXCEPT ![task] = event_fd[task] + 1]
        /\ sending' = [sending EXCEPT ![p] = NotSending] /\ UNCHANGED <<message_queue, pc>>
    BY <1>2 DEF WriteEvent
  <1>4. /\ event_fd'[task] = event_fd[task] + 1
        /\ \A t \in Threads : t # task => event_fd'[t] = event_fd[t]
    BY <1>3 DEF IttiTypes
  <1>5. sending'[p].at = "none" /\ \A q \in Processes : q # p => sending'[q] = sending[q]
    BY <1>3 DEF IttiTypes, NotSending
  <1>6. \A q \in Processes : sending'[q].at = "write" => sending'[q].to \in Threads
    BY <1>5 DEF QueueInv
  <1>7. ASSUME NEW t \in Threads
        PROVE  Len(message_queue'[t]) = event_fd'[t] + Cardinality(WritersTo(t)')
                                         + IF pc'[t] = "dequeue" THEN 1 ELSE 0
    <2>1. Len(message_queue[t]) = event_fd[t] + Cardinality(WritersTo(t))
                                  + IF pc[t] = "dequeue" THEN 1 ELSE 0
      BY DEF QueueInv, EventsMatchMessages
    <2>2. CASE t = task
      <3>1. WritersTo(t)' = WritersTo(t) \ {p} /\ p \in WritersTo(t)
        BY <1>1, <1>2, <1>5, <2>2 DEF WritersTo
      <3>2. Cardinality(WritersTo(t)') = Cardinality(WritersTo(t)) - 1
        BY <3>1, QueueNumbers, FS_RemoveElement
      <3> QED BY <1>3, <1>4, <2>1, <2>2, <3>2, QueueNumbers
    <2>3. CASE t # task
      <3>1. WritersTo(t)' = WritersTo(t)
        BY <1>1, <1>2, <1>5, <2>3 DEF WritersTo
      <3> QED BY <1>3, <1>4, <2>1, <2>3, <3>1
    <2> QED BY <2>2, <2>3
  <1> QED BY <1>3, <1>6, <1>7 DEF QueueInv, EventsMatchMessages

\* The receiver takes its event, then its message.
LEMMA QueueReceive ==
    ASSUME IttiTypes, QueueInv, NEW t \in Threads, ReadEvent(t) \/ Dequeue(t)
    PROVE  QueueInv'
  <1>1. sending' = sending /\ \A u \in Threads : WritersTo(u)' = WritersTo(u)
    BY DEF ReadEvent, Dequeue, WritersTo
  <1>2. \A u \in Threads : Len(message_queue[u]) = event_fd[u] + Cardinality(WritersTo(u))
                                                   + IF pc[u] = "dequeue" THEN 1 ELSE 0
    BY DEF QueueInv, EventsMatchMessages
  <1>3. CASE ReadEvent(t)
    <2>1. /\ pc[t] = "receiving" /\ event_fd[t] > 0 /\ message_queue' = message_queue
          /\ Go(t, "dequeue") /\ event_fd' = [event_fd EXCEPT ![t] = @ - 1]
      BY <1>3 DEF ReadEvent, At
    <2>2. event_fd'[t] = event_fd[t] - 1 /\ \A u \in Threads : u # t => event_fd'[u] = event_fd[u]
      BY <2>1 DEF IttiTypes
    <2>3. pc'[t] = "dequeue" /\ \A u \in Threads : u # t => pc'[u] = pc[u]
      BY <2>1, OthersStay, WhoIsWho
    <2>4. EventsMatchMessages'
      BY <1>1, <1>2, <2>1, <2>2, <2>3, QueueNumbers DEF EventsMatchMessages
    <2> QED BY <1>1, <2>1, <2>4 DEF QueueInv
  <1>4. CASE Dequeue(t)
    <2>1. pc[t] = "dequeue" /\ event_fd' = event_fd
      BY <1>4 DEF Dequeue, At
    <2>2. message_queue[t] # <<>>
      BY <1>2, <2>1, QueueNumbers
    <2>3. /\ message_queue' = [message_queue EXCEPT ![t] = Tail(message_queue[t])]
          /\ Go(t, "exited") \/ Go(t, "handling")
      BY <1>4, <2>2 DEF Dequeue
    <2>4. pc'[t] # "dequeue" /\ \A u \in Threads : u # t => pc'[u] = pc[u]
      BY <2>3, OthersStay, WhoIsWho
    <2>5. /\ Len(message_queue'[t]) = Len(message_queue[t]) - 1
          /\ \A task \in Tasks : task # t => message_queue'[task] = message_queue[task]
      <3>1. message_queue \in [Tasks -> Seq(Messages)] /\ t \in Tasks
        BY WhoIsWho DEF IttiTypes
      <3>2. message_queue'[t] = Tail(message_queue[t])
        BY <2>3, <3>1
      <3> QED BY <2>2, <2>3, <3>1, <3>2
    <2>6. EventsMatchMessages'
      <3> SUFFICES ASSUME NEW u \in Threads
                   PROVE  Len(message_queue'[u]) = event_fd'[u] + Cardinality(WritersTo(u)')
                                                   + IF pc'[u] = "dequeue" THEN 1 ELSE 0
        BY DEF EventsMatchMessages
      <3>1. CASE u = t
        <4>1. PICK n \in Nat, e \in Nat, c \in Nat :
                 n = Len(message_queue[t]) /\ e = event_fd[t] /\ c = Cardinality(WritersTo(t))
          BY QueueNumbers
        <4>2. n = e + c + 1
          BY <1>2, <2>1, <4>1
        <4>3. Len(message_queue'[u]) = n - 1
          BY <2>5, <3>1, <4>1
        <4>4. event_fd'[u] = e /\ Cardinality(WritersTo(u)') = c /\ pc'[u] # "dequeue"
          BY <1>1, <2>1, <2>4, <3>1, <4>1
        <4> QED BY <4>2, <4>3, <4>4
      <3>2. CASE u # t
        BY <1>1, <1>2, <2>1, <2>4, <2>5, <3>2, WhoIsWho
      <3> QED BY <3>1, <3>2
    <2>7. \A task \in Tasks : Len(message_queue'[task]) <= QUEUE_SIZE
      <3>1. Len(message_queue'[t]) <= QUEUE_SIZE
        BY <2>5, QueueNumbers, WhoIsWho, IttiAssumption DEF QueueInv
      <3> QED BY <2>5, <3>1 DEF QueueInv
    <2> QED BY <1>1, <2>6, <2>7 DEF QueueInv
  <1> QED BY <1>3, <1>4

\* QueueInv is inductive, given the ranges.
LEMMA QueueNext == IttiTypes /\ StartInv /\ QueueInv /\ [IttiNext]_ittiVars => QueueInv'
  <1> SUFFICES ASSUME IttiTypes, StartInv, QueueInv, [IttiNext]_ittiVars PROVE QueueInv'
    OBVIOUS
  <1>1. ASSUME NEW t \in Threads, CreateTask(t) PROVE QueueInv'
    <2>1. /\ task_state[t] = "NOT_CONFIGURED" /\ UNCHANGED <<message_queue, event_fd, sending>>
      BY <1>1 DEF CreateTask, queueVars
    <2>2. pc[t] = "none" /\ pc'[t] = "starting" /\ \A u \in Threads : u # t => pc'[u] = pc[u]
      BY <1>1, <2>1, WhoIsWho DEF CreateTask, IttiTypes, StartInv, StateMatchesPlace
    <2> QED BY <2>1, <2>2, QueueKept
  <1>2. ASSUME NEW t \in Threads, MarkTaskReady(t) \/ LoadReadyTasks(t) \/ StoreReadyTasks(t)
        PROVE  QueueInv'
    <2>1. PICK place \in {"ready", "counting", "holding"} :
             /\ pc[t] \in {"starting", "ready", "counting"} /\ Go(t, place)
             /\ UNCHANGED <<message_queue, event_fd, sending>>
      BY <1>2 DEF MarkTaskReady, LoadReadyTasks, StoreReadyTasks, At, queueVars
    <2>2. pc'[t] = place /\ \A u \in Threads : u # t => pc'[u] = pc[u]
      BY <2>1, OthersStay, WhoIsWho
    <2> QED BY <2>1, <2>2, QueueKept
  <1>3. ASSUME NEW p \in Processes, CheckDestination(p) PROVE QueueInv'
    <2>1. UNCHANGED <<message_queue, event_fd, pc>> /\ sending[p].at = "check"
      BY <1>3 DEF CheckDestination, queueVars
    <2>2. sending[p] \in Calls
      BY <2>1, CallOrNone
    <2>3. [sending[p] EXCEPT !.at = "enqueue"].at = "enqueue" /\ NotSending.at = "none"
      BY <2>2, CallMoves DEF NotSending
    <2>4. \/ sending' = sending \/ sending' = [sending EXCEPT ![p] = NotSending]
          \/ sending' = [sending EXCEPT ![p] = [sending[p] EXCEPT !.at = "enqueue"]]
      BY <1>3 DEF CheckDestination
    <2>5. sending'[p].at # "write" /\ \A q \in Processes : q # p => sending'[q] = sending[q]
      BY <2>1, <2>3, <2>4 DEF IttiTypes
    <2> QED BY <2>1, <2>5, QueueKept
  <1>4. ASSUME NEW p \in Processes, BroadcastNext(p) PROVE QueueInv'
    <2>1. /\ UNCHANGED <<message_queue, event_fd, pc>> /\ sending[p] = NotSending
          /\ sending' = sending \/ \E t \in visiting[p] : sending' = [sending EXCEPT ![p] = Call(t, "TERMINATE")]
      BY <1>4 DEF BroadcastNext, At, queueVars
    <2>2. visiting[p] \subseteq Tasks
      BY WhoIsWho DEF IttiTypes
    <2>3. \A t \in visiting[p] : Call(t, "TERMINATE").at = "check"
      BY <2>2, CallIsNew DEF Messages
    <2>4. sending[p].at # "write" /\ sending'[p].at # "write"
      BY <2>1, <2>3, CallOrNone DEF IttiTypes
    <2>5. \A q \in Processes : q # p => sending'[q] = sending[q]
      BY <2>1 DEF IttiTypes
    <2> QED BY <2>1, <2>4, <2>5, QueueKept
  <1>5. ASSUME NEW p \in Processes, NEW task \in Tasks, NEW place, SendMessage(p, place, task)
        PROVE  QueueInv'
    <2>1. /\ UNCHANGED <<message_queue, event_fd, pc>> /\ sending[p] = NotSending
          /\ sending' = [sending EXCEPT ![p] = Call(task, "DATA")]
      BY <1>5 DEF SendMessage, At, queueVars
    <2>2. sending[p].at # "write" /\ sending'[p].at # "write"
      BY <2>1, CallIsNew, CallOrNone DEF IttiTypes, Messages
    <2>3. \A q \in Processes : q # p => sending'[q] = sending[q]
      BY <2>1 DEF IttiTypes
    <2> QED BY <2>1, <2>2, <2>3, QueueKept
  <1>6. ASSUME NEW q \in SubTasks, PollMsg(q) PROVE QueueInv'
    <2>1. /\ UNCHANGED <<event_fd, pc, sending>> /\ message_queue[q] # <<>>
          /\ message_queue' = [message_queue EXCEPT ![q] = Tail(message_queue[q])]
      BY <1>6 DEF PollMsg
    <2>2. message_queue \in [Tasks -> Seq(Messages)] /\ q \in Tasks
      BY WhoIsWho DEF IttiTypes
    <2>3. /\ message_queue'[q] = Tail(message_queue[q])
          /\ \A task \in Tasks : task # q => message_queue'[task] = message_queue[task]
      BY <2>1, <2>2
    <2>4. Len(message_queue'[q]) <= QUEUE_SIZE
      <3>1. Len(message_queue[q]) <= QUEUE_SIZE
        BY <2>2 DEF QueueInv
      <3> QED BY <2>1, <2>2, <2>3, <3>1, IttiAssumption
    <2>5. \A t \in Threads : message_queue'[t] = message_queue[t] /\ WritersTo(t)' = WritersTo(t)
      BY <2>1, <2>3, WhoIsWho DEF WritersTo
    <2>6. EventsMatchMessages'
      BY <2>1, <2>5 DEF QueueInv, EventsMatchMessages
    <2> QED BY <2>1, <2>3, <2>4, <2>6 DEF QueueInv
  <1>7. ASSUME TryJoin PROVE QueueInv'
    <2>1. UNCHANGED <<message_queue, event_fd, sending>> /\ (pc' = pc \/ Go("main", "joining, some run"))
      BY <1>7 DEF TryJoin, queueVars
    <2>2. \A u \in Threads : pc'[u] = pc[u]
      BY <2>1, OthersStay, WhoIsWho
    <2> QED BY <2>1, <2>2, QueueKept
  <1>8. ASSUME Quiet PROVE QueueInv'
    <2>1. UNCHANGED <<message_queue, event_fd, sending>>
      BY <1>8 DEF Quiet
    <2>2. \A u \in Threads : pc'[u] = "dequeue" <=> pc[u] = "dequeue"
      BY <1>8, OthersStay, WhoIsWho DEF Quiet
    <2> QED BY <2>1, <2>2, QueueKept
  <1>9. ASSUME UNCHANGED ittiVars PROVE QueueInv'
    BY <1>9, QueueKept DEF ittiVars, queueVars
  <1>10. ASSUME CountCreatedTask PROVE QueueInv'
    <2>1. UNCHANGED <<message_queue, event_fd, sending>> /\ \A u \in Threads : pc'[u] = pc[u]
      BY <1>10, OthersStay, WhoIsWho DEF CountCreatedTask, queueVars
    <2> QED BY <2>1, QueueKept
  <1> QED BY <1>1, <1>2, <1>3, <1>4, <1>5, <1>6, <1>7, <1>8, <1>9, <1>10, StepKinds, QueueEnqueue,
             QueueWrite, QueueReceive DEF Send

-----------------------------------------------------------------------------
(* Everybody is told. *)

TellPlaces == {"terminating", "broadcasting"}
JoiningPlaces == {"joining", "joining, some run"}

\* A thread has left or is about to, or will find a TERMINATE_MESSAGE.
Told(t) == \/ pc[t] \in {"leaving", "exited"}
           \/ \E k \in DOMAIN message_queue[t] : message_queue[t][k] = "TERMINATE"
\* A broadcast is about to queue it.
Telling(p, t) == /\ sending[p].at \in {"check", "enqueue"}
                 /\ sending[p].to = t /\ sending[p].message = "TERMINATE"

\* A broadcast leaves behind it only threads that are told or that it is telling now, and the
\* one that broadcasts, which is about to leave; SIGUSR1 and the joins come after a whole
\* broadcast.
BroadcastTells ==
    \A p \in Processes : pc[p] \in TellPlaces =>
        \A t \in Threads : t = p \/ t \in visiting[p] \/ Told(t) \/ Telling(p, t)
SignalTells == "SIGUSR1" \in signals => \A t \in Threads : Told(t)
JoinTells == pc["main"] \in JoiningPlaces => \A t \in Threads : Told(t)

TellInv == BroadcastTells /\ SignalTells /\ JoinTells

\* No signal is pending and nobody broadcasts when itti_init has returned.
LEMMA TellInit == IttiInit => TellInv
  BY WhoIsWho DEF IttiInit, TellInv, BroadcastTells, SignalTells, JoinTells, TellPlaces,
                  JoiningPlaces

\* A message stays in a queue another message is appended to, and in the rest of a queue that
\* did not begin with it.
LEMMA QueueSteps ==
    ASSUME NEW q \in Seq(Messages), NEW m \in Messages, NEW k \in DOMAIN q, q[k] = "TERMINATE"
    PROVE  /\ \E j \in DOMAIN Append(q, m) : Append(q, m)[j] = "TERMINATE"
           /\ Head(q) = "TERMINATE" \/ \E j \in DOMAIN Tail(q) : Tail(q)[j] = "TERMINATE"
  <1>1. k \in 1 .. Len(q) /\ Len(q) \in Nat /\ q # <<>>
    OBVIOUS
  <1>2. \E j \in DOMAIN Append(q, m) : Append(q, m)[j] = "TERMINATE"
    <2>1. k \in DOMAIN Append(q, m) /\ Append(q, m)[k] = q[k]
      BY <1>1
    <2> QED BY <2>1
  <1>3. CASE k = 1
    BY <1>2, <1>3
  <1>4. CASE k # 1
    <2>1. Len(Tail(q)) = Len(q) - 1 /\ Tail(q) \in Seq(Messages)
      BY <1>1
    <2>2. k - 1 \in DOMAIN Tail(q)
      BY <1>1, <1>4, <2>1
    <2>3. Tail(q)[k - 1] = q[k]
      BY <1>1, <1>4, <2>1
    <2> QED BY <1>2, <2>2, <2>3
  <1> QED BY <1>3, <1>4

LeftPlaces == {"leaving", "exited"}

\* A thread that has left, or only has to exit, does nothing else.
LEMMA LeftStays ==
    ASSUME IttiTypes, StartInv, [IttiNext]_ittiVars, NEW t \in Threads, pc[t] \in LeftPlaces
    PROVE  pc'[t] \in LeftPlaces
  <1>1. ASSUME NEW u \in Threads, NEW place, Go(u, place),
               pc[u] \in LeftPlaces => place \in LeftPlaces
        PROVE  pc'[t] \in LeftPlaces
    BY <1>1, OthersStay, WhoIsWho
  <1>2. ASSUME NEW u \in Threads, CreateTask(u) PROVE pc'[t] \in LeftPlaces
    <2>1. pc[u] \notin LeftPlaces
      BY <1>2 DEF CreateTask, StartInv, StateMatchesPlace, LeftPlaces
    <2> QED BY <1>2, <2>1, WhoIsWho DEF CreateTask, IttiTypes
  <1>3. ASSUME NEW u \in Threads, \/ MarkTaskReady(u) \/ LoadReadyTasks(u) \/ StoreReadyTasks(u)
                                  \/ ReadEvent(u)
        PROVE  pc'[t] \in LeftPlaces
    BY <1>1, <1>3 DEF MarkTaskReady, LoadReadyTasks, StoreReadyTasks, ReadEvent, At, LeftPlaces
  <1>4. ASSUME NEW u \in Threads, Dequeue(u) PROVE pc'[t] \in LeftPlaces
    <2>1. pc[u] \notin LeftPlaces /\ (pc' = pc \/ Go(u, "exited") \/ Go(u, "handling"))
      BY <1>4 DEF Dequeue, At, LeftPlaces
    <2> QED BY <1>1, <2>1
  <1>5. ASSUME NEW p \in Processes, Send(p) \/ BroadcastNext(p) PROVE pc'[t] \in LeftPlaces
    BY <1>5 DEF Send, CheckDestination, Enqueue, WriteEvent, BroadcastNext
  <1>6. ASSUME NEW p, NEW place, NEW task, SendMessage(p, place, task) PROVE pc'[t] \in LeftPlaces
    BY <1>6 DEF SendMessage
  <1>7. ASSUME NEW q, PollMsg(q) PROVE pc'[t] \in LeftPlaces
    BY <1>7 DEF PollMsg
  <1>8. ASSUME NEW place, Go("main", place) PROVE pc'[t] \in LeftPlaces
    BY <1>8, OthersStay, WhoIsWho
  <1>9. ASSUME TryJoin PROVE pc'[t] \in LeftPlaces
    <2>1. pc' = pc \/ Go("main", "joining, some run")
      BY <1>9 DEF TryJoin
    <2> QED BY <1>8, <2>1
  <1>10. ASSUME Quiet PROVE pc'[t] \in LeftPlaces
    BY <1>1, <1>8, <1>10 DEF Quiet, LeftPlaces
  <1>11. ASSUME UNCHANGED ittiVars PROVE pc'[t] \in LeftPlaces
    BY <1>11 DEF ittiVars
  <1>12. ASSUME CountCreatedTask PROVE pc'[t] \in LeftPlaces
    BY <1>8, <1>12 DEF CountCreatedTask
  <1> QED BY <1>2, <1>3, <1>4, <1>5, <1>6, <1>7, <1>9, <1>10, <1>11, <1>12, StepKinds

\* The queue of a thread is changed by Enqueue, which appends, and by its own Dequeue.
LEMMA QueueOfThread ==
    ASSUME IttiTypes, IttiNext, NEW t \in Threads
    PROVE  \/ message_queue'[t] = message_queue[t]
           \/ \E m \in Messages : message_queue'[t] = Append(message_queue[t], m)
           \/ Dequeue(t)
  <1>0. message_queue \in [Tasks -> Seq(Messages)] /\ t \in Tasks
    BY WhoIsWho DEF IttiTypes
  <1>1. ASSUME NEW p \in Processes, Enqueue(p), message_queue' # message_queue
        PROVE  \/ message_queue'[t] = message_queue[t]
               \/ \E m \in Messages : message_queue'[t] = Append(message_queue[t], m)
    <2>1. sending[p] \in Calls
      BY <1>1, CallOrNone DEF Enqueue
    <2>2. PICK task \in Tasks, m \in Messages : task = sending[p].to /\ m = sending[p].message
      BY <2>1 DEF Calls
    <2>3. message_queue' = [message_queue EXCEPT ![task] = Append(message_queue[task], m)]
      BY <1>1, <2>2 DEF Enqueue
    <2>4. CASE task = t
      BY <1>0, <2>3, <2>4
    <2>5. CASE task # t
      BY <1>0, <2>3, <2>5
    <2> QED BY <2>4, <2>5
  <1>2. ASSUME NEW u \in Threads, u # t, Dequeue(u) PROVE message_queue'[t] = message_queue[t]
    <2>1. \/ message_queue' = message_queue
          \/ message_queue' = [message_queue EXCEPT ![u] = Tail(message_queue[u])]
      BY <1>2 DEF Dequeue
    <2> QED BY <1>0, <1>2, <2>1
  <1>3. ASSUME NEW s \in SubTasks, PollMsg(s) PROVE message_queue'[t] = message_queue[t]
    BY <1>0, <1>3, WhoIsWho DEF PollMsg
  <1>4. ASSUME NEW u \in Threads, \/ CreateTask(u) \/ MarkTaskReady(u) \/ LoadReadyTasks(u)
                                  \/ StoreReadyTasks(u) \/ ReadEvent(u)
        PROVE  message_queue' = message_queue
    BY <1>4 DEF CreateTask, MarkTaskReady, LoadReadyTasks, StoreReadyTasks, ReadEvent, queueVars
  <1>5. ASSUME NEW p, CheckDestination(p) \/ WriteEvent(p) \/ BroadcastNext(p)
        PROVE  message_queue' = message_queue
    BY <1>5 DEF CheckDestination, WriteEvent, BroadcastNext, queueVars
  <1>6. ASSUME NEW p, NEW place, NEW task, SendMessage(p, place, task) PROVE message_queue' = message_queue
    BY <1>6 DEF SendMessage, queueVars
  <1>7. ASSUME CountCreatedTask \/ TryJoin \/ Quiet PROVE message_queue' = message_queue
    BY <1>7 DEF CountCreatedTask, TryJoin, Quiet, queueVars
  <1> QED BY <1>1, <1>2, <1>3, <1>4, <1>5, <1>6, <1>7, StepKinds DEF Send

\* Once told, always told: the receiver of a TERMINATE_MESSAGE leaves.
LEMMA ToldStays ==
    ASSUME IttiTypes, StartInv, [IttiNext]_ittiVars, NEW t \in Threads, Told(t)
    PROVE  Told(t)'
  <1>1. CASE pc[t] \in LeftPlaces
    BY <1>1, LeftStays DEF Told, LeftPlaces
  <1>2. ASSUME NEW k \in DOMAIN message_queue[t], message_queue[t][k] = "TERMINATE" PROVE Told(t)'
    <2>0. message_queue \in [Tasks -> Seq(Messages)] /\ message_queue[t] \in Seq(Messages) /\ t \in Tasks
      BY WhoIsWho DEF IttiTypes
    <2>1. CASE message_queue'[t] = message_queue[t]
      BY <1>2, <2>1 DEF Told
    <2>2. ASSUME NEW m \in Messages, message_queue'[t] = Append(message_queue[t], m) PROVE Told(t)'
      BY <1>2, <2>0, <2>2, QueueSteps DEF Told
    <2>3. ASSUME Dequeue(t) PROVE Told(t)'
      <3>1. message_queue[t] # <<>>
        BY <1>2, <2>0
      <3>2. /\ message_queue' = [message_queue EXCEPT ![t] = Tail(message_queue[t])]
            /\ Go(t, IF Head(message_queue[t]) = "TERMINATE" THEN "exited" ELSE "handling")
        BY <2>3, <3>1 DEF Dequeue
      <3>3. message_queue'[t] = Tail(message_queue[t])
        BY <2>0, <3>2
      <3>4. CASE Head(message_queue[t]) = "TERMINATE"
        BY <3>2, <3>4, OthersStay, WhoIsWho DEF Told
      <3>5. CASE Head(message_queue[t]) # "TERMINATE"
        <4>1. \E j \in DOMAIN Tail(message_queue[t]) : Tail(message_queue[t])[j] = "TERMINATE"
          BY <1>2, <2>0, <3>5, QueueSteps DEF Messages
        <4> QED BY <3>3, <4>1 DEF Told
      <3> QED BY <3>4, <3>5
    <2>4. CASE UNCHANGED ittiVars
      BY <2>1, <2>4 DEF ittiVars, queueVars
    <2> QED BY <2>1, <2>2, <2>3, <2>4, QueueOfThread
  <1> QED BY <1>1, <1>2 DEF Told, LeftPlaces

\* Nothing that TellInv speaks of changes, but that more threads are told.
LEMMA TellKept ==
    ASSUME TellInv, \A t \in Threads : Told(t) => Told(t)',
           \A p \in Processes : pc'[p] \in TellPlaces =>
               pc[p] \in TellPlaces /\ visiting'[p] = visiting[p] /\ sending'[p] = sending[p],
           "SIGUSR1" \in signals' => "SIGUSR1" \in signals,
           pc'["main"] \in JoiningPlaces =>
               pc["main"] \in JoiningPlaces \/ \A t \in Threads : Told(t)
    PROVE  TellInv'
  <1>1. ASSUME NEW p \in Processes, pc'[p] \in TellPlaces, NEW t \in Threads
        PROVE  t = p \/ t \in visiting'[p] \/ Told(t)' \/ Telling(p, t)'
    <2>1. t = p \/ t \in visiting[p] \/ Told(t) \/ Telling(p, t)
      BY <1>1 DEF TellInv, BroadcastTells
    <2>2. Telling(p, t) => Telling(p, t)'
      BY <1>1 DEF Telling
    <2> QED BY <1>1, <2>1, <2>2
  <1>2. BroadcastTells'
    BY <1>1, Zenon DEF BroadcastTells, TellPlaces
  <1>3. SignalTells' /\ JoinTells'
    BY DEF TellInv, SignalTells, JoinTells
  <1> QED BY <1>2, <1>3 DEF TellInv

\* A step of itti_send_msg_to_task: a TERMINATE_MESSAGE is dropped only for a thread that has left.
LEMMA TellSend ==
    ASSUME IttiTypes, StartInv, TellInv, NEW p \in Processes, Send(p),
           \A t \in Threads : Told(t) => Told(t)'
    PROVE  TellInv'
  <1>1. UNCHANGED <<pc, visiting, signals>>
    BY DEF Send, CheckDestination, Enqueue, WriteEvent, signalVars
  <1>2. \A q \in Processes : q # p => sending'[q] = sending[q]
    BY DEF Send, CheckDestination, Enqueue, WriteEvent, IttiTypes
  <1>3. ASSUME NEW t \in Threads, Telling(p, t) PROVE Told(t)' \/ Telling(p, t)'
    <2>1. sending[p] \in Calls /\ sending[p].to = t /\ sending[p].message = "TERMINATE"
      BY <1>3, CallOrNone DEF Telling
    <2>2. ASSUME CheckDestination(p) PROVE Told(t)' \/ Telling(p, t)'
      <3>1. CASE task_state[t] = "ENDED"
        <4>1. pc[t] = "exited"
          BY <3>1 DEF StartInv, StateMatchesPlace
        <4> QED BY <4>1 DEF Told
      <3>2. CASE sending' = sending
        BY <1>3, <3>2 DEF Telling
      <3>3. CASE sending' = [sending EXCEPT ![p] = [sending[p] EXCEPT !.at = "enqueue"]]
        <4>1. sending'[p] = [sending[p] EXCEPT !.at = "enqueue"]
          BY <3>3 DEF IttiTypes
        <4>2. PICK c : c = [sending[p] EXCEPT !.at = "enqueue"]
          OBVIOUS
        <4>3. c.at = "enqueue" /\ c.to = t /\ c.message = "TERMINATE"
          BY <2>1, <4>2, CallMoves
        <4> QED BY <4>1, <4>2, <4>3 DEF Telling
      <3>4. TASK_GET_THREAD_ID(sending[p].to) = t
        BY <2>1, WhoIsWho
      <3> QED BY <2>2, <3>1, <3>2, <3>3, <3>4 DEF CheckDestination
    <2>3. ASSUME Enqueue(p) PROVE Told(t)' \/ Telling(p, t)'
      <3>1. CASE sending' = sending
        BY <1>3, <3>1 DEF Telling
      <3>2. CASE Len(message_queue[t]) # QUEUE_SIZE
        <4>1. message_queue' = [message_queue EXCEPT ![t] = Append(message_queue[t], "TERMINATE")]
          BY <2>1, <2>3, <3>2 DEF Enqueue
        <4>2. message_queue[t] \in Seq(Messages) /\ message_queue \in [Tasks -> Seq(Messages)] /\ t \in Tasks
          BY WhoIsWho DEF IttiTypes
        <4>3. message_queue'[t] = Append(message_queue[t], "TERMINATE")
          BY <4>1, <4>2
        <4>4. PICK n \in Nat : n = Len(message_queue[t])
          BY <4>2
        <4>5. n + 1 \in DOMAIN message_queue'[t] /\ message_queue'[t][n + 1] = "TERMINATE"
          BY <4>2, <4>3, <4>4
        <4> QED BY <4>5 DEF Told
      <3> QED BY <2>1, <2>3, <3>1, <3>2 DEF Enqueue
    <2>4. ~WriteEvent(p)
      BY <1>3 DEF Telling, WriteEvent
    <2> QED BY <2>2, <2>3, <2>4 DEF Send
  <1>4. ASSUME NEW q \in Processes, pc'[q] \in TellPlaces, NEW t \in Threads
        PROVE  t = q \/ t \in visiting'[q] \/ Told(t)' \/ Telling(q, t)'
    <2>1. t = q \/ t \in visiting[q] \/ Told(t) \/ Telling(q, t)
      BY <1>1, <1>4 DEF TellInv, BroadcastTells
    <2>2. CASE q = p
      BY <1>1, <1>3, <2>1, <2>2
    <2>3. CASE q # p
      BY <1>1, <1>2, <2>1, <2>3 DEF Telling
    <2> QED BY <2>2, <2>3
  <1>5. BroadcastTells'
    BY <1>4, Zenon DEF BroadcastTells, TellPlaces
  <1>6. SignalTells' /\ JoinTells'
    BY <1>1 DEF TellInv, SignalTells, JoinTells
  <1> QED BY <1>5, <1>6 DEF TellInv

\* itti_send_broadcast_message skips only threads that have left.
LEMMA TellBroadcast ==
    ASSUME IttiTypes, StartInv, TellInv, NEW p \in Processes, BroadcastNext(p),
           \A t \in Threads : Told(t) => Told(t)'
    PROVE  TellInv'
  <1>1. /\ pc[p] \in TellPlaces /\ sending[p] = NotSending /\ UNCHANGED <<pc, signals>>
    BY DEF BroadcastNext, At, TellPlaces, signalVars
  <1>2. PICK t \in visiting[p] :
           /\ visiting' = [visiting EXCEPT ![p] = @ \ {t}]
           /\ sending' = IF task_state[t] = "READY"
                         THEN [sending EXCEPT ![p] = Call(t, "TERMINATE")] ELSE sending
    BY DEF BroadcastNext
  <1>3. t \in Threads /\ t \in Tasks
    BY WhoIsWho DEF IttiTypes
  <1>4. /\ visiting'[p] = visiting[p] \ {t}
        /\ \A q \in Processes : q # p => visiting'[q] = visiting[q] /\ sending'[q] = sending[q]
    BY <1>2 DEF IttiTypes
  <1>5. \A u \in Threads : ~Telling(p, u)
    BY <1>1 DEF Telling, NotSending
  <1>6. Told(t)' \/ Telling(p, t)'
    <2>1. CASE task_state[t] = "READY"
      <3>1. sending'[p] = Call(t, "TERMINATE")
        BY <1>2, <2>1 DEF IttiTypes
      <3>2. PICK c : c = Call(t, "TERMINATE")
        OBVIOUS
      <3>3. c.at = "check" /\ c.to = t /\ c.message = "TERMINATE"
        BY <1>3, <3>2, CallIsNew DEF Messages
      <3> QED BY <3>1, <3>2, <3>3 DEF Telling
    <2>2. CASE task_state[t] # "READY"
      <3>1. ~wait_tasks
        BY <1>1, WhoIsWho DEF IttiTypes, ThreadPlaces, MainPlaces, StartInv, NobodyRunsEarly,
                              ReleasedPlaces, CreatePlaces, TellPlaces
      <3>2. task_state[t] = "ENDED"
        BY <1>3, <2>2, <3>1 DEF StartInv, NobodyRunsEarly, AllStarted
      <3>3. pc[t] = "exited"
        BY <1>3, <3>2 DEF StartInv, StateMatchesPlace
      <3> QED BY <1>3, <3>3 DEF Told
    <2> QED BY <2>1, <2>2
  <1>7. ASSUME NEW q \in Processes, pc'[q] \in TellPlaces, NEW u \in Threads
        PROVE  u = q \/ u \in visiting'[q] \/ Told(u)' \/ Telling(q, u)'
    <2>1. u = q \/ u \in visiting[q] \/ Told(u) \/ Telling(q, u)
      BY <1>1, <1>7 DEF TellInv, BroadcastTells
    <2>2. CASE q = p
      BY <1>4, <1>5, <1>6, <2>1, <2>2
    <2>3. CASE q # p
      BY <1>4, <2>1, <2>3 DEF Telling
    <2> QED BY <2>2, <2>3
  <1>8. BroadcastTells'
    BY <1>7, Zenon DEF BroadcastTells, TellPlaces
  <1>9. SignalTells' /\ JoinTells'
    BY <1>1 DEF TellInv, SignalTells, JoinTells
  <1> QED BY <1>8, <1>9 DEF TellInv

\* A broadcast begins: all the other threads are still to be visited.
LEMMA TellBegins ==
    ASSUME IttiTypes, TellInv, NEW p \in Processes, NEW place \in TellPlaces, Go(p, place),
           visiting' = [visiting EXCEPT ![p] = Threads \ {p}], sending' = sending,
           "SIGUSR1" \in signals' => "SIGUSR1" \in signals,
           \A t \in Threads : Told(t) => Told(t)'
    PROVE  TellInv'
  <1>1. pc'[p] = place /\ \A q \in Processes : q # p => pc'[q] = pc[q]
    BY OthersStay
  <1>2. visiting'[p] = Threads \ {p} /\ \A q \in Processes : q # p => visiting'[q] = visiting[q]
    BY DEF IttiTypes
  <1>3. ASSUME NEW q \in Processes, pc'[q] \in TellPlaces, NEW u \in Threads
        PROVE  u = q \/ u \in visiting'[q] \/ Told(u)' \/ Telling(q, u)'
    <2>1. CASE q = p
      BY <1>2, <2>1
    <2>2. CASE q # p
      <3>1. u = q \/ u \in visiting[q] \/ Told(u) \/ Telling(q, u)
        BY <1>1, <1>3, <2>2 DEF TellInv, BroadcastTells
      <3> QED BY <1>2, <2>2, <3>1 DEF Telling
    <2> QED BY <2>1, <2>2
  <1>4. BroadcastTells'
    BY <1>3, Zenon DEF BroadcastTells, TellPlaces
  <1>5. SignalTells' /\ JoinTells'
    BY <1>1, WhoIsWho DEF TellInv, SignalTells, JoinTells, TellPlaces, JoiningPlaces
  <1> QED BY <1>4, <1>5 DEF TellInv

\* A broadcast is over: it has told everybody else.
LEMMA BroadcastOver ==
    ASSUME TellInv, NEW p \in Processes, pc[p] \in TellPlaces, sending[p] = NotSending,
           visiting[p] = {}, NEW t \in Threads, t # p
    PROVE  Told(t)
  <1>1. ~Telling(p, t)
    BY DEF Telling, NotSending
  <1> QED BY <1>1 DEF TellInv, BroadcastTells

\* A process goes to a place that is not in a broadcast.
LEMMA TellGoes ==
    ASSUME IttiTypes, TellInv, \A t \in Threads : Told(t) => Told(t)',
           NEW p \in Processes, NEW place, Go(p, place), place \notin TellPlaces,
           sending' = sending, \A q \in Processes : q # p => visiting'[q] = visiting[q],
           "SIGUSR1" \in signals' => "SIGUSR1" \in signals,
           place \in JoiningPlaces => pc["main"] \in JoiningPlaces \/ \A t \in Threads : Told(t)
    PROVE  TellInv'
  <1>1. pc'[p] = place /\ \A q \in Processes : q # p => pc'[q] = pc[q]
    BY OthersStay
  <1> QED BY <1>1, TellKept, WhoIsWho

\* The steps of main.
LEMMA TellMainStep ==
    ASSUME IttiTypes, StartInv, TellInv, MainStep, \A t \in Threads : Told(t) => Told(t)'
    PROVE  TellInv'
  <1> USE WhoIsWho DEF TellPlaces, JoiningPlaces
  <1>1. ASSUME NEW t \in Threads, CreateTask(t) PROVE TellInv'
    <2>1. pc' = [[pc EXCEPT !["main"] = "thread created"] EXCEPT ![t] = "starting"]
      BY <1>1 DEF CreateTask
    <2>2. /\ pc'["main"] = "thread created" /\ pc'[t] = "starting"
          /\ \A u \in Processes : u # t /\ u # "main" => pc'[u] = pc[u]
      BY <2>1 DEF IttiTypes
    <2>3. UNCHANGED <<sending, visiting, signals>>
      BY <1>1 DEF CreateTask, signalVars
    <2> QED BY <2>2, <2>3, TellKept
  <1>2. ASSUME TaskIsReady PROVE TellInv'
    <2>1. (Go("main", "create") \/ Go("main", "wait ready")) /\ UNCHANGED <<sending, visiting, signals>>
      BY <1>2 DEF TaskIsReady, signalVars
    <2> QED BY <2>1, TellGoes
  <1>3. ASSUME ReleaseTasks PROVE TellInv'
    BY <1>3, TellGoes DEF ReleaseTasks, signalVars
  <1>4. ASSUME CompareReadyTasks PROVE TellInv'
    <2>1. UNCHANGED <<sending, visiting, signals>> /\ (Go("main", "started") \/ pc' = pc)
      BY <1>4 DEF CompareReadyTasks, signalVars
    <2> QED BY <2>1, TellGoes, TellKept
  <1>5. ASSUME WaitTasksEnd PROVE TellInv'
    BY <1>5, TellGoes DEF WaitTasksEnd
  <1>6. ASSUME HandleSigint PROVE TellInv'
    <2>1. /\ Go("main", "broadcasting") /\ signals' = signals \ {"SIGINT"} /\ sending' = sending
          /\ visiting' = [visiting EXCEPT !["main"] = Threads]
      BY <1>6 DEF HandleSigint
    <2>2. Threads \ {"main"} = Threads
      OBVIOUS
    <2> QED BY <2>1, <2>2, TellBegins
  <1>7. ASSUME BroadcastDone PROVE TellInv'
    <2>1. /\ pc["main"] = "broadcasting" /\ sending["main"] = NotSending /\ visiting["main"] = {}
          /\ Go("main", "joining") /\ UNCHANGED <<signals, sending>>
          /\ visiting' = [visiting EXCEPT !["main"] = Threads]
      BY <1>7 DEF BroadcastDone, At, signalVars
    <2>2. \A t \in Threads : Told(t)
      BY <2>1, BroadcastOver
    <2>3. \A q \in Processes : q # "main" => visiting'[q] = visiting[q]
      BY <2>1 DEF IttiTypes
    <2> QED BY <2>1, <2>2, <2>3, TellGoes
  <1>8. ASSUME HandleSigusr1 PROVE TellInv'
    <2>1. /\ "SIGUSR1" \in signals /\ Go("main", "joining") /\ signals' = signals \ {"SIGUSR1"}
          /\ sending' = sending /\ visiting' = [visiting EXCEPT !["main"] = Threads]
      BY <1>8 DEF HandleSigusr1
    <2>2. \A t \in Threads : Told(t)
      BY <2>1 DEF TellInv, SignalTells
    <2>3. \A q \in Processes : q # "main" => visiting'[q] = visiting[q]
      BY <2>1 DEF IttiTypes
    <2> QED BY <2>1, <2>2, <2>3, TellGoes
  <1>9. ASSUME TryJoin PROVE TellInv'
    <2>1. /\ pc["main"] \in JoiningPlaces /\ UNCHANGED <<signals, sending>>
          /\ pc' = pc \/ Go("main", "joining, some run")
      BY <1>9 DEF TryJoin, signalVars
    <2>2. \A q \in Processes : q # "main" => visiting'[q] = visiting[q]
      BY <1>9, ZenonT(40) DEF TryJoin, IttiTypes
    <2> QED BY <2>1, <2>2, TellGoes, TellKept
  <1>10. ASSUME JoinDone PROVE TellInv'
    <2>1. UNCHANGED <<signals, sending, visiting>> /\ (Go("main", "ended") \/ Go("main", "forced exit"))
      BY <1>10 DEF JoinDone, signalVars
    <2> QED BY <2>1, TellGoes
  <1>11. ASSUME CountCreatedTask PROVE TellInv'
    BY <1>11, TellGoes DEF CountCreatedTask, signalVars
  <1> QED BY <1>1, <1>2, <1>3, <1>4, <1>5, <1>6, <1>7, <1>8, <1>9, <1>10, <1>11, TellSend,
             TellBroadcast DEF MainStep

\* The steps of a thread; the last of its broadcast may signal main.
LEMMA TellThreadStep ==
    ASSUME IttiTypes, StartInv, TellInv, NEW t \in Threads, ThreadStep(t),
           \A u \in Threads : Told(u) => Told(u)'
    PROVE  TellInv'
  <1> USE WhoIsWho DEF TellPlaces, JoiningPlaces
  <1>1. ASSUME NEW place \in {"ready", "counting", "holding", "handling", "receiving", "dequeue",
                              "exited"},
               Go(t, place), UNCHANGED <<sending, visiting, signals>>
        PROVE  TellInv'
    BY <1>1, TellGoes
  <1>2. ASSUME MarkTaskReady(t) \/ LoadReadyTasks(t) \/ StoreReadyTasks(t) \/ Released(t)
        PROVE  TellInv'
    <2>1. /\ UNCHANGED <<sending, visiting, signals>>
          /\ \E place \in {"ready", "counting", "holding", "handling"} : Go(t, place)
      BY <1>2 DEF MarkTaskReady, LoadReadyTasks, StoreReadyTasks, Released, signalVars
    <2> QED BY <1>1, <2>1
  <1>3. ASSUME ReadEvent(t) \/ ReceiveAgain(t) PROVE TellInv'
    <2>1. /\ UNCHANGED <<sending, visiting, signals>> /\ (Go(t, "dequeue") \/ Go(t, "receiving"))
      BY <1>3 DEF ReadEvent, ReceiveAgain, signalVars
    <2> QED BY <1>1, <2>1
  <1>4. ASSUME Dequeue(t) PROVE TellInv'
    <2>1. /\ UNCHANGED <<sending, visiting, signals>>
          /\ pc' = pc \/ Go(t, "exited") \/ Go(t, "handling")
      BY <1>4 DEF Dequeue, signalVars
    <2> QED BY <1>1, <2>1, TellKept
  <1>5. ASSUME TellMain(t) PROVE TellInv'
    <2>1. /\ pc[t] = "terminating" /\ sending[t] = NotSending /\ visiting[t] = {}
          /\ Go(t, "leaving") /\ UNCHANGED <<visiting, sending>>
      BY <1>5 DEF TellMain, At
    <2>2. pc'[t] = "leaving" /\ \A q \in Processes : q # t => pc'[q] = pc[q]
      BY <2>1, OthersStay
    <2>3. \A u \in Threads : Told(u)'
      BY <2>1, <2>2, BroadcastOver DEF Told
    <2>4. ASSUME NEW q \in Processes, pc'[q] \in TellPlaces, NEW u \in Threads
          PROVE  u = q \/ u \in visiting'[q] \/ Told(u)' \/ Telling(q, u)'
      BY <2>3
    <2>5. BroadcastTells'
      BY <2>4, Zenon DEF BroadcastTells
    <2>6. SignalTells' /\ JoinTells'
      BY <2>3 DEF SignalTells, JoinTells
    <2> QED BY <2>5, <2>6 DEF TellInv
  <1>6. ASSUME ExitThread(t) PROVE TellInv'
    BY <1>1, <1>6 DEF ExitThread, signalVars
  <1> QED BY <1>2, <1>3, <1>4, <1>5, <1>6, TellSend, TellBroadcast DEF ThreadStep

\* TellInv is inductive.
LEMMA TellNext == IttiTypes /\ StartInv /\ TellInv /\ [IttiNext]_ittiVars => TellInv'
  <1> SUFFICES ASSUME IttiTypes, StartInv, TellInv, [IttiNext]_ittiVars PROVE TellInv'
    OBVIOUS
  <1>0. \A t \in Threads : Told(t) => Told(t)'
    BY ToldStays
  <1>1. ASSUME NEW t \in Terminators, TerminateTasks(t) PROVE TellInv'
    <2>1. /\ Go(t, "terminating") /\ visiting' = [visiting EXCEPT ![t] = Threads \ {t}]
          /\ UNCHANGED <<sending, signals>> /\ t \in Processes
      BY <1>1, WhoIsWho DEF TerminateTasks, signalVars
    <2> QED BY <1>0, <2>1, TellBegins DEF TellPlaces
  <1>2. ASSUME NEW p \in Processes, NEW place \in {"handling", "waiting"}, NEW task,
               SendMessage(p, place, task)
        PROVE  TellInv'
    <2>1. /\ pc[p] = place /\ UNCHANGED <<pc, visiting, signals>>
          /\ \A q \in Processes : q # p => sending'[q] = sending[q]
      BY <1>2 DEF SendMessage, At, signalVars, IttiTypes
    <2> QED BY <1>0, <2>1, TellKept DEF TellPlaces
  <1>3. ASSUME NEW s \in SubTasks, PollMsg(s) PROVE TellInv'
    BY <1>0, <1>3, TellKept DEF PollMsg, signalVars
  <1>4. ASSUME Interrupt PROVE TellInv'
    BY <1>0, <1>4, TellKept DEF Interrupt
  <1>5. ASSUME UNCHANGED ittiVars PROVE TellInv'
    BY <1>0, <1>5, TellKept DEF ittiVars, signalVars
  <1> QED BY <1>0, <1>1, <1>2, <1>3, <1>4, <1>5, TellMainStep, TellThreadStep, WhoIsWho DEF IttiNext

-----------------------------------------------------------------------------
(* The assertions. *)

NoFatal == fatal \notin {"not_ready", "no_message"}

\* Whoever sends, sends to a task that is ready or has ended.
LEMMA Destinations ==
    ASSUME IttiTypes, StartInv, NEW p \in Processes, sending[p] # NotSending
    PROVE  task_state[TASK_GET_THREAD_ID(sending[p].to)] \in {"READY", "ENDED"}
  <1>1. PICK task \in Tasks : task = sending[p].to
    BY CallOrNone DEF Calls
  <1>2. \A t \in Threads : task_state[t] \in {"READY", "ENDED"}
    BY DEF StartInv, NobodyRunsEarly, AllStarted
  <1> QED BY <1>1, <1>2, WhoIsWho

\* The two assertions are never reached.
LEMMA NoFatalNext ==
    IttiTypes /\ StartInv /\ QueueInv /\ NoFatal /\ [IttiNext]_ittiVars => NoFatal'
  <1> SUFFICES ASSUME IttiTypes, StartInv, QueueInv, NoFatal, [IttiNext]_ittiVars PROVE NoFatal'
    OBVIOUS
  <1>1. ASSUME NEW p \in Processes, CheckDestination(p) PROVE NoFatal'
    <2>1. sending[p] # NotSending
      BY <1>1, CallOrNone DEF CheckDestination
    <2> QED BY <1>1, <2>1, Destinations DEF CheckDestination, NoFatal
  <1>2. ASSUME NEW p \in Processes, Enqueue(p) \/ WriteEvent(p) \/ BroadcastNext(p) PROVE NoFatal'
    BY <1>2 DEF Enqueue, WriteEvent, BroadcastNext, NoFatal
  <1>3. ASSUME NEW t \in Threads, Dequeue(t) PROVE NoFatal'
    <2>1. pc[t] = "dequeue"
      BY <1>3 DEF Dequeue, At
    <2>2. Len(message_queue[t]) = event_fd[t] + Cardinality(WritersTo(t)) + 1
      BY <2>1 DEF QueueInv, EventsMatchMessages
    <2>3. PICK e \in Nat, c \in Nat : e = event_fd[t] /\ c = Cardinality(WritersTo(t))
      BY QueueNumbers
    <2>4. message_queue[t] # <<>>
      BY <2>2, <2>3
    <2> QED BY <1>3, <2>4 DEF Dequeue, NoFatal
  <1>4. ASSUME MainStep, ~Send("main"), ~BroadcastNext("main") PROVE NoFatal'
    BY <1>4 DEF MainStep, CreateTask, CountCreatedTask, TaskIsReady, ReleaseTasks, CompareReadyTasks, WaitTasksEnd,
       HandleSigint, BroadcastDone, HandleSigusr1, TryJoin, JoinDone, NoFatal
  <1>5. ASSUME NEW t \in Threads, ThreadStep(t), ~Dequeue(t), ~Send(t), ~BroadcastNext(t)
        PROVE  NoFatal'
    BY <1>5 DEF ThreadStep, MarkTaskReady, LoadReadyTasks, StoreReadyTasks, Released, ReadEvent,
       ReceiveAgain, TellMain, ExitThread, NoFatal
  <1>6. ASSUME NEW t, TerminateTasks(t) PROVE NoFatal'
    BY <1>6 DEF TerminateTasks, NoFatal
  <1>7. ASSUME NEW p, NEW place, NEW task, SendMessage(p, place, task) PROVE NoFatal'
    BY <1>7 DEF SendMessage, NoFatal
  <1>8. ASSUME NEW s, PollMsg(s) PROVE NoFatal'
    BY <1>8 DEF PollMsg, NoFatal
  <1>9. ASSUME Interrupt \/ UNCHANGED ittiVars PROVE NoFatal'
    BY <1>9 DEF Interrupt, ittiVars, NoFatal
  <1> QED BY <1>1, <1>2, <1>3, <1>4, <1>5, <1>6, <1>7, <1>8, <1>9, WhoIsWho DEF IttiNext, Send

-----------------------------------------------------------------------------
(* The theorems. *)

\* The inductive invariant.
IttiInv == IttiTypes /\ StartInv /\ CountInv /\ QueueInv /\ TellInv /\ NoFatal

\* The inductive invariant holds in every state.
LEMMA IttiInvHolds == IttiSpec => []IttiInv
  <1>1. IttiInit => IttiInv
    BY TypesInit, StartInit, CountInit, QueueInit, TellInit DEF IttiInv, IttiInit, NoFatal
  <1>2. IttiInv /\ [IttiNext]_ittiVars => IttiInv'
    BY TypesNext, StartNext, CountNext, QueueNext, TellNext, NoFatalNext DEF IttiInv
  <1> QED BY <1>1, <1>2, PTL DEF IttiSpec

\* The counters of the start and the event counters stay in their bounds: ready_tasks, whatever
\* increments its unprotected ++ loses, never exceeds the threads started, and no event counter
\* exceeds tasks_info[].queue_size (itti_create_task, itti_mark_task_ready, itti_send_msg_to_task).
THEOREM IttiTypeCorrect == IttiSpec => []IttiTypeOK
  <1>1. IttiInv => IttiTypeOK
    <2> SUFFICES ASSUME IttiInv PROVE IttiTypeOK
      OBVIOUS
    <2>1. IttiTypes /\ StartInv /\ CountInv /\ QueueInv
      BY DEF IttiInv
    <2>2. /\ Created \in SUBSET Threads /\ Counted \in SUBSET Created
          /\ Created = {t \in Threads : task_state[t] # "NOT_CONFIGURED"}
      BY <2>1 DEF Created, Counted, EarlyPlaces, StartInv, StateMatchesPlace
    <2>3. /\ Cardinality(Created) <= Cardinality(Threads) /\ Cardinality(Counted) <= Cardinality(Created)
          /\ Cardinality(Threads) \in Nat /\ Cardinality(Created) \in Nat /\ Cardinality(Counted) \in Nat
      BY <2>2, FiniteThreads, FS_Subset
    <2>4. created_tasks \in 0 .. Cardinality(Threads) /\ ready_tasks \in 0 .. Cardinality(Created)
      <3>1. created_tasks \in Nat /\ ready_tasks \in Nat
        BY <2>1 DEF IttiTypes
      <3>2. \/ Cardinality(Created) = created_tasks + 1 \/ Cardinality(Created) = created_tasks
        BY <2>1, Zenon DEF CountInv
      <3>3. ready_tasks <= Cardinality(Counted)
        BY <2>1, Zenon DEF CountInv
      <3>4. created_tasks <= Cardinality(Created)
        BY <2>3, <3>1, <3>2
      <3> QED BY <2>3, <3>1, <3>3, <3>4
    <2>5. ASSUME NEW t \in Threads PROVE event_fd[t] \in 0 .. QUEUE_SIZE
      <3>1. PICK n \in Nat, e \in Nat, c \in Nat :
               n = Len(message_queue[t]) /\ e = event_fd[t] /\ c = Cardinality(WritersTo(t))
        BY <2>1, QueueNumbers
      <3>2. n = e + c + IF pc[t] = "dequeue" THEN 1 ELSE 0
        BY <2>1, <3>1 DEF QueueInv, EventsMatchMessages
      <3>3. n <= QUEUE_SIZE /\ QUEUE_SIZE \in Nat
        BY <2>1, <3>1, WhoIsWho, IttiAssumption DEF QueueInv
      <3>4. e \in 0 .. QUEUE_SIZE
        BY <3>2, <3>3
      <3> QED BY <3>1, <3>4
    <2>6. event_fd \in [Threads -> 0 .. QUEUE_SIZE]
      <3>1. event_fd \in [Threads -> Nat]
        BY <2>1 DEF IttiTypes
      <3> QED BY <2>5, <3>1
    <2>7. \A p \in Processes : sending[p] = NotSending \/ sending[p].to \in Tasks
      BY <2>1, CallOrNone DEF Calls
    <2>8. \A t \in Tasks : /\ message_queue[t] \in Seq({"DATA", "TERMINATE"})
                           /\ Len(message_queue[t]) <= QUEUE_SIZE
      BY <2>1 DEF IttiTypes, QueueInv, Messages
    <2>9. /\ task_state \in [Threads -> {"NOT_CONFIGURED", "STARTING", "READY", "ENDED"}]
          /\ wait_tasks \in BOOLEAN /\ thread_handling_signals \in BOOLEAN
          /\ signals \subseteq {"SIGINT", "SIGUSR1"} /\ visiting \in [Processes -> SUBSET Threads]
      BY <2>1 DEF IttiTypes, TaskStates
    <2> QED BY <2>2, <2>4, <2>6, <2>7, <2>8, <2>9 DEF IttiTypeOK
  <1> QED BY <1>1, IttiInvHolds, PTL

\* The event counter of a task counts its queue, whatever senders stand between the enqueue and
\* the write and whoever has read its event already (itti_send_msg_to_task,
\* itti_receive_msg_internal_event_fd), for any number of senders and any queue size.
THEOREM IttiEventsMatch == IttiSpec => []EventsMatchMessages
  <1>1. IttiInv => EventsMatchMessages
    BY DEF IttiInv, QueueInv
  <1> QED BY <1>1, IttiInvHolds, PTL

\* No sender dies on a task that has not started and no receiver on an empty queue, in any
\* interleaving of the start (itti_send_msg_to_task, itti_mark_task_ready, itti_wait_ready).
THEOREM IttiSendersFindTheirTask == IttiSpec => []SendersFindTheirTask
  <1>1. IttiInv => SendersFindTheirTask
    BY Destinations DEF IttiInv, NoFatal, SendersFindTheirTask
  <1> QED BY <1>1, IttiInvHolds, PTL

\* When main joins the threads each has left, is at its pthread_exit or has a TERMINATE_MESSAGE in its queue, whoever
\* broadcast it and however many did at once (itti_terminate_tasks, itti_wait_tasks_end).
THEOREM IttiEverybodyIsTold == IttiSpec => []EverybodyIsTold
  <1>1. IttiInv => EverybodyIsTold
    BY DEF IttiInv, TellInv, JoinTells, JoiningPlaces, Told, EverybodyIsTold
  <1> QED BY <1>1, IttiInvHolds, PTL
=============================================================================

---------------------------- MODULE ThreadsProofs ----------------------------
(***************************************************************************)
(* Two proofs about the threads of the program. The deferred processing    *)
(* thread implements JobQueue, whatever jobs there are and also where the  *)
(* condition variable wakes up spuriously. And the end of the program, for *)
(* any number of remote connections: nothing is used after main has freed  *)
(* it, but by or after connections main has not waited for.                *)
(***************************************************************************)
EXTENDS DeferredProc, Program, TLAPS

-----------------------------------------------------------------------------
(* DeferredProc.                                                           *)

Waiting == {"test", "receive", "asleep", "woken"}

\* Types, but for a thread that may have read past an empty queue.
Typed ==
  /\ messages \in Seq(Job)
  /\ quit \in BOOLEAN
  /\ worker \in Waiting \cup {"run", "reset", "discard", "exited", "crashed"}
  /\ job \in Job \cup {NoJob}
  /\ main \in {"serving", "joining", "destroyed"}
  /\ added \in SUBSET Job

\* How the thread, the quit flag and the shutdown go together.
InStep ==
  /\ worker = "run" <=> job # NoJob
  /\ main = "serving" => ~quit /\ worker \in Waiting \cup {"run", "crashed"}
  /\ main = "joining" /\ worker \in Waiting \cup {"run"} => quit
  /\ worker = "exited" => messages = <<>>
  /\ main = "destroyed" => worker = "exited"

IInv == Typed /\ InStep

\* The invariant holds initially.
LEMMA InitIInv == Init => IInv
<1>1. <<>> \in Seq(Job)
  OBVIOUS
<1> QED
  BY <1>1 DEF Init, IInv, Typed, InStep, Waiting

\* Taking a message keeps the invariant.
LEMMA TakeKeepsIInv ==
  ASSUME IInv, Take, worker \in {"receive", "woken"}, UNCHANGED <<quit, main, added>>
  PROVE  IInv'
<1>1. CASE quit
  BY <1>1 DEF IInv, Typed, InStep, Take, Waiting
<1>2. CASE ~quit /\ messages # <<>>
  <2>1. /\ job' = Head(messages) /\ messages' = Tail(messages) /\ worker' = "run"
    BY <1>2 DEF Take
  <2>2. job' \in Job /\ messages' \in Seq(Job)
    BY <1>2, <2>1 DEF IInv, Typed
  <2>3. job' # NoJob
    BY <2>2, DeferredAssumption
  <2> QED
    BY <1>2, <2>1, <2>2, <2>3 DEF IInv, Typed, InStep, Waiting
<1>3. CASE ~quit /\ messages = <<>>
  BY <1>3 DEF IInv, Typed, InStep, Take, Waiting
<1> QED
  BY <1>1, <1>2, <1>3 DEF IInv, Typed

\* Every step keeps the invariant.
LEMMA StepKeepsIInv == IInv /\ [Next]_vars => IInv'
<1> SUFFICES ASSUME IInv, [Next]_vars PROVE IInv'
  OBVIOUS
<1>1. CASE TestQuit
  BY <1>1 DEF TestQuit, IInv, Typed, InStep, Waiting
<1>2. CASE Receive
  <2>1. CASE ~quit /\ messages = <<>>
    BY <1>2, <2>1 DEF Receive, Take, IInv, Typed, InStep, Waiting
  <2>2. CASE quit \/ messages # <<>>
    <3>1. Take /\ worker = "receive" /\ UNCHANGED <<quit, main, added>>
      BY <1>2, <2>2 DEF Receive
    <3> QED
      BY <3>1, TakeKeepsIInv
  <2> QED
    BY <2>1, <2>2
<1>3. CASE WakeUp
  <2>1. Take /\ worker = "woken" /\ UNCHANGED <<quit, main, added>>
    BY <1>3 DEF WakeUp
  <2> QED
    BY <2>1, TakeKeepsIInv
<1>4. CASE WakeSpuriously
  BY <1>4 DEF WakeSpuriously, IInv, Typed, InStep, Waiting
<1>5. CASE FinishJob
  BY <1>5 DEF FinishJob, IInv, Typed, InStep, Waiting
<1>6. CASE ResetQuit
  BY <1>6 DEF ResetQuit, IInv, Typed, InStep, Waiting
<1>7. CASE Discard
  BY <1>7 DEF Discard, IInv, Typed, InStep, Waiting
<1>8. ASSUME NEW j \in Job, AddJob(j) PROVE IInv'
  BY <1>8 DEF AddJob, Send, Signal, IInv, Typed, InStep, Waiting
<1>9. CASE SetQuit
  BY <1>9 DEF SetQuit, Signal, IInv, Typed, InStep, Waiting
<1>10. CASE Destroy
  BY <1>10 DEF Destroy, IInv, Typed, InStep, Waiting
<1>11. CASE UNCHANGED vars
  BY <1>11 DEF vars, IInv, Typed, InStep, Waiting
<1> QED
  BY <1>1, <1>2, <1>3, <1>4, <1>5, <1>6, <1>7, <1>8, <1>9, <1>10, <1>11
     DEF Next, Worker

\* The invariant always holds.
LEMMA Invariance == Spec => []IInv
<1> QED
  BY InitIInv, StepKeepsIInv, PTL DEF Spec

-----------------------------------------------------------------------------

\* Taking a message is the start of a job or nothing the promise shows.
LEMMA TakeRuns ==
  ASSUME IInv, Take, worker \in {"receive", "woken"}, UNCHANGED <<quit, main, added>>
  PROVE  Promise!Run \/ UNCHANGED Promise!vars
<1>1. job = NoJob
  BY DEF IInv, InStep
<1>2. CASE ~quit /\ messages # <<>>
  <2>1. main = "serving"
    BY <1>2 DEF IInv, Typed, InStep, Waiting
  <2> QED
    BY <1>1, <1>2, <2>1 DEF Promise!Run, Take
<1>3. CASE quit \/ messages = <<>>
  BY <1>3 DEF Promise!vars, Take
<1> QED
  BY <1>2, <1>3

\* Every step of the thread or of a caller is a step of the promise, or none.
LEMMA StepKeepsPromise == IInv /\ [Next]_vars => [Promise!Next]_(Promise!vars)
<1> SUFFICES ASSUME IInv, [Next]_vars PROVE Promise!Next \/ UNCHANGED Promise!vars
  OBVIOUS
<1>1. CASE TestQuit \/ WakeSpuriously \/ ResetQuit
  BY <1>1 DEF TestQuit, WakeSpuriously, ResetQuit, Promise!vars
<1>2. CASE Receive
  <2>1. CASE ~quit /\ messages = <<>>
    BY <1>2, <2>1 DEF Receive, Take, Promise!vars
  <2>2. CASE quit \/ messages # <<>>
    <3>1. Take /\ worker = "receive" /\ UNCHANGED <<quit, main, added>>
      BY <1>2, <2>2 DEF Receive
    <3> QED
      BY <3>1, TakeRuns DEF Promise!Next
  <2> QED
    BY <2>1, <2>2
<1>3. CASE WakeUp
  <2>1. Take /\ worker = "woken" /\ UNCHANGED <<quit, main, added>>
    BY <1>3 DEF WakeUp
  <2> QED
    BY <2>1, TakeRuns DEF Promise!Next
<1>4. CASE FinishJob
  <2>1. Promise!Finish
    BY <1>4 DEF FinishJob, Promise!Finish, IInv, InStep
  <2> QED
    BY <2>1 DEF Promise!Next
<1>5. CASE Discard
  <2>1. main = "joining" /\ job = NoJob
    BY <1>5 DEF Discard, IInv, Typed, InStep, Waiting
  <2>2. CASE messages # <<>>
    BY <1>5, <2>1, <2>2 DEF Discard, Promise!Drop, Promise!Next
  <2>3. CASE messages = <<>>
    BY <1>5, <2>3 DEF Discard, Promise!vars
  <2> QED
    BY <2>2, <2>3
<1>6. ASSUME NEW j \in Job, AddJob(j) PROVE Promise!Next
  <2>1. CASE main = "serving"
    <3>1. ~quit
      BY <2>1 DEF IInv, InStep
    <3>2. Promise!Submit(j)
      BY <1>6, <2>1, <3>1 DEF AddJob, Send, Promise!Submit
    <3> QED
      BY <3>2 DEF Promise!Next
  <2>2. CASE main # "serving"
    <3>1. main = "joining" /\ quit
      BY <1>6, <2>2 DEF AddJob, IInv, Typed, InStep, Waiting
    <3>2. Promise!Submit(j)
      BY <1>6, <3>1 DEF AddJob, Send, Promise!Submit
    <3> QED
      BY <3>2 DEF Promise!Next
  <2> QED
    BY <2>1, <2>2
<1>7. CASE SetQuit
  BY <1>7 DEF SetQuit, Promise!BeginClose, Promise!Next
<1>8. CASE Destroy
  <2>1. job = NoJob /\ messages = <<>>
    BY <1>8 DEF Destroy, IInv, InStep
  <2> QED
    BY <1>8, <2>1 DEF Destroy, Promise!EndClose, Promise!Next
<1>9. CASE UNCHANGED vars
  BY <1>9 DEF vars, Promise!vars
<1> QED
  BY <1>1, <1>2, <1>3, <1>4, <1>5, <1>6, <1>7, <1>8, <1>9 DEF Next, Worker

\* DeferredProc implements JobQueue: order, mutual exclusion of jobs, and no job
\* started once the shutdown began.
THEOREM ImplementsJobQueue == Spec => KeepsOrder
<1>1. Init => Promise!Init
  BY DEF Init, Promise!Init
<1> QED
  BY <1>1, StepKeepsPromise, Invariance, PTL DEF Spec, KeepsOrder, Promise!Spec

-----------------------------------------------------------------------------

\* A job is queued or run at most once, and its argument is referenced then.
Held ==
  /\ refs \in [Job -> {0, 1}]
  /\ \A i \in 1..Len(messages) :
       messages[i] \in added /\ messages[i] # job /\ refs[messages[i]] = 1
  /\ \A i, k \in 1..Len(messages) : i # k => messages[i] # messages[k]
  /\ job # NoJob => job \in added /\ refs[job] = 1
  /\ \A j \in Job \ added : refs[j] = 0

\* The first message and the others, by their places in the queue.
LEMMA SplitMessages ==
  ASSUME NEW q \in Seq(Job), q # <<>>
  PROVE  /\ 1 \in 1..Len(q) /\ Head(q) = q[1]
         /\ \A i \in 1..Len(Tail(q)) : i + 1 \in 1..Len(q) /\ Tail(q)[i] = q[i + 1]
  OBVIOUS

\* A new message comes behind the others.
LEMMA AppendMessage ==
  ASSUME NEW q \in Seq(Job), NEW j \in Job
  PROVE  \A i \in 1..Len(Append(q, j)) :
           \/ i = Len(q) + 1 /\ Append(q, j)[i] = j
           \/ i \in 1..Len(q) /\ Append(q, j)[i] = q[i]
  OBVIOUS

\* Taking a message keeps the references.
LEMMA TakeKeepsHeld ==
  ASSUME IInv, Held, Take, worker \in {"receive", "woken"}, UNCHANGED <<added, refs>>
  PROVE  Held'
<1>1. CASE ~quit /\ messages # <<>>
  <2>1. job' = Head(messages) /\ messages' = Tail(messages) /\ messages \in Seq(Job)
    BY <1>1 DEF Take, IInv, Typed
  <2>2. /\ 1 \in 1..Len(messages) /\ job' = messages[1]
        /\ \A i \in 1..Len(messages') :
             i + 1 \in 1..Len(messages) /\ messages'[i] = messages[i + 1]
    BY <1>1, <2>1, SplitMessages
  <2>3. \A i \in 1..Len(messages') : messages'[i] # job'
    BY <2>2 DEF Held
  <2>4. \A i, k \in 1..Len(messages') : i # k => messages'[i] # messages'[k]
    BY <2>2 DEF Held
  <2> QED
    BY <2>2, <2>3, <2>4 DEF Held
<1>2. CASE quit \/ messages = <<>>
  BY <1>2 DEF Take, Held
<1> QED
  BY <1>1, <1>2

\* Every step keeps the references.
LEMMA StepKeepsHeld == IInv /\ Held /\ [Next]_vars => Held'
<1> SUFFICES ASSUME IInv, Held, [Next]_vars PROVE Held'
  OBVIOUS
<1>1. CASE TestQuit \/ WakeSpuriously \/ ResetQuit \/ SetQuit
  BY <1>1 DEF TestQuit, WakeSpuriously, ResetQuit, SetQuit, Held
<1>2. CASE Receive
  <2>1. CASE ~quit /\ messages = <<>>
    BY <1>2, <2>1 DEF Receive, Take, Held
  <2>2. CASE quit \/ messages # <<>>
    <3>1. Take /\ worker = "receive" /\ UNCHANGED <<added, refs>>
      BY <1>2, <2>2 DEF Receive
    <3> QED
      BY <3>1, TakeKeepsHeld
  <2> QED
    BY <2>1, <2>2
<1>3. CASE WakeUp
  <2>1. Take /\ worker = "woken" /\ UNCHANGED <<added, refs>>
    BY <1>3 DEF WakeUp
  <2> QED
    BY <2>1, TakeKeepsHeld
<1>4. CASE FinishJob
  <2>1. job \in Job /\ job \in added /\ refs[job] = 1
    BY <1>4 DEF FinishJob, IInv, Typed, InStep, Held
  <2>2. /\ refs' = [refs EXCEPT ![job] = 0] /\ job' = NoJob
        /\ UNCHANGED <<messages, added>>
    BY <1>4, <2>1 DEF FinishJob
  <2>3. \A i \in 1..Len(messages) : messages[i] \in Job
    BY DEF IInv, Typed
  <2> QED
    BY <2>1, <2>2, <2>3, DeferredAssumption DEF Held, IInv, Typed
<1>5. CASE Discard
  <2>1. CASE messages = <<>>
    BY <1>5, <2>1 DEF Discard, Held
  <2>2. CASE messages # <<>>
    <3>1. /\ refs' = [refs EXCEPT ![Head(messages)] = @ - 1]
          /\ messages' = Tail(messages) /\ messages \in Seq(Job)
          /\ UNCHANGED <<job, added>>
      BY <1>5, <2>2 DEF Discard, IInv, Typed
    <3>2. /\ 1 \in 1..Len(messages) /\ Head(messages) = messages[1]
          /\ \A i \in 1..Len(messages') :
               i + 1 \in 1..Len(messages) /\ messages'[i] = messages[i + 1]
      BY <2>2, <3>1, SplitMessages
    <3>3. messages[1] \in Job /\ refs[messages[1]] = 1 /\ messages[1] # job
      BY <3>1, <3>2 DEF Held
    <3>4. refs' = [refs EXCEPT ![messages[1]] = 0]
      <4>1. refs[messages[1]] - 1 = 0
        BY <3>3
      <4> QED
        BY <3>1, <3>2, <4>1
    <3>5. \A i \in 1..Len(messages') :
            messages'[i] \in added /\ messages'[i] # job /\ refs'[messages'[i]] = 1
      BY <3>2, <3>3, <3>4 DEF Held, IInv, Typed
    <3>6. \A i, k \in 1..Len(messages') : i # k => messages'[i] # messages'[k]
      BY <3>2 DEF Held
    <3>7. job # NoJob => job \in added /\ refs'[job] = 1
      BY <3>3, <3>4 DEF Held, IInv, Typed
    <3>8. refs' \in [Job -> {0, 1}] /\ \A j \in Job \ added : refs'[j] = 0
      BY <3>2, <3>3, <3>4 DEF Held
    <3> QED
      BY <3>1, <3>5, <3>6, <3>7, <3>8 DEF Held
  <2> QED
    BY <2>1, <2>2
<1>6. ASSUME NEW j \in Job, AddJob(j) PROVE Held'
  <2>1. /\ j \notin added /\ refs[j] = 0 /\ added' = added \cup {j} /\ job' = job
        /\ refs' = [refs EXCEPT ![j] = 1] /\ messages \in Seq(Job)
    <3>1. j \notin added /\ refs[j] = 0
      BY <1>6 DEF AddJob, Held
    <3>2. refs[j] + 1 = 1
      BY <3>1
    <3> QED
      BY <1>6, <3>1, <3>2 DEF AddJob, IInv, Typed
  <2>2. CASE quit
    BY <1>6, <2>1, <2>2 DEF AddJob, Send, Held, IInv, Typed
  <2>3. CASE ~quit
    <3>1. messages' = Append(messages, j)
      BY <1>6, <2>3 DEF AddJob, Send
    <3>2. \A i \in 1..Len(messages') :
            \/ i = Len(messages) + 1 /\ messages'[i] = j
            \/ i \in 1..Len(messages) /\ messages'[i] = messages[i]
      BY <2>1, <3>1, AppendMessage
    <3>3. j # job
      BY <2>1, DeferredAssumption DEF Held, IInv, Typed
    <3>4. \A i, k \in 1..Len(messages') : i # k => messages'[i] # messages'[k]
      BY <2>1, <3>2 DEF Held
    <3>5. \A i \in 1..Len(messages') :
            messages'[i] \in added' /\ messages'[i] # job /\ refs'[messages'[i]] = 1
      BY <2>1, <3>2, <3>3 DEF Held, IInv, Typed
    <3> QED
      BY <2>1, <3>4, <3>5 DEF Held, IInv, Typed
  <2> QED
    BY <2>2, <2>3
<1>7. CASE Destroy
  BY <1>7 DEF Destroy, Held
<1>8. CASE UNCHANGED vars
  BY <1>8 DEF vars, Held
<1> QED
  BY <1>1, <1>2, <1>3, <1>4, <1>5, <1>6, <1>7, <1>8 DEF Next, Worker

\* The argument of every job that waits or runs is referenced, once.
THEOREM ArgumentsAreHeld == Spec => []QueuedJobsAreReferenced
<1>1. Init => Held
  BY DeferredAssumption DEF Init, Held
<1>2. Held => QueuedJobsAreReferenced
  BY DeferredAssumption DEF Held, QueuedJobsAreReferenced
<1> QED
  BY <1>1, <1>2, StepKeepsHeld, Invariance, PTL DEF Spec

\* Every variable keeps its type, a reference count 0 or 1 included.
THEOREM TypeCorrect == Spec => []TypeOK
<1>1. Init => Held
  BY DeferredAssumption DEF Init, Held
<1>2. IInv /\ Held => TypeOK
  BY DEF IInv, Typed, Waiting, Held, TypeOK
<1> QED
  BY <1>1, <1>2, StepKeepsHeld, Invariance, PTL DEF Spec

\* Only the first message leaves the queue, run or discarded.
LEMMA HeadLeaves ==
  ASSUME NEW q \in Seq(Job), q # <<>>, NEW j \in {q[i] : i \in 1..Len(q)},
         j \notin {Tail(q)[i] : i \in 1..Len(Tail(q))}
  PROVE  j = Head(q)
<1>1. PICK i \in 1..Len(q) : q[i] = j
  OBVIOUS
<1>2. CASE i = 1
  BY <1>1, <1>2, SplitMessages
<1>3. CASE i # 1
  <2>1. i - 1 \in 1..Len(Tail(q)) /\ Tail(q)[i - 1] = q[i]
    BY <1>3
  <2> QED
    BY <1>1, <2>1
<1> QED
  BY <1>2, <1>3

\* A message sent goes behind those that wait.
LEMMA SentStaysBehind ==
  ASSUME NEW q \in Seq(Job), NEW m \in Job
  PROVE  {q[i] : i \in 1..Len(q)} \subseteq {Append(q, m)[i] : i \in 1..Len(Append(q, m))}
<1> SUFFICES ASSUME NEW i \in 1..Len(q)
             PROVE  \E k \in 1..Len(Append(q, m)) : q[i] = Append(q, m)[k]
  OBVIOUS
<1>1. i \in 1..Len(Append(q, m)) /\ Append(q, m)[i] = q[i]
  OBVIOUS
<1> QED
  BY <1>1

\* No step takes a message from the queue but to run it or, dropping the
\* reference that adding it took, to discard it: nothing is left when main
\* destroys the queue.
THEOREM NothingLeavesHeld == Spec => DiscardedJobsAreReleased
<1> DEFINE Waits(q) == {q[i] : i \in 1..Len(q)}
           Step == \A j \in Job : (j \in Waits(messages) /\ j \notin Waits(messages')
                                     /\ job' # j)
                                    => refs'[j] = refs[j] - 1
<1>1. ASSUME IInv, Held, [Next]_vars PROVE [Step]_vars
  <2> SUFFICES ASSUME NEW j \in Job, j \in Waits(messages), j \notin Waits(messages'),
                      job' # j
               PROVE  refs'[j] = refs[j] - 1
    OBVIOUS
  <2>1. messages \in Seq(Job) /\ messages' # messages
    BY <1>1 DEF IInv, Typed
  <2>2. CASE TestQuit \/ WakeSpuriously \/ ResetQuit \/ SetQuit \/ FinishJob
    BY <2>1, <2>2 DEF TestQuit, WakeSpuriously, ResetQuit, SetQuit, FinishJob
  <2>3. CASE Receive \/ WakeUp
    <3>1. Take
      BY <2>1, <2>3 DEF Receive, WakeUp
    <3>2. job' = Head(messages) /\ messages' = Tail(messages) /\ messages # <<>>
      BY <2>1, <3>1 DEF Take
    <3> QED
      BY <2>1, <3>2, HeadLeaves
  <2>4. CASE Discard
    <3>1. /\ messages' = Tail(messages) /\ messages # <<>>
          /\ refs' = [refs EXCEPT ![Head(messages)] = @ - 1]
      BY <2>1, <2>4 DEF Discard
    <3>2. j = Head(messages)
      BY <2>1, <3>1, HeadLeaves
    <3> QED
      BY <3>1, <3>2, <1>1 DEF Held
  <2>5. ASSUME NEW m \in Job, AddJob(m) PROVE FALSE
    <3>1. messages' = Append(messages, m)
      BY <2>1, <2>5 DEF AddJob, Send
    <3> QED
      BY <2>1, <3>1, SentStaysBehind
  <2>6. CASE Destroy
    <3>1. messages = <<>>
      BY <1>1, <2>6 DEF Destroy, IInv, InStep
    <3> QED
      BY <2>6, <3>1 DEF Destroy
  <2>7. CASE UNCHANGED vars
    BY <2>1, <2>7 DEF vars
  <2> QED
    BY <1>1, <2>2, <2>3, <2>4, <2>5, <2>6, <2>7 DEF Next, Worker
<1>2. Init => Held
  BY DeferredAssumption DEF Init, Held
<1> QED
  BY <1>1, <1>2, StepKeepsHeld, Invariance, PTL DEF Spec, DiscardedJobsAreReleased

\* Where the condition never wakes up by itself a woken receiver finds a message
\* or the quit flag.
WokenForAReason ==
  /\ worker = "woken" => quit \/ messages # <<>>
  /\ ReceiveReturns

\* Without spurious wake-ups the thread never reads past an empty queue.
THEOREM NeverReadsPastTheEnd == SpuriousWakeups = FALSE => (Spec => []ReceiveReturns)
<1> SUFFICES ASSUME SpuriousWakeups = FALSE PROVE Spec => []ReceiveReturns
  OBVIOUS
<1>1. Init => WokenForAReason
  BY DEF Init, WokenForAReason, ReceiveReturns
<1>2. IInv /\ WokenForAReason /\ [Next]_vars => WokenForAReason'
  BY DEF IInv, Typed, InStep, Waiting, WokenForAReason, ReceiveReturns, Next, Worker,
         vars, TestQuit, Receive, WakeUp, WakeSpuriously, Take, FinishJob, ResetQuit,
         Discard, AddJob, Send, Signal, SetQuit, Destroy
<1>3. WokenForAReason => ReceiveReturns
  BY DEF WokenForAReason
<1> QED
  BY <1>1, <1>2, <1>3, Invariance, PTL DEF Spec

-----------------------------------------------------------------------------
(* Program.                                                                *)

\* Where the main thread is, in its order.
Living   == {"running", "closing", "counting", "waiting"}
Ending   == {"freeing", "stopping", "joining", "unloaded", "finished"}
Unloaded == {"unloaded", "finished"}

\* What a thread of a connection does while it is there.
Serving == {"ready", "poll", "command", "epgdata", "failed", "leaving"}

ProgramTyped ==
  /\ sync \in BOOLEAN /\ exitProgram \in BOOLEAN /\ remoteIntfExit \in BOOLEAN
  /\ exitPipe \in BOOLEAN /\ misused \in BOOLEAN
  /\ mainThread \in Living \cup Ending
  /\ network \in {"loop", "ended"} \cup Connection
  /\ input \in {"loop", "message", "ended"}
  /\ connectionsList \subseteq Connection /\ here \subseteq Connection
  /\ listeners \subseteq Connection /\ unawaited \subseteq Connection
  /\ thread \in [Connection -> {"none", "gone"} \cup Serving]
  /\ sent \in Nat /\ queue \in [Connection -> Nat]
  /\ freed \subseteq {"connections", "commands", "channel"}

\* The list holds the connections whose threads are there.
ListIsThreads == \A c \in Connection : c \in connectionsList <=> thread[c] \in Serving

\* Main frees in its order, and not before it has counted the connections.
FreedInOrder ==
  /\ "connections" \in freed => mainThread \in Ending
  /\ {"commands", "channel"} \cap freed # {} => mainThread \in Unloaded

\* In a daemon the main thread runs the network loop until that has ended.
LoopOnMain == sync /\ network # "ended" => mainThread = "running"

\* Once main has counted no connection is left but those that came after that, and
\* those that were there when its wait ended by itself.
Counted == mainThread \in Ending => connectionsList \subseteq unawaited

ProgramInv == ProgramTyped /\ ListIsThreads /\ FreedInOrder /\ LoopOnMain /\ Counted

\* Nothing has been freed when the program starts.
LEMMA InitProgramInv == ProgramInit => ProgramInv
<1> SUFFICES ASSUME ProgramInit PROVE ProgramInv
  OBVIOUS
<1> USE DEF ProgramInit, RemoteInterfaceInit, EPGChannelInit
<1>1. ProgramTyped
  BY DEF ProgramTyped, Living, Serving
<1>2. ListIsThreads
  BY DEF ListIsThreads, Serving
<1>3. FreedInOrder /\ Counted
  BY DEF FreedInOrder, Counted, Ending
<1>4. LoopOnMain
  BY DEF LoopOnMain
<1> QED
  BY <1>1, <1>2, <1>3, <1>4 DEF ProgramInv

-----------------------------------------------------------------------------

\* The main thread's steps keep the invariant.
LEMMA MainKeepsIInv ==
  ASSUME ProgramInv, sighandler \/ CommandLoopEnds \/ MainStep \/ WakeEarly
  PROVE  ProgramInv'
<1> USE DEF ProgramInv, loops, clients, epgChannel, Living, Ending, Unloaded, Serving
<1>1. CASE sighandler
  <2>1. ProgramTyped'
    BY <1>1 DEF sighandler, ProgramTyped
  <2> QED
    BY <1>1, <2>1 DEF sighandler, ListIsThreads, FreedInOrder, LoopOnMain, Counted
<1>2. CASE CommandLoopEnds
  <2>1. ProgramTyped'
    BY <1>2 DEF CommandLoopEnds, ProgramTyped
  <2>2. LoopOnMain' /\ FreedInOrder' /\ Counted'
    BY <1>2 DEF CommandLoopEnds, LoopOnMain, FreedInOrder, Counted
  <2> QED
    BY <1>2, <2>1, <2>2 DEF CommandLoopEnds, ListIsThreads
<1>3. CASE CloseServer
  <2>1. ProgramTyped'
    BY <1>3 DEF CloseServer, ProgramTyped
  <2>2. LoopOnMain' /\ FreedInOrder' /\ Counted'
    BY <1>3 DEF CloseServer, LoopOnMain, FreedInOrder, Counted
  <2> QED
    BY <1>3, <2>1, <2>2 DEF CloseServer, ListIsThreads
<1>4. CASE CountConnections
  BY <1>4 DEF CountConnections, ProgramTyped, ListIsThreads, FreedInOrder, LoopOnMain, Counted
<1>5. CASE FreeConnections \/ DispatchersStop \/ Unload \/ Finish
  <2>1. PICK at, next \in Ending, what \in SUBSET {"connections", "commands", "channel"} :
          /\ Frees(at, what, next)
          /\ {"commands", "channel"} \cap what # {} => next \in Unloaded
          /\ at \in Unloaded => next \in Unloaded
          /\ exitPipe' \in {exitPipe, TRUE}
    <3>1. /\ {"connections"} \in SUBSET {"connections", "commands", "channel"}
          /\ {"commands", "channel"} \in SUBSET {"connections", "commands", "channel"}
          /\ {} \in SUBSET {"connections", "commands", "channel"}
      OBVIOUS
    <3> QED
      BY <1>5, <3>1 DEF FreeConnections, DispatchersStop, Unload, Finish
  <2>2. ProgramTyped'
    BY <2>1, ZenonT(40) DEF Frees, ProgramTyped
  <2>3. LoopOnMain' /\ Counted'
    BY <2>1 DEF Frees, LoopOnMain, Counted
  <2>4. FreedInOrder'
    BY <2>1 DEF Frees, FreedInOrder
  <2> QED
    BY <2>1, <2>2, <2>3, <2>4 DEF Frees, ListIsThreads
<1>6. CASE WakeEarly
  BY <1>6 DEF WakeEarly, ProgramTyped, ListIsThreads, FreedInOrder, LoopOnMain, Counted
<1> QED
  BY <1>1, <1>2, <1>3, <1>4, <1>5, <1>6 DEF MainStep

\* So do those of the two loops; main does not wait for a connection added
\* after the count.
LEMMA LoopsKeepIInv ==
  ASSUME ProgramInv, \/ NetworkStep \/ EPGChannelNewEvent \/ InputStep
               \/ \E c \in Connection : RemoteInterfaceAcceptCallback(c)
  PROVE  ProgramInv'
<1> USE DEF ProgramInv, clients, epgChannel, Living, Ending, Unloaded, Serving
<1>1. ASSUME NEW c \in Connection, RemoteInterfaceAcceptCallback(c) PROVE ProgramInv'
  BY <1>1, ProgramAssumption
     DEF RemoteInterfaceAcceptCallback, ProgramTyped, ListIsThreads, FreedInOrder, LoopOnMain, Counted
<1>2. ASSUME NEW c \in Connection, AddConnection(c) PROVE ProgramInv'
  <2>1. /\ connectionsList' = connectionsList \cup {c}
        /\ thread' = [thread EXCEPT ![c] = "ready"]
        /\ mainThread \in Ending => unawaited' = unawaited \cup {c}
        /\ unawaited' \in {unawaited, unawaited \cup {c}} /\ misused' \in BOOLEAN /\ network' = "loop"
        /\ network # "ended"
        /\ UNCHANGED <<sync, mainThread, exitProgram, remoteIntfExit, exitPipe, input,
                       here, listeners, queue, sent, freed>>
    BY <1>2, ProgramAssumption DEF AddConnection
  <2> QED
    BY <2>1 DEF ProgramTyped, ListIsThreads, FreedInOrder, LoopOnMain, Counted
<1>3. CASE NetUserExit
  <2>1. (mainThread' \in Living /\ mainThread \in Living) \/ mainThread' = mainThread
    BY <1>3 DEF NetUserExit, LoopOnMain
  <2>2. ProgramTyped'
    BY <1>3, <2>1 DEF NetUserExit, ProgramTyped
  <2>3. FreedInOrder' /\ Counted'
    BY <1>3, <2>1 DEF NetUserExit, FreedInOrder, Counted
  <2>4. LoopOnMain' /\ ListIsThreads'
    BY <1>3 DEF NetUserExit, LoopOnMain, ListIsThreads
  <2> QED
    BY <2>2, <2>3, <2>4
<1>4. CASE EPGChannelNewEvent \/ InputExit
  <2>1. /\ input' \in {"message", "ended"}
        /\ UNCHANGED <<sync, mainThread, exitProgram, remoteIntfExit, exitPipe, network,
                       clients, epgChannel, freed, unawaited, misused>>
    BY <1>4 DEF EPGChannelNewEvent, InputExit
  <2>2. ProgramTyped'
    BY <2>1 DEF ProgramTyped
  <2> QED
    BY <2>1, <2>2 DEF ListIsThreads, FreedInOrder, LoopOnMain, Counted
<1>5. CASE EPGChannelSendMessage
  <2>1. sent' \in Nat /\ queue' \in [Connection -> Nat]
    BY <1>5 DEF EPGChannelSendMessage, ProgramTyped
  <2> QED
    BY <1>5, <2>1 DEF EPGChannelSendMessage, ProgramTyped, ListIsThreads, FreedInOrder,
                      LoopOnMain, Counted
<1> QED
  BY <1>1, <1>2, <1>3, <1>4, <1>5 DEF NetworkStep, InputStep

\* A thread that goes on serving stays in the list.
LEMMA ServingKeepsIInv ==
  ASSUME ProgramInv, NEW c \in Connection, NEW to \in Serving,
         thread[c] \in Serving, Goes(c, to),
         listeners' \in {listeners, listeners \cup {c}, listeners \ {c}},
         queue' \in [Connection -> Nat], misused' \in BOOLEAN,
         UNCHANGED <<elsewhere, mainThread, remoteIntfExit, connectionsList, here, sent, unawaited>>
  PROVE  ProgramInv'
<1> USE DEF ProgramInv, elsewhere, loops, Goes
<1>1. ProgramTyped'
  <2>1. thread' \in [Connection -> {"none", "gone"} \cup Serving]
    BY DEF ProgramTyped
  <2> QED
    BY <2>1 DEF ProgramTyped
<1>2. ListIsThreads'
  BY DEF ProgramTyped, ListIsThreads
<1>3. FreedInOrder' /\ Counted'
  BY DEF FreedInOrder, Counted
<1>4. LoopOnMain'
  BY DEF LoopOnMain
<1> QED
  BY <1>1, <1>2, <1>3, <1>4

\* One that leaves goes from the list, and wakes the main thread only when it is
\* the last.
LEMMA ThreadsKeepIInv ==
  ASSUME ProgramInv, NEW c \in Connection,
         ThreadStep(c) \/ ReceivesLine(c) \/ CommandEPGData(c) \/ HangUp(c)
  PROVE  ProgramInv'
<1>1. CASE HandleConnection(c) \/ PollEnds(c) \/ ReceivesLine(c)
  <2>1. PICK to \in Serving : Goes(c, to)
    BY <1>1 DEF HandleConnection, PollEnds, ReceivesLine, Serving
  <2>2. thread[c] \in Serving
    BY <1>1 DEF HandleConnection, PollEnds, ReceivesLine, Runs, Serving
  <2>3. UNCHANGED <<elsewhere, mainThread, remoteIntfExit, connectionsList, here, sent, unawaited,
                    listeners, queue, misused>>
    BY <1>1 DEF HandleConnection, PollEnds, ReceivesLine, epgChannel
  <2>4. queue \in [Connection -> Nat] /\ misused \in BOOLEAN
    BY DEF ProgramInv, ProgramTyped
  <2> QED
    BY <2>1, <2>2, <2>3, <2>4, ServingKeepsIInv
<1>2. CASE CommandExecute(c) \/ CommandEPGData(c) \/ EPGEnds(c) \/ EPGReceives(c)
  <2>1. PICK to \in Serving : Goes(c, to)
    BY <1>2 DEF CommandExecute, CommandEPGData, EPGEnds, EPGReceives, Serving
  <2>2. thread[c] \in Serving
    BY <1>2 DEF CommandExecute, CommandEPGData, EPGEnds, EPGReceives, Runs, Serving
  <2>3. UNCHANGED <<elsewhere, mainThread, remoteIntfExit, connectionsList, here, sent, unawaited>>
    BY <1>2 DEF CommandExecute, CommandEPGData, EPGEnds, EPGReceives, epgChannel
  <2>4. listeners' \in {listeners, listeners \cup {c}, listeners \ {c}}
    BY <1>2 DEF CommandExecute, CommandEPGData, EPGEnds, EPGReceives, epgChannel
  <2>5. misused' \in BOOLEAN
    <3>1. CASE CommandExecute(c)
      BY <3>1 DEF CommandExecute
    <3>2. CASE CommandEPGData(c)
      BY <3>2 DEF CommandEPGData
    <3>3. CASE EPGEnds(c)
      BY <3>3 DEF EPGEnds
    <3>4. CASE EPGReceives(c)
      BY <3>4 DEF EPGReceives, ProgramInv, ProgramTyped
    <3> QED
      BY <1>2, <3>1, <3>2, <3>3, <3>4
  <2>6. queue' \in [Connection -> Nat]
    BY <1>2 DEF CommandExecute, CommandEPGData, EPGEnds, EPGReceives, epgChannel, ProgramInv, ProgramTyped
  <2> QED
    BY <2>1, <2>2, <2>3, <2>4, <2>5, <2>6, ServingKeepsIInv
<1>3. CASE RemoveConnection(c)
  <2>1. /\ connectionsList' = connectionsList \ {c}
        /\ thread' = [thread EXCEPT ![c] = "gone"]
        /\ \/ mainThread' = mainThread
           \/ mainThread = "waiting" /\ mainThread' = "freeing" /\ connectionsList' = {}
        /\ misused' \in BOOLEAN /\ here' = here \ {c}
        /\ UNCHANGED <<sync, exitProgram, remoteIntfExit, exitPipe, network, input,
                       listeners, queue, sent, freed, unawaited>>
    BY <1>3 DEF RemoveConnection, Goes, elsewhere, loops, epgChannel
  <2> QED
    BY <2>1 DEF ProgramInv, ProgramTyped, ListIsThreads, FreedInOrder, LoopOnMain, Counted, Living,
                Ending, Unloaded, Serving
<1>4. CASE HangUp(c)
  BY <1>4 DEF HangUp, elsewhere, loops, epgChannel,
              ProgramInv, ProgramTyped, ListIsThreads, FreedInOrder, LoopOnMain, Counted
<1> QED
  BY <1>1, <1>2, <1>3, <1>4 DEF ThreadStep

\* Every step keeps the invariant.
LEMMA StepKeepsProgramInv == ProgramInv /\ [ProgramNext]_program => ProgramInv'
<1> SUFFICES ASSUME ProgramInv, [ProgramNext]_program PROVE ProgramInv'
  OBVIOUS
<1>1. CASE UNCHANGED program
  BY <1>1 DEF program, ProgramInv, ProgramTyped, ListIsThreads, FreedInOrder, LoopOnMain, Counted
<1> QED
  BY <1>1, MainKeepsIInv, LoopsKeepIInv, ThreadsKeepIInv DEF ProgramNext

-----------------------------------------------------------------------------

\* Who uses something that is freed has a connection, and if that is freed
\* already main has not waited for the connection.
LEMMA StepKeepsUse ==
  ASSUME ProgramInv, NothingFreedIsUsed, [ProgramNext]_program
  PROVE  NothingFreedIsUsed'
<1> USE DEF Living, Ending, Unloaded, Serving
<1>1. unawaited \subseteq unawaited'
  BY DEF ProgramNext, MainStep, NetworkStep, InputStep, ThreadStep, program,
         sighandler, CommandLoopEnds, CloseServer, CountConnections, WakeEarly, FreeConnections,
         DispatchersStop, Unload, Finish, Frees, AddConnection, NetUserExit,
         EPGChannelNewEvent, EPGChannelSendMessage, InputExit, HandleConnection, PollEnds,
         CommandExecute, EPGReceives, EPGEnds, RemoveConnection,
         RemoteInterfaceAcceptCallback, ReceivesLine, CommandEPGData, HangUp
<1>2. ASSUME misused', ~misused PROVE unawaited' # {}
  <2>1. ASSUME NEW c \in Connection, AddConnection(c) PROVE unawaited' # {}
    <3>1. "connections" \in freed
      BY <1>2, <2>1 DEF AddConnection
    <3>2. mainThread \in Ending
      BY <3>1 DEF ProgramInv, FreedInOrder
    <3> QED
      BY <2>1, <3>2 DEF AddConnection
  <2>2. ASSUME NEW c \in Connection,
               \/ CommandExecute(c) \/ CommandEPGData(c)
               \/ EPGEnds(c) \/ RemoveConnection(c)
        PROVE  unawaited' # {}
    <3>1. thread[c] \in Serving /\ freed # {}
      BY <1>2, <2>2 DEF CommandExecute, CommandEPGData, EPGEnds, RemoveConnection, Runs
    <3>2. c \in connectionsList /\ mainThread \in Ending
      BY <3>1 DEF ProgramInv, ProgramTyped, ListIsThreads, FreedInOrder
    <3> QED
      BY <1>1, <3>2 DEF ProgramInv, Counted
  <2>3. \/ \E c \in Connection : AddConnection(c)
        \/ \E c \in Connection : \/ CommandExecute(c) \/ CommandEPGData(c)
                                 \/ EPGEnds(c) \/ RemoveConnection(c)
    BY <1>2 DEF ProgramNext, MainStep, NetworkStep, InputStep, ThreadStep, program,
         sighandler, CommandLoopEnds, CloseServer, CountConnections, WakeEarly, FreeConnections,
         DispatchersStop, Unload, Finish, Frees, NetUserExit,
         EPGChannelNewEvent, EPGChannelSendMessage, InputExit, HandleConnection, PollEnds,
         EPGReceives, RemoteInterfaceAcceptCallback, ReceivesLine, HangUp
  <2> QED
    BY <2>1, <2>2, <2>3
<1> QED
  BY <1>1, <1>2 DEF NothingFreedIsUsed

\* The invariant always holds.
LEMMA ProgramInvariance == ProgramSpec => []ProgramInv
<1> QED
  BY InitProgramInv, StepKeepsProgramInv, PTL DEF ProgramSpec

\* However many clients are connected when the program ends, and whatever their
\* commands are doing, no thread uses the connections (remoteintf.c:272-300), the
\* commands or the EPG channel after main has freed them, but in the two cases the
\* code leaves open: a client was accepted after main had counted them, or main's
\* wait (remoteintf.c:281, in no loop) ended by itself with connections there.
THEOREM NothingIsUsedAfterwards == ProgramSpec => []NothingFreedIsUsed
<1>1. ProgramInit => NothingFreedIsUsed
  BY DEF ProgramInit, NothingFreedIsUsed
<1>2. ProgramInv /\ NothingFreedIsUsed /\ [ProgramNext]_program => NothingFreedIsUsed'
  BY StepKeepsUse
<1> QED
  BY <1>1, <1>2, ProgramInvariance, PTL DEF ProgramSpec

=============================================================================

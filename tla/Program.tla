------------------------------- MODULE Program -------------------------------
(***************************************************************************)
(* The end of the program and the threads it has to wait for: the main     *)
(* thread (main.c), the two event loops (dispatchers.c), a thread for each *)
(* connection of the remote interface (remoteintf.c) which executes its    *)
(* commands (commands.c), and the listeners of the EPG channel             *)
(* (epgchannel.c, cmd_epg.c), which the input loop sends messages to. The  *)
(* clients are external, and so is the condition main waits for, which may *)
(* wake up by itself.                                                      *)
(***************************************************************************)
EXTENDS Integers

CONSTANTS Connection,
          MaxMessages    \* bound: EPG messages ever sent

ASSUME ProgramAssumption ==
  MaxMessages \in Nat /\ "loop" \notin Connection /\ "ended" \notin Connection

VARIABLES
  sync,             \* the network loop runs on the main thread: a daemon, or no console
  mainThread,       \* where the main thread is
  exitProgram, remoteIntfExit,
  exitPipe,         \* a byte for both loops to end has been written
  network, input,   \* the loops: "loop", what they are in the middle of, "ended"
  connectionsList,
  thread,           \* where the thread of a connection is
  here,             \* clients that have not hung up
  listeners,        \* EPGChannelListeners
  queue,            \* how many messages a listener's queue holds
  sent,
  freed,            \* what main has freed
  unawaited,        \* connections main has not waited for
  misused           \* freed memory was used

program == <<sync, mainThread, exitProgram, remoteIntfExit, exitPipe, network, input,
             connectionsList, thread, here, listeners, queue, sent,
             freed, unawaited, misused>>

loops   == <<network, input>>
clients == <<connectionsList, thread, here>>
epgChannel == <<listeners, queue, sent>>

RemoteInterfaceInit ==
  /\ connectionsList = {} /\ remoteIntfExit = FALSE
  /\ thread = [c \in Connection |-> "none"] /\ here = {}

EPGChannelInit ==
  /\ listeners = {} /\ sent = 0
  /\ queue = [c \in Connection |-> 0]

ProgramInit ==
  /\ sync \in BOOLEAN /\ mainThread = "running"
  /\ exitProgram = FALSE /\ exitPipe = FALSE
  /\ network = "loop" /\ input = "loop"
  /\ RemoteInterfaceInit /\ EPGChannelInit
  /\ freed = {} /\ unawaited = {} /\ misused = FALSE

----------------------------------------------------------------------------
(* The main thread. *)

sighandler ==
  /\ mainThread = "running" /\ ~exitProgram
  /\ exitProgram' = TRUE /\ exitPipe' = TRUE
  /\ UNCHANGED <<sync, mainThread, remoteIntfExit, loops, clients, epgChannel, freed, unawaited, misused>>

\* The console's quit, or a signal, which closes its input.
CommandLoopEnds ==
  /\ mainThread = "running" /\ ~sync
  /\ mainThread' = "closing" /\ exitProgram' = TRUE
  /\ UNCHANGED <<sync, remoteIntfExit, exitPipe, loops, clients, epgChannel, freed, unawaited, misused>>

\* RemoteInterfaceDeInit: the server socket is closed,
CloseServer ==
  /\ mainThread = "closing"
  /\ mainThread' = "counting" /\ remoteIntfExit' = TRUE
  /\ UNCHANGED <<sync, exitProgram, exitPipe, loops, clients, epgChannel, freed, unawaited, misused>>

\* Mutant: main does not wait for connections.
CountNothing ==
  /\ mainThread = "counting"
  /\ mainThread' = "freeing"
  /\ UNCHANGED <<sync, exitProgram, remoteIntfExit, exitPipe, loops, clients, epgChannel,
                 freed, unawaited, misused>>

\* then those of the connections, which does not wake their threads; and main
\* waits for the last of them.
CountConnections ==
  /\ mainThread = "counting"
  /\ mainThread' = IF connectionsList = {} THEN "freeing" ELSE "waiting"
  /\ UNCHANGED <<sync, exitProgram, remoteIntfExit, exitPipe, loops, clients, epgChannel,
                 freed, unawaited, misused>>

\* It waits without a loop, and a condition may wake up by itself: main goes on
\* as if the last had left.
WakeEarly ==
  /\ mainThread = "waiting"
  /\ mainThread' = "freeing" /\ unawaited' = unawaited \cup connectionsList
  /\ UNCHANGED <<sync, exitProgram, remoteIntfExit, exitPipe, loops, clients, epgChannel,
                 freed, misused>>

Frees(at, what, next) ==
  /\ mainThread = at /\ mainThread' = next /\ freed' = freed \cup what
  /\ UNCHANGED <<sync, exitProgram, remoteIntfExit, loops, clients, epgChannel, unawaited, misused>>

FreeConnections == Frees("freeing", {"connections"}, "stopping") /\ UNCHANGED exitPipe

DispatchersStop == Frees("stopping", {}, "joining") /\ exitPipe' = TRUE

\* Both loops are joined, then the plugins, the commands and the channel go.
Unload ==
  /\ network = "ended" /\ input = "ended"
  /\ Frees("joining", {"commands", "channel"}, "unloaded")
  /\ UNCHANGED exitPipe

Finish == Frees("unloaded", {}, "finished") /\ UNCHANGED exitPipe

----------------------------------------------------------------------------
(* The network loop. *)

RemoteInterfaceAcceptCallback(c) ==
  /\ network = "loop" /\ mainThread # "finished" /\ ~remoteIntfExit
  /\ thread[c] = "none"
  /\ network' = c /\ here' = here \cup {c}
  /\ UNCHANGED <<sync, mainThread, exitProgram, remoteIntfExit, exitPipe, input,
                 connectionsList, thread, epgChannel, freed, unawaited, misused>>

AddConnection(c) ==
  /\ network = c /\ ~misused
  /\ network' = "loop"
  /\ connectionsList' = connectionsList \cup {c}
  /\ thread' = [thread EXCEPT ![c] = "ready"]
  /\ unawaited' = IF mainThread \in {"running", "closing", "counting", "waiting"} THEN unawaited
             ELSE unawaited \cup {c}
  /\ misused' = ("connections" \in freed)
  /\ UNCHANGED <<sync, mainThread, exitProgram, remoteIntfExit, exitPipe, input, here,
                 epgChannel, freed>>

\* Nobody reads the byte, so that it ends both loops. Without a console the
\* main thread goes on from here.
NetUserExit ==
  /\ network = "loop" /\ exitPipe
  /\ network' = "ended"
  /\ mainThread' = IF sync THEN "closing" ELSE mainThread
  /\ UNCHANGED <<sync, exitProgram, remoteIntfExit, exitPipe, input, clients,
                 epgChannel, freed, unawaited, misused>>

----------------------------------------------------------------------------
(* The thread of a connection. *)

Runs(c, at) == thread[c] = at /\ mainThread # "finished" /\ ~misused

Goes(c, to) == thread' = [thread EXCEPT ![c] = to]

elsewhere == <<sync, exitProgram, exitPipe, loops, freed>>

HandleConnection(c) ==
  /\ Runs(c, "ready")
  /\ Goes(c, IF remoteIntfExit THEN "leaving" ELSE "poll")
  /\ UNCHANGED <<elsewhere, mainThread, remoteIntfExit, connectionsList, here, epgChannel, unawaited, misused>>

\* Nothing has come for thirty seconds, or the client has closed.
PollEnds(c) ==
  /\ Runs(c, "poll")
  /\ Goes(c, "leaving")
  /\ UNCHANGED <<elsewhere, mainThread, remoteIntfExit, connectionsList, here, epgChannel, unawaited, misused>>

ReceivesLine(c) ==
  /\ Runs(c, "poll") /\ c \in here
  /\ mainThread \in {"running", "closing", "counting"}
  /\ Goes(c, "command")
  /\ UNCHANGED <<elsewhere, mainThread, remoteIntfExit, connectionsList, here, epgChannel, unawaited, misused>>

\* A command is looked up and executed; logging out is one.
CommandExecute(c) ==
  /\ Runs(c, "command")
  /\ \E to \in {"ready", "leaving"} : Goes(c, to)
  /\ misused' = ("commands" \in freed)
  /\ UNCHANGED <<elsewhere, mainThread, remoteIntfExit, connectionsList, here, epgChannel, unawaited>>

CommandEPGData(c) ==
  /\ Runs(c, "command")
  /\ Goes(c, "epgdata")
  /\ listeners' = listeners \cup {c}
  /\ queue' = [queue EXCEPT ![c] = 0]
  /\ misused' = (freed \cap {"commands", "channel"} # {})
  /\ UNCHANGED <<elsewhere, mainThread, remoteIntfExit, connectionsList, here, sent, unawaited>>

\* What is written to a client that has gone is an error at once.
EPGReceives(c) ==
  /\ Runs(c, "epgdata") /\ queue[c] > 0
  /\ queue' = [queue EXCEPT ![c] = @ - 1]
  /\ Goes(c, IF c \in here THEN "epgdata" ELSE "failed")
  /\ UNCHANGED <<elsewhere, mainThread, remoteIntfExit, connectionsList, here, listeners,
                 sent, unawaited, misused>>

EPGEnds(c) ==
  /\ Runs(c, "failed") \/ (Runs(c, "epgdata") /\ exitProgram)
  /\ Goes(c, "ready")
  /\ listeners' = listeners \ {c}
  /\ queue' = [queue EXCEPT ![c] = 0]
  /\ misused' = ("channel" \in freed)
  /\ UNCHANGED <<elsewhere, mainThread, remoteIntfExit, connectionsList, here, sent, unawaited>>

\* Mutant: whether it is the last is asked before it is removed.
RemoveConnectionAfterwards(c) ==
  /\ Runs(c, "leaving")
  /\ Goes(c, "gone") /\ here' = here \ {c}
  /\ connectionsList' = connectionsList \ {c}
  /\ mainThread' = IF mainThread = "waiting" /\ connectionsList = {} /\ remoteIntfExit
             THEN "freeing" ELSE mainThread
  /\ misused' = ("connections" \in freed)
  /\ UNCHANGED <<elsewhere, remoteIntfExit, epgChannel, unawaited>>

\* The last to leave tells main, if it waits.
RemoveConnection(c) ==
  /\ Runs(c, "leaving")
  /\ Goes(c, "gone") /\ here' = here \ {c}
  /\ connectionsList' = connectionsList \ {c}
  /\ mainThread' = IF mainThread = "waiting" /\ connectionsList' = {} /\ remoteIntfExit
             THEN "freeing" ELSE mainThread
  /\ misused' = ("connections" \in freed)
  /\ UNCHANGED <<elsewhere, remoteIntfExit, epgChannel, unawaited>>

HangUp(c) ==
  /\ c \in here /\ mainThread # "finished"
  /\ here' = here \ {c}
  /\ UNCHANGED <<elsewhere, mainThread, remoteIntfExit, connectionsList, thread, epgChannel, unawaited, misused>>

----------------------------------------------------------------------------
(* The input loop, which makes the EPG messages. *)

EPGChannelNewEvent ==
  /\ input = "loop" /\ listeners # {} /\ sent < MaxMessages
  /\ input' = "message"
  /\ UNCHANGED <<sync, mainThread, exitProgram, remoteIntfExit, exitPipe, network, clients,
                 epgChannel, freed, unawaited, misused>>

\* To all who listen by now.
EPGChannelSendMessage ==
  /\ input = "message"
  /\ input' = "loop" /\ sent' = sent + 1
  /\ queue' = [c \in Connection |-> queue[c] + IF c \in listeners THEN 1 ELSE 0]
  /\ UNCHANGED <<sync, mainThread, exitProgram, remoteIntfExit, exitPipe, network, clients,
                 listeners, freed, unawaited, misused>>

InputExit ==
  /\ input = "loop" /\ exitPipe
  /\ input' = "ended"
  /\ UNCHANGED <<sync, mainThread, exitProgram, remoteIntfExit, exitPipe, network, clients,
                 epgChannel, freed, unawaited, misused>>

----------------------------------------------------------------------------

MainStep == \/ CloseServer \/ CountConnections \/ FreeConnections
            \/ DispatchersStop \/ Unload \/ Finish

NetworkStep == (\E c \in Connection : AddConnection(c)) \/ NetUserExit

InputStep == EPGChannelSendMessage \/ InputExit

ThreadStep(c) ==
  \/ HandleConnection(c) \/ PollEnds(c) \/ CommandExecute(c)
  \/ EPGReceives(c) \/ EPGEnds(c) \/ RemoveConnection(c)

ProgramNext ==
  \/ sighandler \/ CommandLoopEnds \/ MainStep \/ WakeEarly \/ NetworkStep
  \/ EPGChannelNewEvent \/ InputStep
  \/ \E c \in Connection : \/ ThreadStep(c) \/ RemoteInterfaceAcceptCallback(c)
                           \/ ReceivesLine(c) \/ CommandEPGData(c) \/ HangUp(c)

\* Threads get their turn, commands return, a poll ends after thirty seconds at
\* the latest, and a console whose input a signal has closed reads nothing more.
ProgramFairness ==
  /\ WF_program(MainStep) /\ WF_program(NetworkStep) /\ WF_program(InputStep)
  /\ WF_program(CommandLoopEnds /\ exitProgram)
  /\ \A c \in Connection : WF_program(ThreadStep(c))

ProgramSpec == ProgramInit /\ [][ProgramNext]_program /\ ProgramFairness

----------------------------------------------------------------------------

\* A program that is told to end does, whatever its connections are doing; the
\* last of them wakes the main thread, which waits without looking again.
ProgramEnds == exitProgram ~> (mainThread = "finished" \/ misused)

\* No thread uses what the main thread has freed, neither the connections nor
\* the commands or the EPG channel. Two cases are excepted, which the code does
\* not exclude: a client was accepted while the console was quitting and main
\* had counted already; or main's wait for the last connection, which is not in a
\* loop, ended by itself while some were there.
NothingFreedIsUsed == misused => unawaited # {}

=============================================================================

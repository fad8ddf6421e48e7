----------------------------- MODULE ServerLoop -----------------------------
(***************************************************************************)
(* The command loop of MeqServer and its debugger: MeqServer::run,         *)
(* executeCommand and runExecutionThread, the stop flag and the breakpoints*)
(* of Forest, and Node::setExecState, where they are met.  The main thread *)
(* takes commands from the control channel.  It queues the synchronous     *)
(* ones for the execution thread and executes the others itself, while the *)
(* execution thread and the helpers of the brigade evaluate nodes and stop *)
(* at breakpoints.                                                         *)
(*                                                                         *)
(* A thread stands for the node it evaluates: the root for the execution   *)
(* thread, a child of the root for each helper.  A node goes through its   *)
(* execution states in order, with one call of setExecState for each.      *)
(***************************************************************************)
EXTENDS Naturals, Sequences

CONSTANTS
    Exec,       \* the execution thread, and the root that it evaluates
    Helpers,    \* the brigade's other threads, and the children they evaluate
    Main,       \* the main thread
    Nobody,     \* no node, no thread
    NKinds,     \* bound: the execution states that a node goes through
    NCommands,  \* bound: the synchronous commands
    Masks       \* the breakpoint masks that the user sets and clears

Threads == {Exec} \cup Helpers

Kinds == 1 .. NKinds

ASSUME ThreadAssumption ==
    /\ Exec \notin Helpers
    /\ Main \notin Threads
    /\ Nobody \notin Threads \cup {Main}

ASSUME BoundAssumption ==
    /\ NKinds \in Nat \ {0}
    /\ NCommands \in Nat
    /\ Masks \subseteq SUBSET Kinds

VARIABLES
    running,          \* running_
    queue,            \* exec_queue_
    accepted,         \* synchronous commands taken so far
    answered,         \* the last of them that was replied to
    mpc,              \* where the main thread is
    cmd,              \* the debugging command it executes, until it is marked
    pc,               \* where each evaluating thread is
    kind,             \* the execution state each of them is about to enter
    ordered,          \* children whose order is queued in the brigade
    atNode,           \* threads that met a breakpoint of their own node
    stopFlag,         \* stop_flag_
    stopLock,         \* who holds stopFlagCond() from one step to the next
    clearStop,        \* clear_stop_flag_
    debugNext,        \* debug_next_node
    debugNode,        \* debug_bp_node
    abortFlag,        \* abort_flag_
    breakpoints,      \* breakpoints of the forest
    breakpointsSS,    \* single-shot breakpoints of the forest
    forestBreakpoint, \* forest_breakpoint_
    nodeSS            \* nodes with single-shot breakpoints of their own

server == <<running, queue, accepted, answered>>

command == <<mpc, cmd>>

evaluation == <<pc, kind, ordered, atNode>>

debugger == <<stopFlag, stopLock, clearStop, debugNext, debugNode>>

breaks == <<breakpoints, breakpointsSS, forestBreakpoint, nodeSS>>

vars == <<server, command, evaluation, debugger, abortFlag, breaks>>

Resuming == {"Continue", "Step", "Next", "Until", "Abort"}

MainPlaces == {"idle", "testing", "editing", "marking", "ending", "clearing",
               "replying", "signalling", "joining", "exited"}

(* Where the execution thread is while its entry heads the queue. *)
Executing == {"starting", "testing", "shooting", "hit", "stopped", "late",
              "polling", "ending", "clearing", "replying", "popping"}

(* The types of the variables; the queue holds commands that were taken,   *)
(* and only the execution thread and the main thread keep stopFlagCond()   *)
(* locked from one step to the next.                                       *)
TypeOK ==
    /\ running \in BOOLEAN
    /\ queue \in Seq(1 .. NCommands)
    /\ accepted \in 0 .. NCommands
    /\ answered \in 0 .. NCommands
    /\ mpc \in MainPlaces
    /\ cmd \in Resuming \cup {"Interrupt", "None"}
    /\ pc \in [Threads -> Executing \cup {"waiting", "looking", "gone", "free"}]
    /\ kind \in [Threads -> Kinds]
    /\ ordered \subseteq Helpers
    /\ atNode \subseteq Threads
    /\ stopFlag \in BOOLEAN
    /\ stopLock \in {Exec, Main, Nobody}
    /\ clearStop \in BOOLEAN
    /\ debugNext \in Threads \cup {Nobody}
    /\ debugNode \in Threads \cup {Nobody}
    /\ abortFlag \in BOOLEAN
    /\ breakpoints \subseteq Kinds
    /\ breakpointsSS \subseteq Kinds
    /\ forestBreakpoint \subseteq Kinds
    /\ nodeSS \subseteq Threads

Init ==
    /\ running = TRUE
    /\ queue = <<>>
    /\ accepted = 0
    /\ answered = 0
    /\ mpc = "idle"
    /\ cmd = "None"
    /\ pc = [t \in Threads |-> IF t = Exec THEN "looking" ELSE "free"]
    /\ kind = [t \in Threads |-> 1]
    /\ ordered = {}
    /\ atNode = {}
    /\ stopFlag = FALSE
    /\ stopLock = Nobody
    /\ clearStop = FALSE
    /\ debugNext = Nobody
    /\ debugNode = Nobody
    /\ abortFlag = FALSE
    /\ breakpoints = {}
    /\ breakpointsSS = {}
    /\ forestBreakpoint = {}
    /\ nodeSS = {}

-----------------------------------------------------------------------------
(* The main thread: MeqServer::run and executeCommand. *)

(* A signal of exec_cond_ ends the wait of the execution thread. *)
WakeExec ==
    pc' = IF pc[Exec] = "waiting" THEN [pc EXCEPT ![Exec] = "looking"] ELSE pc

(* A synchronous command that does not signal the execution thread. *)
PushQuietly ==
    /\ mpc = "idle" /\ running
    /\ accepted < NCommands
    /\ accepted' = accepted + 1
    /\ queue' = Append(queue, accepted')
    /\ UNCHANGED <<running, answered, command, evaluation, debugger, abortFlag,
                   breaks>>

(* A synchronous command goes to the queue. *)
Push ==
    /\ mpc = "idle" /\ running
    /\ accepted < NCommands
    /\ accepted' = accepted + 1
    /\ queue' = Append(queue, accepted')
    /\ WakeExec
    /\ UNCHANGED <<running, answered, command, kind, ordered, atNode, debugger,
                   abortFlag, breaks>>

(* A debugging command begins; executeAbort raises the abort flag first. *)
Take(c) ==
    /\ mpc = "idle" /\ running
    /\ mpc' = "testing"
    /\ cmd' = c
    /\ abortFlag' = (abortFlag \/ c = "Abort")
    /\ UNCHANGED <<server, evaluation, debugger, breaks>>

(* debugUntilNode sets a breakpoint in the node first, under the mutex of  *)
(* its state, which setExecState holds until the node stops.               *)
TakeUntil(n) ==
    /\ mpc = "idle" /\ running
    /\ pc[n] \notin {"testing", "shooting", "late"}
    /\ mpc' = "testing"
    /\ cmd' = "Until"
    /\ nodeSS' = nodeSS \cup {n}
    /\ UNCHANGED <<server, evaluation, debugger, abortFlag, breakpoints,
                   breakpointsSS, forestBreakpoint>>

(* The user's own breakpoints of the forest. *)
SetForestBreakpoint(mask) ==
    /\ mpc = "idle" /\ running
    /\ breakpoints' = breakpoints \cup mask
    /\ forestBreakpoint' = forestBreakpoint \cup mask
    /\ UNCHANGED <<server, command, evaluation, debugger, abortFlag,
                   breakpointsSS, nodeSS>>

ClearForestBreakpoint(mask) ==
    /\ mpc = "idle" /\ running
    /\ breakpoints' = breakpoints \ mask
    /\ forestBreakpoint' = forestBreakpoint \ mask
    /\ UNCHANGED <<server, command, evaluation, debugger, abortFlag,
                   breakpointsSS, nodeSS>>

(* Every debugging command asks first whether the stop flag is raised: an  *)
(* interrupt goes on if it is not, the others if it is.                    *)
Test ==
    /\ mpc = "testing"
    /\ \/ /\ stopFlag = (cmd # "Interrupt")
          /\ mpc' = "editing"
          /\ UNCHANGED cmd
       \/ /\ stopFlag # (cmd # "Interrupt")
          /\ mpc' = "idle"
          /\ cmd' = "None"
    /\ UNCHANGED <<server, evaluation, debugger, abortFlag, breaks>>

(* Then it changes the breakpoints of the forest. *)
Edit ==
    /\ mpc = "editing"
    /\ \/ /\ cmd = "Interrupt"
          /\ mpc' = "idle"
          /\ cmd' = "None"
       \/ /\ cmd # "Interrupt"
          /\ mpc' = "marking"
          /\ UNCHANGED cmd
    /\ \/ /\ cmd \in {"Interrupt", "Step"}
          /\ breakpointsSS' = Kinds
          /\ UNCHANGED breakpoints
       \/ /\ cmd = "Next"
          /\ breakpoints' = Kinds
          /\ UNCHANGED breakpointsSS
       \/ /\ cmd \in {"Continue", "Until", "Abort"}
          /\ breakpoints' = breakpoints \cap forestBreakpoint
          /\ breakpointsSS' = {}
    /\ UNCHANGED <<server, evaluation, debugger, abortFlag,
                   forestBreakpoint, nodeSS>>

(* And asks for the flag to be cleared at the end of the command. *)
Mark ==
    /\ mpc = "marking"
    /\ mpc' = "ending"
    /\ clearStop' = TRUE
    /\ debugNext' = IF cmd = "Next" THEN debugNode ELSE Nobody
    /\ debugNode' = IF cmd = "Next" THEN debugNode ELSE Nobody
    /\ cmd' = "None"
    /\ UNCHANGED <<server, evaluation, stopFlag, stopLock,
                   abortFlag, breaks>>

(* execCommandEntry goes on: it tests clear_stop_flag_ without a lock. *)
MainEnds ==
    /\ mpc = "ending"
    /\ mpc' = IF clearStop THEN "clearing" ELSE "replying"
    /\ UNCHANGED <<server, cmd, evaluation, debugger, abortFlag, breaks>>

(* The flag is cleared under a lock that is released at once. *)
ClearsAndReleases(t) ==
    /\ stopLock = Nobody
    /\ stopLock' = Nobody
    /\ stopFlag' = FALSE
    /\ clearStop' = FALSE
    /\ UNCHANGED <<debugNext, debugNode>>

(* The flag is cleared under stopFlagCond(), which is kept for the reply. *)
Clears(t) ==
    /\ stopLock = Nobody
    /\ stopLock' = t
    /\ stopFlag' = FALSE
    /\ clearStop' = FALSE
    /\ UNCHANGED <<debugNext, debugNode>>

(* The reply is posted; then the lock is released, if it is held. *)
Replies(t) ==
    /\ stopLock' = IF stopLock = t THEN Nobody ELSE stopLock
    /\ UNCHANGED <<stopFlag, clearStop, debugNext, debugNode>>

MainClears ==
    /\ mpc = "clearing"
    /\ mpc' = "replying"
    /\ Clears(Main)
    /\ UNCHANGED <<server, cmd, evaluation, abortFlag, breaks>>

MainReplies ==
    /\ mpc = "replying"
    /\ mpc' = "idle"
    /\ Replies(Main)
    /\ UNCHANGED <<server, cmd, evaluation, abortFlag, breaks>>

(* The command Halt, or the end of the control channel, clears running_    *)
(* without the lock of the queue; the event Halt takes the lock and        *)
(* signals.                                                                *)
Halt ==
    /\ mpc = "idle" /\ running
    /\ running' = FALSE
    /\ mpc' = "signalling"
    /\ WakeExec \/ UNCHANGED pc
    /\ UNCHANGED <<queue, accepted, answered, cmd, kind, ordered, atNode,
                   debugger, abortFlag, breaks>>

(* The loop is left without a signal. *)
SignalNobody ==
    /\ mpc = "signalling"
    /\ mpc' = "joining"
    /\ UNCHANGED <<server, cmd, evaluation, debugger, abortFlag, breaks>>

(* The loop is left: the execution thread is signalled, then joined. *)
Signal ==
    /\ mpc = "signalling"
    /\ mpc' = "joining"
    /\ WakeExec
    /\ UNCHANGED <<server, cmd, kind, ordered, atNode, debugger, abortFlag,
                   breaks>>

Exit ==
    /\ mpc = "joining"
    /\ pc[Exec] = "gone"
    /\ mpc' = "exited"
    /\ UNCHANGED <<server, cmd, evaluation, debugger, abortFlag, breaks>>

-----------------------------------------------------------------------------
(* The execution thread: runExecutionThread. *)

Look ==
    /\ pc[Exec] = "looking"
    /\ pc' = [pc EXCEPT ![Exec] = IF ~running THEN "gone"
                                  ELSE IF queue = <<>> THEN "waiting"
                                  ELSE "starting"]
    /\ UNCHANGED <<server, command, kind, ordered, atNode, debugger, abortFlag,
                   breaks>>

(* nodeExecute clears the abort flag and executes the root. *)
Start ==
    /\ pc[Exec] = "starting"
    /\ pc' = [pc EXCEPT ![Exec] = "testing"]
    /\ abortFlag' = FALSE
    /\ UNCHANGED <<server, command, kind, ordered, atNode, debugger, breaks>>

(* The poll of the children ends when all are done.                        *)
EndPoll ==
    /\ pc[Exec] = "polling"
    /\ ordered = {} /\ \A h \in Helpers : pc[h] = "free"
    /\ pc' = [pc EXCEPT ![Exec] = "testing"]
    /\ UNCHANGED <<server, command, kind, ordered, atNode, debugger, abortFlag,
                   breaks>>

(* Under an abort it may end sooner: the polling thread executes a child   *)
(* itself, which aborts; it takes the other orders back and does not wait  *)
(* for the children that have begun.                                       *)
AbandonPoll ==
    /\ pc[Exec] = "polling" /\ abortFlag
    /\ ordered' = {}
    /\ pc' = [pc EXCEPT ![Exec] = "testing"]
    /\ UNCHANGED <<server, command, kind, atNode, debugger, abortFlag, breaks>>

(* A helper takes the order of its child. *)
HelperStarts(h) ==
    /\ pc[h] = "free" /\ h \in ordered
    /\ ordered' = ordered \ {h}
    /\ pc' = [pc EXCEPT ![h] = "testing"]
    /\ UNCHANGED <<server, command, kind, atNode, debugger, abortFlag, breaks>>

(* execCommandEntry goes on after the execution.  It clears the stop flag  *)
(* if clear_stop_flag_ is set, whichever command has set it.               *)
ExecMustClear ==
    /\ pc[Exec] = "ending" /\ clearStop
    /\ pc' = [pc EXCEPT ![Exec] = "clearing"]
    /\ UNCHANGED <<server, command, kind, ordered, atNode, debugger, abortFlag,
                   breaks>>

ExecAnswers ==
    /\ pc[Exec] = "ending" /\ ~clearStop
    /\ pc' = [pc EXCEPT ![Exec] = "popping"]
    /\ answered' = Head(queue)
    /\ UNCHANGED <<running, queue, accepted, command, kind, ordered, atNode,
                   debugger, abortFlag, breaks>>

ExecClears ==
    /\ pc[Exec] = "clearing"
    /\ pc' = [pc EXCEPT ![Exec] = "replying"]
    /\ Clears(Exec)
    /\ UNCHANGED <<server, command, kind, ordered, atNode, abortFlag, breaks>>

ExecReplies ==
    /\ pc[Exec] = "replying"
    /\ pc' = [pc EXCEPT ![Exec] = "popping"]
    /\ answered' = Head(queue)
    /\ Replies(Exec)
    /\ UNCHANGED <<running, queue, accepted, command, kind, ordered, atNode,
                   abortFlag, breaks>>

(* The entry has headed the queue until here. *)
Pop ==
    /\ pc[Exec] = "popping"
    /\ pc' = [pc EXCEPT ![Exec] = "looking"]
    /\ queue' = Tail(queue)
    /\ UNCHANGED <<running, accepted, answered, command, kind, ordered, atNode,
                   debugger, abortFlag, breaks>>

-----------------------------------------------------------------------------
(* The evaluating threads: Node::setExecState. *)

(* A node that goes one state too far. *)
PassTooFar(t) ==
    /\ kind' = [kind EXCEPT ![t] = IF @ > NKinds THEN 1 ELSE @ + 1]
    /\ pc' = [pc EXCEPT ![t] =
                IF kind[t] > NKinds THEN IF t = Exec THEN "ending" ELSE "free"
                ELSE IF t = Exec /\ kind[t] = 1 THEN "polling" ELSE "testing"]
    /\ ordered' = IF t = Exec /\ kind[t] = 1 THEN Helpers ELSE ordered

(* The node of t enters its execution state and goes on to the next one;   *)
(* the root orders its children after its first.                           *)
Pass(t) ==
    /\ kind' = [kind EXCEPT ![t] = IF @ = NKinds THEN 1 ELSE @ + 1]
    /\ pc' = [pc EXCEPT ![t] =
                IF kind[t] = NKinds THEN IF t = Exec THEN "ending" ELSE "free"
                ELSE IF t = Exec /\ kind[t] = 1 THEN "polling" ELSE "testing"]
    /\ ordered' = IF t = Exec /\ kind[t] = 1 /\ NKinds > 1 THEN Helpers
                                                           ELSE ordered

(* The abort flag and the breakpoints are read without a lock that the     *)
(* commands take.  Under an abort no breakpoint counts.                    *)
SeeAbort(t) ==
    /\ pc[t] = "testing"
    /\ abortFlag
    /\ pc' = [pc EXCEPT ![t] = "late"]
    /\ UNCHANGED <<server, command, kind, ordered, atNode, debugger, abortFlag,
                   breaks>>

(* A single-shot breakpoint of the forest is met and not yet cleared. *)
MeetForestShot(t) ==
    /\ pc[t] = "testing"
    /\ ~abortFlag /\ kind[t] \in breakpointsSS
    /\ pc' = [pc EXCEPT ![t] = "shooting"]
    /\ UNCHANGED <<server, command, kind, ordered, atNode, debugger, abortFlag,
                   breaks>>

(* The node of t stops; its own single-shot breakpoint is used up. *)
Hit(t) ==
    /\ pc' = [pc EXCEPT ![t] = "hit"]
    /\ atNode' = IF t \in nodeSS THEN atNode \cup {t} ELSE atNode
    /\ nodeSS' = nodeSS \ {t}
    /\ UNCHANGED <<kind, ordered, breakpoints, forestBreakpoint>>

(* checkGlobalBreakpoints clears all single-shot breakpoints of the forest *)
(* when one is met.                                                        *)
Shoot(t) ==
    /\ pc[t] = "shooting"
    /\ breakpointsSS' = {}
    /\ Hit(t)
    /\ UNCHANGED <<server, command, debugger, abortFlag>>

MeetBreakpoint(t) ==
    /\ pc[t] = "testing"
    /\ ~abortFlag /\ kind[t] \notin breakpointsSS
    /\ t \in nodeSS \/ kind[t] \in breakpoints
    /\ Hit(t)
    /\ UNCHANGED <<server, command, debugger, abortFlag, breakpointsSS>>

MeetNone(t) ==
    /\ pc[t] = "testing"
    /\ ~abortFlag /\ kind[t] \notin breakpointsSS
    /\ t \notin nodeSS /\ kind[t] \notin breakpoints
    /\ Pass(t)
    /\ UNCHANGED <<server, command, atNode, debugger, abortFlag, breaks>>

(* Forest::processBreakpoint raises the flag and posts an event, under     *)
(* stopFlagCond().                                                         *)
Stop(t) ==
    /\ pc[t] = "hit"
    /\ stopLock = Nobody
    /\ t \in atNode \/ debugNext # t
    /\ pc' = [pc EXCEPT ![t] = "stopped"]
    /\ atNode' = atNode \ {t}
    /\ stopFlag' = TRUE
    /\ debugNext' = Nobody
    /\ debugNode' = t
    /\ UNCHANGED <<server, command, kind, ordered, stopLock, clearStop,
                   abortFlag, breaks>>

(* In a step to the next node the flag is cleared again, without an event, *)
(* while the thread is still in the node that it stopped in before.        *)
SkipStop(t) ==
    /\ pc[t] = "hit"
    /\ stopLock = Nobody
    /\ t \notin atNode /\ debugNext = t
    /\ pc' = [pc EXCEPT ![t] = "stopped"]
    /\ stopFlag' = FALSE
    /\ UNCHANGED <<server, command, kind, ordered, atNode, stopLock, clearStop,
                   debugNext, debugNode, abortFlag, breaks>>

(* A stopped thread that does not wait for the flag to be cleared. *)
ResumeAnyway(t) ==
    /\ pc[t] = "stopped"
    /\ stopLock = Nobody
    /\ Pass(t)
    /\ UNCHANGED <<server, command, atNode, debugger, abortFlag, breaks>>

(* waitOnStopFlag returns. *)
Resume(t) ==
    /\ pc[t] = "stopped"
    /\ ~stopFlag /\ stopLock = Nobody
    /\ Pass(t)
    /\ UNCHANGED <<server, command, atNode, debugger, abortFlag, breaks>>

(* A thread that saw the abort flag reads it again, with the stop flag. *)
Late(t) ==
    /\ pc[t] = "late"
    /\ abortFlag \/ ~stopFlag
    /\ Pass(t)
    /\ UNCHANGED <<server, command, atNode, debugger, abortFlag, breaks>>

LateStop(t) ==
    /\ pc[t] = "late"
    /\ ~abortFlag /\ stopFlag
    /\ pc' = [pc EXCEPT ![t] = "stopped"]
    /\ UNCHANGED <<server, command, kind, ordered, atNode, debugger, abortFlag,
                   breaks>>

-----------------------------------------------------------------------------
TakeCommand ==
    \/ Push
    \/ \E c \in {"Continue", "Step", "Next", "Abort", "Interrupt"} : Take(c)
    \/ \E n \in Threads : TakeUntil(n)
    \/ \E mask \in Masks :
            SetForestBreakpoint(mask) \/ ClearForestBreakpoint(mask)
    \/ Halt

MainStep ==
    Test \/ Edit \/ Mark \/ MainEnds \/ MainClears \/ MainReplies
         \/ Signal \/ Exit

ExecStep ==
    Look \/ Start \/ EndPoll \/ ExecMustClear \/ ExecAnswers \/ ExecClears
         \/ ExecReplies \/ Pop

NodeStep(t) ==
    \/ SeeAbort(t) \/ Late(t) \/ LateStop(t)
    \/ MeetForestShot(t) \/ Shoot(t) \/ MeetBreakpoint(t) \/ MeetNone(t)
    \/ Stop(t) \/ SkipStop(t) \/ Resume(t)

Next ==
    \/ TakeCommand
    \/ MainStep
    \/ ExecStep
    \/ AbandonPoll
    \/ \E h \in Helpers : HelperStarts(h)
    \/ \E t \in Threads : NodeStep(t)

Spec == Init /\ [][Next]_vars

Fairness ==
    /\ WF_vars(MainStep)
    /\ WF_vars(ExecStep)
    /\ \A h \in Helpers : WF_vars(HelperStarts(h))
    /\ \A t \in Threads : WF_vars(NodeStep(t))
    /\ SF_vars(Take("Abort"))

FairSpec == Spec /\ Fairness

-----------------------------------------------------------------------------
(* The stop flag is raised only while a thread stands at it, whom the next *)
(* command will free: it is never raised behind a thread that has gone on, *)
(* nor left raised by a step to the next node (Forest.cc:485-520,          *)
(* MeqServer.cc:1012-1029).  A flag that nobody stands at would make the   *)
(* debugger refuse every interrupt (MeqServer.cc:852-857).                 *)
SomebodyStands == stopFlag => \E t \in Threads : pc[t] = "stopped"

(* Once running_ is cleared the server exits, although the flag is cleared *)
(* without the lock under which the execution thread waits, unless a       *)
(* thread stays at a breakpoint, from which no command is left to free it  *)
(* (MeqServer.cc:241, 1315-1319).                                          *)
HaltEnds ==
    ~running ~> \/ mpc = "exited"
                \/ [](stopFlag /\ \E t \in Threads : pc[t] = "stopped")

(* A synchronous command is answered, or the server is halted, if the user *)
(* aborts again and again: an abort frees the threads that stand at        *)
(* breakpoints, and one that the flag or the breakpoint overtakes is not   *)
(* the last word (MeqServer.cc:582-607, 1238-1248, 1336-1365).             *)
CommandsAnswered ==
    \A n \in 1 .. NCommands : accepted >= n ~> answered >= n \/ ~running

(* The reply to a command that frees the threads is posted before any of   *)
(* them stops again (the comment at MeqServer.cc:1136-1140).               *)
RepliesPrecedeStops == [][MainReplies => ~stopFlag]_vars

=============================================================================

-------------------------- MODULE ServerLoopProofs --------------------------
(***************************************************************************)
(* ServerLoop: type correctness, and that the stop flag is raised only     *)
(* while a thread stands at it, for any number of helpers, execution       *)
(* states, commands and breakpoint masks.                                  *)
(***************************************************************************)
EXTENDS ServerLoop, SequenceTheorems, TLAPS

(* The entry that the execution thread executes is in the queue until the  *)
(* thread has removed it: what it answers is the head of a queue that is   *)
(* not empty.                                                              *)
EntryStays == pc[Exec] \in Executing => queue # <<>>

(* The inductive invariant. *)
IInv == TypeOK /\ EntryStays /\ SomebodyStands

(* The server starts with no thread at a breakpoint and an empty queue. *)
LEMMA InitIInv == Init => IInv
<1> SUFFICES ASSUME Init PROVE IInv
  OBVIOUS
<1>1. queue \in Seq(1 .. NCommands)
  BY DEF Init
<1>2. kind \in [Threads -> Kinds]
  BY BoundAssumption DEF Init, Kinds
<1>3. pc \in [Threads -> Executing \cup {"waiting", "looking", "gone", "free"}]
  BY DEF Init
<1>4. 0 \in 0 .. NCommands
  BY BoundAssumption
<1>5. TypeOK
  BY <1>1, <1>2, <1>3, <1>4
  DEF Init, TypeOK, MainPlaces
<1>6. EntryStays /\ SomebodyStands
  BY DEF Init, EntryStays, SomebodyStands, Executing, Threads
<1> QED
  BY <1>5, <1>6 DEF IInv

(* The commands that the main thread takes. *)
LEMMA TakeKeeps ==
  ASSUME IInv, TakeCommand
  PROVE  IInv'
<1> USE ThreadAssumption, BoundAssumption
    DEF IInv, TypeOK, EntryStays, SomebodyStands, Threads, Kinds,
        MainPlaces, Executing, Resuming, server, command, evaluation,
        debugger, breaks
<1>1. CASE Push
  BY SMTT(20), <1>1 DEF Push, WakeExec
<1>2. CASE \E c \in {"Continue", "Step", "Next", "Abort", "Interrupt"} : Take(c)
  BY <1>2 DEF Take
<1>3. CASE \E n \in Threads : TakeUntil(n)
  BY <1>3 DEF TakeUntil
<1>4. CASE \E mask \in Masks : SetForestBreakpoint(mask)
  BY <1>4 DEF SetForestBreakpoint
<1>5. CASE \E mask \in Masks : ClearForestBreakpoint(mask)
  BY <1>5 DEF ClearForestBreakpoint
<1>6. CASE Halt
  <2> USE <1>6 DEF Halt, WakeExec
  <2>1. pc' \in [Threads -> Executing \cup {"waiting", "looking", "gone", "free"}]
    OBVIOUS
  <2>2. running' \in BOOLEAN
    OBVIOUS
  <2>3. TypeOK'
    BY <2>1, <2>2
  <2>4. EntryStays' /\ SomebodyStands'
    OBVIOUS
  <2> QED
    BY <2>3, <2>4
<1> QED
  BY <1>1, <1>2, <1>3, <1>4, <1>5, <1>6
  DEF TakeCommand

(* Its other steps. *)
LEMMA MainKeeps ==
  ASSUME IInv, MainStep
  PROVE  IInv'
<1> USE ThreadAssumption, BoundAssumption
    DEF IInv, TypeOK, EntryStays, SomebodyStands, Threads, Kinds,
        MainPlaces, Executing, Resuming, server, command, evaluation,
        debugger, breaks
<1>1. CASE Test
  BY <1>1 DEF Test
<1>2. CASE Edit
  <2> USE <1>2 DEF Edit
  <2>1. breakpoints' \subseteq Kinds
    BY ZenonT(40)
  <2>2. breakpointsSS' \subseteq Kinds
    BY ZenonT(40)
  <2>3. TypeOK'
    BY <2>1, <2>2
  <2>4. EntryStays' /\ SomebodyStands'
    OBVIOUS
  <2> QED
    BY <2>3, <2>4
<1>3. CASE Mark
  BY <1>3 DEF Mark
<1>4. CASE MainEnds
  BY <1>4 DEF MainEnds
<1>5. CASE MainClears
  BY ZenonT(40), <1>5 DEF MainClears, Clears
<1>6. CASE MainReplies
  BY <1>6 DEF MainReplies, Replies
<1>7. CASE Signal
  BY <1>7 DEF Signal, WakeExec
<1>8. CASE Exit
  BY <1>8 DEF Exit
<1> QED
  BY <1>1, <1>2, <1>3, <1>4, <1>5, <1>6, <1>7, <1>8
  DEF MainStep

(* The execution thread: it stands at no breakpoint where it takes, ends   *)
(* and removes entries.                                                    *)
LEMMA ExecKeeps ==
  ASSUME IInv, ExecStep
  PROVE  IInv'
<1> USE ThreadAssumption, BoundAssumption
    DEF IInv, TypeOK, EntryStays, SomebodyStands, Threads, Kinds,
        MainPlaces, Executing, Resuming, server, command, evaluation,
        debugger, breaks
<1>1. CASE Look
  BY <1>1 DEF Look
<1>2. CASE Start
  <2> USE <1>2 DEF Start
  <2>1. pc' \in [Threads -> Executing \cup {"waiting", "looking", "gone", "free"}]
    OBVIOUS
  <2>2. abortFlag' \in BOOLEAN
    OBVIOUS
  <2>3. TypeOK'
    BY <2>1, <2>2
  <2>4. EntryStays' /\ SomebodyStands'
    OBVIOUS
  <2> QED
    BY <2>3, <2>4
<1>3. CASE EndPoll
  BY <1>3 DEF EndPoll
<1>4. CASE ExecMustClear
  BY <1>4 DEF ExecMustClear
<1>5. CASE ExecAnswers
  BY <1>5 DEF ExecAnswers
<1>6. CASE ExecClears
  <2> USE <1>6 DEF ExecClears, Clears
  <2>1. pc' \in [Threads -> Executing \cup {"waiting", "looking", "gone", "free"}]
    OBVIOUS
  <2>2. stopFlag' \in BOOLEAN /\ clearStop' \in BOOLEAN
    OBVIOUS
  <2>3. TypeOK'
    BY <2>1, <2>2
  <2>4. EntryStays' /\ SomebodyStands'
    OBVIOUS
  <2> QED
    BY <2>3, <2>4
<1>7. CASE ExecReplies
  BY <1>7 DEF ExecReplies, Replies
<1>8. CASE Pop
  BY <1>8 DEF Pop
<1> QED
  BY <1>1, <1>2, <1>3, <1>4, <1>5, <1>6, <1>7, <1>8
  DEF ExecStep

(* A thread in setExecState.  It leaves the flag only when it is cleared,  *)
(* and joins those who stand at it when it raises it.                      *)
LEMMA NodeKeeps ==
  ASSUME IInv, NEW t \in Threads, NodeStep(t)
  PROVE  IInv'
<1> USE ThreadAssumption, BoundAssumption
    DEF IInv, TypeOK, EntryStays, SomebodyStands, Threads, Kinds,
        MainPlaces, Executing, Resuming, server, command, evaluation,
        debugger, breaks
<1>1. CASE SeeAbort(t)
  BY <1>1 DEF SeeAbort
<1>2. CASE Late(t)
  BY <1>2 DEF Late, Pass
<1>3. CASE LateStop(t)
  BY <1>3 DEF LateStop
<1>4. CASE MeetForestShot(t)
  BY <1>4 DEF MeetForestShot
<1>5. CASE Shoot(t)
  BY <1>5 DEF Shoot, Hit
<1>6. CASE MeetBreakpoint(t)
  BY <1>6 DEF MeetBreakpoint, Hit
<1>7. CASE MeetNone(t)
  BY <1>7 DEF MeetNone, Pass
<1>8. CASE Stop(t)
  BY <1>8 DEF Stop
<1>9. CASE SkipStop(t)
  <2> USE <1>9 DEF SkipStop
  <2>1. pc' \in [Threads -> Executing \cup {"waiting", "looking", "gone", "free"}]
    OBVIOUS
  <2>2. stopFlag' \in BOOLEAN
    OBVIOUS
  <2>3. TypeOK'
    BY <2>1, <2>2
  <2>4. EntryStays' /\ SomebodyStands'
    OBVIOUS
  <2> QED
    BY <2>3, <2>4
<1>10. CASE Resume(t)
  BY <1>10 DEF Resume, Pass
<1> QED
  BY <1>1, <1>2, <1>3, <1>4, <1>5, <1>6, <1>7, <1>8, <1>9, <1>10
  DEF NodeStep

(* A helper takes an order. *)
LEMMA HelperKeeps ==
  ASSUME IInv, NEW h \in Helpers, HelperStarts(h)
  PROVE  IInv'
BY ThreadAssumption, BoundAssumption
DEF HelperStarts, IInv, TypeOK, EntryStays, SomebodyStands, Threads, Kinds, MainPlaces,
    Executing, Resuming, server, command, evaluation, debugger, breaks

(* Every step keeps the inductive invariant. *)
LEMMA NextKeeps == IInv /\ [Next]_vars => IInv'
<1> SUFFICES ASSUME IInv, [Next]_vars PROVE IInv'
  OBVIOUS
<1>1. CASE TakeCommand
  BY <1>1, TakeKeeps
<1>2. CASE MainStep
  BY <1>2, MainKeeps
<1>3. CASE ExecStep
  BY <1>3, ExecKeeps
<1>4. CASE \E h \in Helpers : HelperStarts(h)
  BY <1>4, HelperKeeps
<1>5. CASE \E t \in Threads : NodeStep(t)
  BY <1>5, NodeKeeps
<1>6. CASE AbandonPoll
  BY <1>6, ThreadAssumption, BoundAssumption
  DEF AbandonPoll, IInv, TypeOK, EntryStays, SomebodyStands, Threads, Kinds, MainPlaces,
      Executing, Resuming, server, command, evaluation, debugger, breaks
<1>7. CASE UNCHANGED vars
  BY <1>7
  DEF vars, IInv, TypeOK, EntryStays, SomebodyStands, Threads, Kinds, MainPlaces,
      Executing, Resuming, server, command, evaluation, debugger, breaks
<1> QED
  BY <1>1, <1>2, <1>3, <1>4, <1>5, <1>6, <1>7 DEF Next

(* The server keeps the inductive invariant. *)
THEOREM ServerIInv == Spec => []IInv
BY InitIInv, NextKeeps, PTL DEF Spec

(* The variables keep their types: in particular the queue holds commands  *)
(* that were taken, and what is answered is one of them.                   *)
THEOREM ServerTypeCorrect == Spec => []TypeOK
<1>1. IInv => TypeOK
  BY DEF IInv
<1> QED
  BY <1>1, ServerIInv, PTL

(* The stop flag is never raised without a thread that stands at it, for   *)
(* any number of helpers and any interleaving of the debugging commands    *)
(* with the threads that meet breakpoints.                                 *)
THEOREM FlagHasItsThread == Spec => []SomebodyStands
<1>1. IInv => SomebodyStands
  BY DEF IInv
<1> QED
  BY <1>1, ServerIInv, PTL

(* The execution thread removes the entry that it has executed: the queue  *)
(* is not empty from the start of an execution to its end.                 *)
THEOREM EntryIsItsOwn == Spec => []EntryStays
<1>1. IInv => EntryStays
  BY DEF IInv
<1> QED
  BY <1>1, ServerIInv, PTL

=============================================================================

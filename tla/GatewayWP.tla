------------------------------ MODULE GatewayWP ------------------------------
(***************************************************************************)
(* A gateway of OCTOPUSSY: a work process with a message queue of its own  *)
(* (WPInterface) that several worker threads empty into the socket of a    *)
(* peer (MTGatewayWP, MTGatewayWP2).  The dispatcher's threads put letters *)
(* and timer events in the queue; a reader thread opens the link when the  *)
(* peer's first message arrives and reports its failure; until the link is *)
(* open the workers hold the letters back.                                 *)
(*                                                                         *)
(* One action is one critical section of queue_cond, or the part of a      *)
(* handler between two of them.                                            *)
(***************************************************************************)
EXTENDS MessageQueue, FiniteSets

CONSTANTS
    Workers,     \* the worker threads (NumWriterThreads)
    NLetters,    \* bound: the letters that are sent to the peer
    Beat,        \* the event of the heartbeat timeout
    InitTimeout, \* the event of the connection timeout
    Bye,         \* the message by which a reader asks for a shutdown
    NoMessage,   \* the empty hand of a worker
    MaxCrashes   \* bound: the workers that an exception ends

Letters == 1 .. NLetters

Events == {Beat, InitTimeout, Bye}

ASSUME MessageAssumption ==
    /\ NLetters \in Nat
    /\ Messages = Letters \cup Events
    /\ Events \cap Letters = {}
    /\ Beat # InitTimeout /\ Beat # Bye /\ InitTimeout # Bye
    /\ NoMessage \notin Messages

ASSUME WorkerAssumption == Workers # {} /\ MaxCrashes \in Nat

VARIABLES
    queue,       \* queue_
    needRepoll,  \* needrepoll_
    stage,       \* where attach() and do_stop() are with this process
    running,     \* running
    attached,    \* the process is in the dispatcher's map
    pc,          \* where each worker thread is
    hand,        \* the message a worker took from the queue
    fate,        \* what became of each message
    held,        \* letters put back by HOLD and not taken since
    early,       \* messages that were queued when do_init ran
    gate,        \* peerState()
    reader,      \* what the reader threads do
    shutting,    \* shutting_down
    wire         \* the letters in the order they are written to the socket

vars == <<queue, needRepoll, stage, running, attached, pc, hand, fate, held,
          early, gate, reader, shutting, wire>>

WorkerStates == {"unborn", "waiting", "woken", "receiving", "writing",
                 "holding", "returning", "gone", "crashed"}

TypeOK ==
    /\ queue \in Seq(Messages)
    /\ needRepoll \in BOOLEAN
    /\ stage \in {"inserted", "initialised", "started", "stopping",
                  "joining", "stopped"}
    /\ running \in BOOLEAN
    /\ attached \in BOOLEAN
    /\ pc \in [Workers -> WorkerStates]
    /\ hand \in [Workers -> Messages \cup {NoMessage}]
    /\ fate \in [Messages -> {"unsent", "inside", "out"}]
    /\ held \subseteq Messages
    /\ early \subseteq Messages
    /\ gate \in {"initializing", "connected", "closing"}
    /\ reader \in {"reading", "opened", "done"}
    /\ shutting \in BOOLEAN
    /\ wire \in Seq(Letters)

(* Dispatcher::attach has put the process in its map, and nothing else. *)
Init ==
    /\ queue = <<>>
    /\ needRepoll = FALSE
    /\ stage = "inserted"
    /\ running = FALSE
    /\ attached = TRUE
    /\ pc = [w \in Workers |-> "unborn"]
    /\ hand = [w \in Workers |-> NoMessage]
    /\ fate = [m \in Messages |-> "unsent"]
    /\ held = {}
    /\ early = {}
    /\ gate = "initializing"
    /\ reader = "reading"
    /\ shutting = FALSE
    /\ wire = <<>>

-----------------------------------------------------------------------------
(* The queue's condition variable. *)

Waiting == {w \in Workers : pc[w] = "waiting"}

(* queue_cond.signal() wakes one of the threads that wait, if any. *)
Signal ==
    IF Waiting = {} THEN UNCHANGED pc
    ELSE \E w \in Waiting : pc' = [pc EXCEPT ![w] = "woken"]

(* queue_cond.broadcast() *)
Broadcast ==
    pc' = [w \in Workers |-> IF w \in Waiting THEN "woken" ELSE pc[w]]

(* WPInterface::enqueue: a message that arrives at the head of the queue   *)
(* raises the flag and wakes a worker.                                     *)
EnqueueQuietly(m) ==
    /\ queue' = Inserted(queue, m)
    /\ fate' = [fate EXCEPT ![m] = "inside"]
    /\ IF queue = <<>>
       THEN needRepoll' = TRUE /\ Signal
       ELSE UNCHANGED <<needRepoll, pc>>

Enqueue(m) ==
    /\ queue' = Inserted(queue, m)
    /\ fate' = [fate EXCEPT ![m] = "inside"]
    /\ IF Place(queue, m) = 0
       THEN needRepoll' = TRUE /\ Signal
       ELSE UNCHANGED <<needRepoll, pc>>

(* What a worker does when it holds queue_cond and has just been woken, or *)
(* comes back from a message: the loops of runWorker and mtWakeup and the  *)
(* first part of deliver.                                                  *)
Leave(w) ==
    /\ ~running
    /\ pc' = [pc EXCEPT ![w] = "gone"]
    /\ hand' = [hand EXCEPT ![w] = NoMessage]
    /\ UNCHANGED <<queue, held, early>>

TakeCopy(w, flag) ==
    /\ running /\ flag /\ queue # <<>>
    /\ queue' = queue
    /\ needRepoll' = FALSE
    /\ pc' = [pc EXCEPT ![w] = "receiving"]
    /\ hand' = [hand EXCEPT ![w] = Head(queue)]
    /\ held' = held \ {Head(queue)}
    /\ early' = early \ {Head(queue)}

Take(w, flag) ==
    /\ running /\ flag /\ queue # <<>>
    /\ queue' = Tail(queue)
    /\ needRepoll' = FALSE
    /\ pc' = [pc EXCEPT ![w] = "receiving"]
    /\ hand' = [hand EXCEPT ![w] = Head(queue)]
    /\ held' = held \ {Head(queue)}
    /\ early' = early \ {Head(queue)}

Sleep(w, flag) ==
    /\ running
    /\ flag => queue = <<>>
    /\ needRepoll' = FALSE
    /\ pc' = [pc EXCEPT ![w] = "waiting"]
    /\ hand' = [hand EXCEPT ![w] = NoMessage]
    /\ UNCHANGED <<queue, held, early>>

Continue(w, flag) ==
    \/ Leave(w) /\ needRepoll' = flag
    \/ Take(w, flag)
    \/ Sleep(w, flag)

-----------------------------------------------------------------------------
(* The worker threads. *)

(* A worker that starts, or that a signal woke. *)
Wake(w) ==
    /\ pc[w] = "woken"
    /\ Continue(w, needRepoll)
    /\ UNCHANGED <<stage, running, attached, fate, gate, reader, shutting,
                   wire>>

(* MTGatewayWP::shutdown, under gwmutex, which a reader holds while it     *)
(* opens the link.  The first call closes the link and asks the dispatcher *)
(* to detach the process.                                                  *)
Shutdown ==
    /\ reader # "opened"
    /\ gate' = "closing"
    /\ shutting' = TRUE
    /\ attached' = FALSE
    /\ reader' = "done"

Accepted(w, outcome) ==
    /\ pc' = [pc EXCEPT ![w] = "returning"]
    /\ fate' = [fate EXCEPT ![hand[w]] = outcome]
    /\ hand' = [hand EXCEPT ![w] = NoMessage]

(* MTGatewayWP::receive: a letter is held until the link is open, written  *)
(* when it is and ignored when it is closed.                               *)
ReceiveLetter(w) ==
    /\ pc[w] = "receiving" /\ hand[w] \in Letters
    /\ CASE gate = "initializing" ->
                /\ pc' = [pc EXCEPT ![w] = "holding"]
                /\ UNCHANGED <<hand, fate>>
         [] gate = "connected" ->
                /\ pc' = [pc EXCEPT ![w] = "writing"]
                /\ UNCHANGED <<hand, fate>>
         [] gate = "closing" -> Accepted(w, "out")
    /\ UNCHANGED <<queue, needRepoll, stage, running, attached, held, early,
                   gate, reader, shutting, wire>>

(* MTGatewayWP::transmitMessage: the writers are serialised from here on.  *)
TransmitDetached(w) ==
    /\ pc[w] = "writing"
    /\ Accepted(w, "out")
    /\ wire' = Append(wire, hand'[w])
    /\ UNCHANGED <<queue, needRepoll, stage, running, attached, held, early,
                   gate, reader, shutting>>

Transmit(w) ==
    /\ pc[w] = "writing"
    /\ Accepted(w, "out")
    /\ wire' = Append(wire, hand[w])
    /\ UNCHANGED <<queue, needRepoll, stage, running, attached, held, early,
                   gate, reader, shutting>>

(* A write error: reportWriteError shuts the gateway down. *)
TransmitFails(w) ==
    /\ pc[w] = "writing"
    /\ Accepted(w, "out")
    /\ Shutdown
    /\ UNCHANGED <<queue, needRepoll, stage, running, held, early, wire>>

(* An exception in the handler ends the thread: workerThread catches it    *)
(* outside of the worker's loop.                                           *)
TransmitThrows(w) ==
    /\ pc[w] = "writing"
    /\ Cardinality({v \in Workers : pc[v] = "crashed"}) < MaxCrashes
    /\ pc' = [pc EXCEPT ![w] = "crashed"]
    /\ fate' = [fate EXCEPT ![hand[w]] = "out"]
    /\ hand' = [hand EXCEPT ![w] = NoMessage]
    /\ UNCHANGED <<queue, needRepoll, stage, running, attached, held, early,
                   gate, reader, shutting, wire>>

(* MTGatewayWP::timeout for the heartbeat: a write that has not ended in   *)
(* time shuts the gateway down.  The dispatcher sends the next one later.  *)
ReceiveBeat(w) ==
    /\ pc[w] = "receiving" /\ hand[w] = Beat
    /\ Accepted(w, "unsent")
    /\ \/ UNCHANGED <<gate, shutting, attached, reader>>
       \/ /\ \E v \in Workers : pc[v] = "writing"
          /\ Shutdown
    /\ UNCHANGED <<queue, needRepoll, stage, running, held, early, wire>>

(* MTGatewayWP::timeout for the connection: the peer's first message has   *)
(* not come in time.                                                       *)
ReceiveInitTimeout(w) ==
    /\ pc[w] = "receiving" /\ hand[w] = InitTimeout
    /\ Accepted(w, "out")
    /\ IF gate = "initializing" THEN Shutdown
       ELSE UNCHANGED <<gate, shutting, attached, reader>>
    /\ UNCHANGED <<queue, needRepoll, stage, running, held, early, wire>>

(* MTGatewayWP::receive of the message from its own reader. *)
ReceiveBye(w) ==
    /\ pc[w] = "receiving" /\ hand[w] = Bye
    /\ Accepted(w, "out")
    /\ Shutdown
    /\ UNCHANGED <<queue, needRepoll, stage, running, held, early, wire>>

(* deliver, result HOLD: back to the queue, with no flag and no signal. *)
PutBack(w) ==
    /\ pc[w] = "holding"
    /\ queue' = InsertedFront(queue, hand[w])
    /\ held' = held \cup {hand[w]}
    /\ pc' = [pc EXCEPT ![w] = "returning"]
    /\ UNCHANGED <<needRepoll, stage, running, attached, hand, fate, early,
                   gate, reader, shutting, wire>>

(* deliver relocks queue_cond; a head that is not the message just put     *)
(* back raises the flag, and the loop goes on under the same lock.         *)
HeadNeverDiffers(w) == FALSE

HeadDiffers(w) == queue # <<>> /\ Head(queue) # hand[w]

Return(w) ==
    /\ pc[w] = "returning"
    /\ Continue(w, needRepoll \/ HeadDiffers(w))
    /\ UNCHANGED <<stage, running, attached, fate, gate, reader, shutting,
                   wire>>

-----------------------------------------------------------------------------
(* The dispatcher's threads. *)

(* Dispatcher::send for a letter, under wpmutex: letters are numbered in   *)
(* the order in which they are sent.                                       *)
Send ==
    \E m \in Letters :
        /\ attached /\ stage # "stopped"
        /\ fate[m] = "unsent"
        /\ \A n \in 1 .. m - 1 : fate[n] # "unsent"
        /\ Enqueue(m)
        /\ UNCHANGED <<stage, running, attached, hand, held, early, gate,
                       reader, shutting, wire>>

(* Dispatcher::checkEvents: a timeout of this process is up.  Bound: the   *)
(* next heartbeat does not come before the last one was received.          *)
Timer(m) ==
    /\ attached /\ stage \notin {"inserted", "initialised", "stopped"}
    /\ fate[m] = "unsent"
    /\ Enqueue(m)
    /\ UNCHANGED <<stage, running, attached, hand, held, early, gate, reader,
                   shutting, wire>>

(* Dispatcher::attach goes on without wpmutex: do_init resets the flag.    *)
DoInit ==
    /\ stage = "inserted"
    /\ stage' = "initialised"
    /\ needRepoll' = FALSE
    /\ running' = TRUE
    /\ early' = Contents(queue)
    /\ UNCHANGED <<queue, attached, pc, hand, fate, held, gate, reader,
                   shutting, wire>>

(* do_start: MTGatewayWP::start creates the workers, which run when it has *)
(* returned.                                                               *)
DoStart ==
    /\ stage = "initialised"
    /\ stage' = "started"
    /\ pc' = [w \in Workers |-> "woken"]
    /\ UNCHANGED <<queue, needRepoll, running, attached, hand, fate, held,
                   early, gate, reader, shutting, wire>>

(* do_stop, called when the dispatcher stops or for a process that was     *)
(* detached: the flag is cleared without a lock, then all workers woken,   *)
(* then joined.                                                            *)
StopRunning ==
    /\ stage = "started"
    /\ stage' = "stopping"
    /\ running' = FALSE
    /\ UNCHANGED <<queue, needRepoll, attached, pc, hand, fate, held, early,
                   gate, reader, shutting, wire>>

StopWakesOne ==
    /\ stage = "stopping"
    /\ stage' = "joining"
    /\ needRepoll' = TRUE
    /\ Signal
    /\ UNCHANGED <<queue, running, attached, hand, fate, held, early, gate,
                   reader, shutting, wire>>

StopWakes ==
    /\ stage = "stopping"
    /\ stage' = "joining"
    /\ needRepoll' = TRUE
    /\ Broadcast
    /\ UNCHANGED <<queue, running, attached, hand, fate, held, early, gate,
                   reader, shutting, wire>>

(* The joins, and MTGatewayWP::stop. *)
StopJoins ==
    /\ stage = "joining"
    /\ \A w \in Workers : pc[w] \in {"gone", "crashed"}
    /\ stage' = "stopped"
    /\ Shutdown
    /\ UNCHANGED <<queue, needRepoll, running, pc, hand, fate, held, early,
                   wire>>

-----------------------------------------------------------------------------
(* The reader threads, one at a time. *)

(* A reader tests isRunning() and shutting_down before it blocks in a read *)
(* and shutting_down again before it reports a failure.                    *)
ReaderRuns ==
    /\ reader = "reading"
    /\ ~shutting
    /\ stage \notin {"inserted", "initialised"}

(* MTGatewayWP::processIncoming of the peer's first message, under gwmutex *)
Open ==
    /\ ReaderRuns
    /\ gate = "initializing"
    /\ gate' = "connected"
    /\ reader' = "opened"
    /\ UNCHANGED <<queue, needRepoll, stage, running, attached, pc, hand,
                   fate, held, early, shutting, wire>>

(* repollWorker: a worker is woken, since it can now receive messages. *)
Announce ==
    /\ reader = "opened"
    /\ reader' = "reading"
    /\ needRepoll' = TRUE
    /\ Signal
    /\ UNCHANGED <<queue, stage, running, attached, hand, fate, held, early,
                   gate, shutting, wire>>

(* A read error, an unexpected message or a peer that is connected already *)
(* ends in shutdownReaderThread.                                           *)
ReaderFails ==
    /\ ReaderRuns
    /\ reader' = "done"
    /\ shutting' = TRUE
    /\ \/ UNCHANGED gate
       \/ gate = "initializing" /\ gate' = "closing"
    /\ Enqueue(Bye)
    /\ UNCHANGED <<stage, running, attached, hand, held, early, wire>>

-----------------------------------------------------------------------------
Work(w) ==
    \/ Wake(w)
    \/ ReceiveLetter(w)
    \/ Transmit(w)
    \/ TransmitFails(w)
    \/ TransmitThrows(w)
    \/ ReceiveBeat(w)
    \/ ReceiveInitTimeout(w)
    \/ ReceiveBye(w)
    \/ PutBack(w)
    \/ Return(w)

Stopping == StopRunning \/ StopWakes \/ StopJoins

Next ==
    \/ \E w \in Workers : Work(w)
    \/ Send
    \/ \E m \in {Beat, InitTimeout} : Timer(m)
    \/ DoInit
    \/ DoStart
    \/ Stopping
    \/ Open
    \/ Announce
    \/ ReaderFails

Spec == Init /\ [][Next]_vars

(* A worker takes a letter from the queue. *)
TakeLetter(w) ==
    /\ Wake(w) \/ Return(w)
    /\ pc'[w] = "receiving" /\ hand'[w] \in Letters

(* Every thread that can go on does, the timers go off, and attach and     *)
(* do_stop, once begun, are carried through.  A heartbeat comes every few  *)
(* seconds: the workers are not kept from the letters by events for ever.  *)
Fairness ==
    /\ \A w \in Workers : WF_vars(Work(w)) /\ SF_vars(TakeLetter(w))
    /\ WF_vars(Timer(Beat))
    /\ WF_vars(Timer(InitTimeout))
    /\ WF_vars(DoInit)
    /\ WF_vars(DoStart)
    /\ WF_vars(StopWakes)
    /\ WF_vars(StopJoins)
    /\ WF_vars(Announce)

FairSpec == Spec /\ Fairness
-----------------------------------------------------------------------------
(* Properties *)

Busy == {w \in Workers : pc[w] \in {"receiving", "writing", "holding"}}

Crashed == {w \in Workers : pc[w] = "crashed"}

(* The queue is ordered by priority whatever the workers put back while    *)
(* other messages arrive: enqueue's shortcuts (A, B and C) rely on it, and *)
(* so do events, which must overtake every letter.                         *)
PriorityOrder == ByPriority(queue)

(* A message that was handed to the gateway and not disposed of is in one  *)
(* place: once in the queue or in the hand of one worker.  deliver takes a *)
(* message out before it releases the lock and puts a held one back later. *)
OnePlace ==
    /\ Once(queue)
    /\ \A v, w \in Busy : hand[v] = hand[w] => v = w
    /\ \A w \in Busy : hand[w] \in Messages /\ hand[w] \notin Contents(queue)
    /\ \A m \in Messages :
           fate[m] = "inside" <=>
               m \in Contents(queue) \/ \E w \in Busy : hand[w] = m

(* The workers never all sleep on a queue whose head nobody has seen: the  *)
(* one flag that all of them reset, and signals that may find no thread    *)
(* waiting, lose no wakeup.  Exempt are a head that was held, which waits  *)
(* for the link, and one that was queued before do_init reset the flag;    *)
(* both wait for the next event.                                           *)
NoStrandedHead ==
    running /\ queue # <<>> /\ (\A w \in Workers : pc[w] = "waiting")
        => Head(queue) \in held \cup early

(* Every letter leaves the gateway: it is written, dropped because the     *)
(* link is closed, or lost with its worker, unless the gateway is detached *)
(* or stopped or has no worker left.  No repoll promises this when a flag  *)
(* is consumed by a worker that finds the queue empty: the heartbeat does. *)
LettersLeave ==
    \A m \in Letters :
        fate[m] = "inside" ~>
            \/ fate[m] # "inside"
            \/ ~attached
            \/ stage \in {"stopping", "joining", "stopped"}
            \/ Crashed = Workers

(* do_stop joins all of its workers: once it has woken them none sleeps,   *)
(* though it cleared running without the lock they wait under.             *)
NoneSleepsAtJoin == stage \in {"joining", "stopped"} => Waiting = {}

(* Letters of one priority are written in the order in which they were     *)
(* sent (MTGatewayWP2.cc: the two locks of transmitMessage are there so    *)
(* that no thread writes its message ahead of time).                       *)
WrittenInOrder ==
    \A i, j \in 1 .. Len(wire) :
        i < j /\ Pri[wire[i]] = Pri[wire[j]] => wire[i] < wire[j]
=============================================================================

---------------------------- MODULE QueueChannel ----------------------------
(***************************************************************************)
(* AppAgent::MTQueueChannel (AppAgent/AppAgent/src/MTQueueChannel.cc): an  *)
(* event channel that runs another one, the remote, in a worker thread and *)
(* exchanges events with it through two bounded queues.                    *)
(*                                                                         *)
(* One mutex and one condition variable (those of the shared EventFlag)    *)
(* guard the queues.  The application waits and works in short critical    *)
(* sections, one action each.  The worker keeps the mutex over most of its *)
(* loop, but state() is written by close() and abort() without the mutex,  *)
(* so the worker's loop is cut into one action per reading of state().     *)
(*                                                                         *)
(* The remotes are the file channels VisDataMux installs: synchronous,     *)
(* never raising the flag on their own account.                            *)
(***************************************************************************)
EXTENDS Integers, Sequences, SequencesExt

CONSTANTS
  QueueSize,   \* queue_size_
  NIn,         \* events the remote has to deliver
  NOut,        \* events the application posts at most (bound)
  MaxThrows,   \* exceptions the remote throws at most (bound)
  Calls,       \* operations the application uses
  Waits,       \* values of getEvent's wait argument it uses
  InputEnds,   \* after NIn events the remote reports CLOSED (else WAIT)
  FooterEnds   \* event NOut is a footer: once it has taken it the remote closes

Call == {"getEvent", "postEvent", "flush", "close", "abort"}

ASSUME SizeAssumption == QueueSize \in Nat \ {0}
ASSUME BoundAssumption == NIn \in Nat /\ NOut \in Nat /\ MaxThrows \in Nat
ASSUME UseAssumption ==
  /\ Calls \subseteq Call
  /\ Waits \subseteq {"WAIT", "NOWAIT"}
  /\ {InputEnds, FooterEnds} \subseteq BOOLEAN

VARIABLES
  cstate,      \* state() of the queue channel itself
  rstate,      \* how the remote is: not opened, open, or why it is CLOSED
  aborted,     \* aborted_
  post_queue, get_queue,
  err_queue,   \* number of exceptions in the list
  apc,         \* where the application is
  wpc,         \* where the worker is
  wback,       \* where the worker goes on once it has the mutex again
  asleep,      \* threads in condVar().wait()
  posted,      \* events 1..posted have been put on post_queue_
  sent,        \* events handed to remote().postEvent, in order
  nread,       \* events 1..nread have been taken from the remote
  got,         \* events getEvent returned to the application, in order
  throws,      \* exceptions the remote has thrown
  flushed      \* the application has called flush() and posted nothing since

vars == <<cstate, rstate, aborted, post_queue, get_queue, err_queue, apc, wpc,
          wback, asleep, posted, sent, nread, got, throws, flushed>>
queues == <<post_queue, get_queue, err_queue>>
history == <<posted, sent, nread, got, throws, flushed>>

AppIn   == {"posting", "getting", "flushing"}
Closing == {"closing", "aborting", "closeFlush", "closeClear", "closeWait", "join"}
WorkerAt == {"none", "init", "loop", "errors", "posts", "posting", "room",
             "drain", "get", "got", "gotNothing", "wait", "done"}

TypeOK ==
  /\ cstate \in {"OPEN", "CLOSED"}
  /\ rstate \in {"unopened", "open", "ended", "closed", "aborted"}
  /\ aborted \in BOOLEAN /\ flushed \in BOOLEAN
  /\ post_queue \in Seq(1..NOut) /\ get_queue \in Seq(1..NIn)
  /\ err_queue \in 0..MaxThrows /\ throws \in 0..MaxThrows
  /\ apc \in {"new", "idle", "closed"} \cup AppIn \cup Closing
  /\ wpc \in WorkerAt
  /\ wback \in {"loop", "errors", "posts", "drain"}
  /\ asleep \subseteq {"app", "worker"}
  /\ posted \in 0..NOut /\ nread \in 0..NIn
  /\ sent \in Seq(1..NOut) /\ got \in Seq(1..NIn)

\* The constructor VisDataMux uses, from a reference to the remote.  (The one
\* from a pointer, which nothing in the repository calls, leaves aborted_ unset.)
Init ==
  /\ cstate = "CLOSED" /\ rstate = "unopened" /\ aborted = FALSE
  /\ post_queue = <<>> /\ get_queue = <<>> /\ err_queue = 0
  /\ apc = "new" /\ wpc = "none" /\ wback = "loop" /\ asleep = {}
  /\ posted = 0 /\ sent = <<>> /\ nread = 0 /\ got = <<>> /\ throws = 0
  /\ flushed = FALSE

RemoteClosed == rstate # "open"

\* The mutex is free, for the application, unless the worker is in its loop.
MutexFree == wpc \in {"init", "wait", "posting", "done"}

\* assureRemoteInit: the worker's first broadcast ends this wait.
Ready == MutexFree /\ wpc # "init"

\* Mutant: the event flag is raised without waking anybody.
RaiseOnly == asleep' = asleep

Broadcast == asleep' = {}

AppSleeps == asleep' = asleep \cup {"app"}

-----------------------------------------------------------------------------
(* The application.                                                        *)

\* MTQueueChannel::init
InitChannel ==
  /\ apc = "new"
  /\ cstate' = "OPEN" /\ apc' = "idle" /\ wpc' = "init"
  /\ UNCHANGED <<rstate, aborted, queues, wback, asleep, history>>

\* checkErrorQueue finds errors: the list is emptied and thrown.
ThrowErrors ==
  /\ err_queue > 0
  /\ err_queue' = 0
  /\ Broadcast
  /\ apc' = "idle"
  /\ UNCHANGED <<cstate, rstate, aborted, post_queue, get_queue, wpc, wback, history>>

\* Mutant: the newest event goes to the front.
EnqueuedInFront(q, event) == <<event>> \o q

Enqueued(q, event) == Append(q, event)

\* postEvent, from the test of the queue's size on.
WaitForRoom ==
  /\ err_queue = 0 /\ Len(post_queue) >= QueueSize
  /\ AppSleeps
  /\ apc' = "posting"
  /\ UNCHANGED <<cstate, rstate, aborted, queues, wpc, wback, history>>

PushPost ==
  /\ err_queue = 0 /\ Len(post_queue) < QueueSize
  /\ posted' = posted + 1
  /\ post_queue' = Enqueued(post_queue, posted + 1)
  /\ flushed' = FALSE
  /\ Broadcast
  /\ apc' = "idle"
  /\ UNCHANGED <<cstate, rstate, aborted, get_queue, err_queue, wpc, wback,
                 sent, nread, got, throws>>

\* An operation finds the remote CLOSED and calls close().
CloseAfterRemote ==
  /\ RemoteClosed
  /\ apc' = "closing"
  /\ UNCHANGED <<cstate, rstate, aborted, queues, wpc, wback, asleep, history>>

PostEvent ==
  /\ apc = "idle" /\ "postEvent" \in Calls /\ posted < NOut
  /\ Ready
  /\ \/ CloseAfterRemote
     \/ ~ RemoteClosed /\ (ThrowErrors \/ WaitForRoom \/ PushPost)

PostWakes ==
  /\ apc = "posting" /\ "app" \notin asleep
  /\ Ready
  /\ ThrowErrors \/ WaitForRoom \/ PushPost

\* Mutant: the event stays at the head of the queue.
TakeEventWithoutPop ==
  /\ err_queue = 0 /\ get_queue # <<>>
  /\ got' = Append(got, Head(get_queue))
  /\ Broadcast
  /\ apc' = "idle"
  /\ UNCHANGED <<cstate, rstate, aborted, queues, wpc, wback,
                 posted, sent, nread, throws, flushed>>

\* getEvent with an empty mask.
TakeEvent ==
  /\ err_queue = 0 /\ get_queue # <<>>
  /\ got' = Append(got, Head(get_queue))
  /\ get_queue' = Tail(get_queue)
  /\ Broadcast
  /\ apc' = "idle"
  /\ UNCHANGED <<cstate, rstate, aborted, post_queue, err_queue, wpc, wback,
                 posted, sent, nread, throws, flushed>>

WaitForEvent ==
  /\ err_queue = 0 /\ get_queue = <<>>
  /\ AppSleeps
  /\ apc' = "getting"
  /\ UNCHANGED <<cstate, rstate, aborted, queues, wpc, wback, history>>

GetEvent(wait) ==
  /\ apc = "idle" /\ "getEvent" \in Calls
  /\ Ready
  /\ \/ ThrowErrors
     \/ TakeEvent
     \/ err_queue = 0 /\ get_queue = <<>> /\ CloseAfterRemote
     \/ wait = "WAIT" /\ ~ RemoteClosed /\ WaitForEvent

GetWakes ==
  /\ apc = "getting" /\ "app" \notin asleep
  /\ Ready
  /\ ThrowErrors \/ TakeEvent \/ WaitForEvent

\* Mutant: flush() looks at the other queue.
InputUnflushed == ~ aborted /\ get_queue # <<>>

Unflushed == ~ aborted /\ post_queue # <<>>

\* flush(), as a call of the application and as a part of close().
FlushTo(waiting, after) ==
  /\ Ready
  /\ IF Unflushed THEN AppSleeps /\ apc' = waiting
                  ELSE asleep' = asleep /\ apc' = after
  /\ UNCHANGED <<cstate, rstate, aborted, queues, wpc, wback, posted, sent,
                 nread, got, throws>>

Flush ==
  /\ \/ apc = "idle" /\ "flush" \in Calls
     \/ apc = "flushing" /\ "app" \notin asleep
  /\ FlushTo("flushing", "idle")
  /\ flushed' = (flushed \/ ~ Unflushed)

\* abort() sets aborted_ before it goes on to close(), neither with the mutex.
Abort ==
  /\ apc = "idle" /\ "abort" \in Calls
  /\ aborted' = TRUE
  /\ apc' = "aborting"
  /\ UNCHANGED <<cstate, rstate, queues, wpc, wback, asleep, history>>

\* close() sets the state, without the mutex; then, unless the channel was
\* aborted, it goes on to flush.
Close ==
  /\ \/ apc \in {"closing", "aborting"}
     \/ apc = "idle" /\ "close" \in Calls
  /\ cstate' = "CLOSED"
  /\ apc' = IF aborted THEN "closeClear" ELSE "closeFlush"
  /\ UNCHANGED <<rstate, aborted, queues, wpc, wback, asleep, history>>

CloseFlush ==
  /\ apc = "closeFlush" /\ "app" \notin asleep
  /\ FlushTo("closeFlush", "closeClear")
  /\ flushed' = flushed

\* close(): the queues are cleared, the worker is woken ...
CloseClear ==
  /\ apc = "closeClear" /\ Ready
  /\ get_queue' = <<>> /\ post_queue' = <<>>
  /\ IF RemoteClosed THEN asleep' = {} /\ apc' = "join"
                     ELSE asleep' = {"app"} /\ apc' = "closeWait"
  /\ UNCHANGED <<cstate, rstate, aborted, err_queue, wpc, wback, history>>

\* ... the remote's closing is waited for ...
CloseWait ==
  /\ apc = "closeWait" /\ "app" \notin asleep /\ Ready
  /\ IF RemoteClosed THEN apc' = "join" /\ asleep' = asleep
                     ELSE apc' = apc /\ AppSleeps
  /\ UNCHANGED <<cstate, rstate, aborted, queues, wpc, wback, history>>

\* ... and the worker is joined; errors left over are thrown.
Join ==
  /\ apc = "join" /\ wpc = "done"
  /\ err_queue' = 0
  /\ apc' = "closed"
  /\ UNCHANGED <<cstate, rstate, aborted, post_queue, get_queue, wpc, wback,
                 asleep, history>>

AppCalls == InitChannel \/ PostEvent \/ (\E w \in Waits : GetEvent(w)) \/ Abort
AppGoesOn == PostWakes \/ GetWakes \/ Flush \/ Close \/ CloseFlush \/ CloseClear
             \/ CloseWait \/ Join

-----------------------------------------------------------------------------
(* The worker: runWorker.                                                  *)

WorkerSleeps(back) ==
  wpc' = "wait" /\ wback' = back /\ asleep' = asleep \cup {"worker"}

\* Mutant: the exception is added where it is caught and again on the way out.
RemoteThrowsTwice == throws < MaxThrows /\ throws' = throws + 1
                     /\ err_queue' = err_queue + 2 /\ Broadcast

RemoteThrows == throws < MaxThrows /\ throws' = throws + 1
                /\ err_queue' = err_queue + 1 /\ Broadcast

\* The remote's state once state() has been looked at: a channel that has
\* been closed closes, or aborts, its remote.
EndRemoteAs(how) ==
  IF cstate = "CLOSED" /\ rstate = "open" THEN how ELSE rstate

\* Mutant: aborted_ is not looked at.
EndRemoteClosing == EndRemoteAs("closed")

EndRemote == EndRemoteAs(IF aborted THEN "aborted" ELSE "closed")

WorkerInit ==
  /\ wpc = "init"
  /\ \/ rstate' = "open" /\ Broadcast /\ UNCHANGED <<err_queue, throws>>
     \/ RemoteThrows /\ rstate' = rstate
  /\ wpc' = "loop"
  /\ UNCHANGED <<cstate, aborted, post_queue, get_queue, apc, wback, posted,
                 sent, nread, got, flushed>>

\* The mutex is taken again after a wait, or after a posting.
WorkerResumes ==
  /\ wpc = "wait" /\ "worker" \notin asleep
  /\ wpc' = wback
  /\ UNCHANGED <<cstate, rstate, aborted, queues, apc, wback, asleep, history>>

WorkerLoop ==
  /\ wpc = "loop"
  /\ IF RemoteClosed /\ get_queue = <<>>
     THEN wpc' = "done" /\ Broadcast
     ELSE wpc' = "errors" /\ asleep' = asleep
  /\ UNCHANGED <<cstate, rstate, aborted, queues, apc, wback, history>>

\* The "continue" of a CLOSED remote goes round the inner loop again.
WorkerErrors ==
  /\ wpc = "errors"
  /\ IF err_queue = 0
     THEN wpc' = "posts" /\ UNCHANGED <<rstate, wback, asleep>>
     ELSE /\ rstate' = EndRemoteAs("closed")
          /\ IF rstate' = "open" THEN WorkerSleeps("errors")
                                 ELSE UNCHANGED <<wpc, wback, asleep>>
  /\ UNCHANGED <<cstate, aborted, queues, apc, history>>

WorkerPosts ==
  /\ wpc = "posts"
  /\ IF post_queue = <<>>
     THEN wpc' = "room" /\ UNCHANGED <<rstate, post_queue, asleep, sent>>
     ELSE /\ rstate' = EndRemote
          /\ IF rstate' = "open"
             THEN /\ sent' = Append(sent, Head(post_queue))
                  /\ post_queue' = Tail(post_queue)
                  /\ Broadcast
                  /\ wpc' = "posting"
             ELSE post_queue' = <<>> /\ wpc' = "room" /\ UNCHANGED <<asleep, sent>>
  /\ UNCHANGED <<cstate, aborted, get_queue, err_queue, apc, wback, posted,
                 nread, got, throws, flushed>>

\* remote().postEvent, outside the mutex.
RemotePost ==
  /\ wpc = "posting"
  /\ \/ /\ rstate' = IF FooterEnds /\ Last(sent) = NOut THEN "ended" ELSE rstate
        /\ wpc' = "wait" /\ wback' = "posts"
        /\ UNCHANGED <<err_queue, asleep, throws>>
     \/ RemoteThrows /\ wpc' = "posts" /\ UNCHANGED <<rstate, wback>>
  /\ UNCHANGED <<cstate, aborted, post_queue, get_queue, apc, posted, sent,
                 nread, got, flushed>>

\* Mutant: one event too many.
InputOverfull == Len(get_queue) > QueueSize

InputFull == Len(get_queue) >= QueueSize

WorkerRoom ==
  /\ wpc = "room"
  /\ IF InputFull
     THEN rstate' = rstate /\ WorkerSleeps("loop")
     ELSE /\ rstate' = EndRemote
          /\ wpc' = IF rstate' = "open" THEN "get" ELSE "drain"
          /\ UNCHANGED <<wback, asleep>>
  /\ UNCHANGED <<cstate, aborted, queues, apc, history>>

WorkerDrain ==
  /\ wpc = "drain"
  /\ IF get_queue # <<>> THEN WorkerSleeps("drain")
                         ELSE wpc' = "loop" /\ UNCHANGED <<wback, asleep>>
  /\ UNCHANGED <<cstate, rstate, aborted, queues, apc, history>>

\* remote().getEvent(NOWAIT): an event, an exception, the end, or nothing.
WorkerGet ==
  /\ wpc = "get"
  /\ \/ /\ nread < NIn
        /\ nread' = nread + 1
        /\ get_queue' = Enqueued(get_queue, nread + 1)
        /\ Broadcast
        /\ wpc' = "got"
        /\ UNCHANGED <<rstate, err_queue, throws>>
     \/ RemoteThrows /\ wpc' = "loop" /\ UNCHANGED <<rstate, get_queue, nread>>
     \/ /\ nread = NIn
        /\ IF InputEnds THEN rstate' = "ended" /\ wpc' = "got"
                        ELSE rstate' = rstate /\ wpc' = "gotNothing"
        /\ UNCHANGED <<get_queue, err_queue, asleep, nread, throws>>
  /\ UNCHANGED <<cstate, aborted, post_queue, apc, wback, posted, sent, got, flushed>>

WorkerGot ==
  /\ wpc \in {"got", "gotNothing"}
  /\ rstate' = EndRemote
  /\ IF rstate' = "open" /\ wpc = "gotNothing"
     THEN WorkerSleeps("loop")
     ELSE wpc' = "loop" /\ UNCHANGED <<wback, asleep>>
  /\ UNCHANGED <<cstate, aborted, queues, apc, history>>

Worker == WorkerInit \/ WorkerResumes \/ WorkerLoop \/ WorkerErrors \/ WorkerPosts
          \/ RemotePost \/ WorkerRoom \/ WorkerDrain \/ WorkerGet \/ WorkerGot

-----------------------------------------------------------------------------
Next == AppCalls \/ AppGoesOn \/ Worker

Spec == Init /\ [][Next]_vars

\* Threads that can run do run.  Which operations the application calls is
\* its own affair; an operation it is in goes on.
FairSpec == Spec /\ WF_vars(Worker) /\ WF_vars(AppGoesOn /\ apc # "idle")

-----------------------------------------------------------------------------
Upto(n) == [i \in 1..n |-> i]

\* Neither queue outgrows queue_size_, whoever wakes first when room appears.
QueueLimits == Len(post_queue) <= QueueSize /\ Len(get_queue) <= QueueSize

\* Events of the remote reach the application in the order the remote gave
\* them, none twice; none is missing until the channel is closed, when what
\* is still in the queue is dropped.
InputInOrder ==
  /\ IsPrefix(got, Upto(nread))
  /\ cstate = "OPEN" => got \o get_queue = Upto(nread)

\* Posted events are handed to the remote in the order they were posted, none
\* twice; as long as both channels are open none is missing.
OutputInOrder ==
  /\ IsPrefix(sent, Upto(posted))
  /\ (cstate = "OPEN" /\ rstate = "open") => sent \o post_queue = Upto(posted)

\* While the worker sleeps, or after it has left, what the application sleeps
\* for has not happened yet: no wakeup is lost between the two threads.
StillWaiting ==
  [posting    |-> Len(post_queue) >= QueueSize /\ err_queue = 0,
   getting    |-> get_queue = <<>> /\ err_queue = 0,
   flushing   |-> post_queue # <<>>,
   closeFlush |-> post_queue # <<>>,
   closeWait  |-> ~ RemoteClosed]

WakeupKept ==
  ("app" \in asleep /\ ("worker" \in asleep \/ wpc = "done")) => StillWaiting[apc]

\* The two threads do not sleep at the same time, except when the application
\* waits for an event the remote does not have.
NeverBothAsleep ==
  asleep = {"app", "worker"} => apc = "getting" /\ nread = NIn

\* A close that follows a flush drops nothing: what was posted has been handed
\* to the remote by the time it returns, unless the remote had closed by itself
\* (VisDataMux.cc:788 flushes the output channel before it closes it).  A close
\* on its own, which "flushes output events" by MTQueueChannel.h:74, does drop
\* them: close() sets the state first, and a worker that sees it clears the queue.
CloseAfterFlush ==
  (apc = "closed" /\ flushed /\ ~ aborted /\ rstate = "closed") => sent = Upto(posted)

\* An aborted channel aborts its remote, which drops its recordings; a closed
\* channel closes it, which keeps them.
EndsAsAsked ==
  apc = "closed" => rstate \in {"unopened", "ended", IF aborted THEN "aborted" ELSE "closed"}

\* Every operation of the application that has begun returns, the waiting
\* getEvent that has no event to come excepted, and the channel that is
\* closed with an exception still in its list.
Excepted == \/ apc = "getting" /\ nread = NIn
            \/ cstate = "CLOSED" /\ err_queue > 0
CallsReturn ==
  (apc \in AppIn \cup Closing) ~> (apc \in {"idle", "closed"} \/ Excepted)

=============================================================================

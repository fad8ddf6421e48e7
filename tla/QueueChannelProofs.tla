------------------------- MODULE QueueChannelProofs -------------------------
(***************************************************************************)
(* What a queue channel guarantees for every size of its queues, every     *)
(* number of events, every remote and every use of its operations: the     *)
(* queues are bounded, events keep their order, and the remote is ended    *)
(* the way the application asked for.                                      *)
(***************************************************************************)
EXTENDS QueueChannel, TLAPS, SequenceTheorems

\* The worker reads an event only after it has seen room for it.
RoomSeen == wpc = "get" => Len(get_queue) < QueueSize

\* Only the application closes the channel, and then it is past its calls.
OpenInCalls ==
  /\ apc \in {"idle", "closing", "aborting"} \cup AppIn => cstate = "OPEN"
  /\ apc \in Closing \ {"closing", "aborting"} => cstate = "CLOSED"

\* Nothing moves before the remote has been initialised.
NothingYet ==
  /\ apc = "new" => wpc = "none"
  /\ wpc \in {"none", "init"} =>
       /\ rstate = "unopened" /\ err_queue = 0
       /\ posted = 0 /\ post_queue = <<>> /\ sent = <<>>
       /\ nread = 0 /\ get_queue = <<>> /\ got = <<>>

\* How the remote came to its end: a closed remote of an aborted channel is
\* found only where the worker spins over an exception nobody will fetch.
EndKnown ==
  /\ rstate \in {"closed", "aborted"} => cstate = "CLOSED"
  /\ rstate = "aborted" => aborted
  /\ rstate = "closed" /\ aborted => wpc = "errors" /\ err_queue > 0
  /\ wpc = "done" => rstate # "open"
  /\ apc = "closed" => wpc = "done"

Control ==
  /\ TypeOK
  /\ OpenInCalls
  /\ NothingYet
  /\ EndKnown
  /\ err_queue <= throws
  /\ apc = "posting" => posted < NOut

\* A sequence counts on from n: n+1, n+2, ...
From(s, n) == \A i \in 1..Len(s) : s[i] = n + i

Input ==
  /\ From(got, 0) /\ Len(got) <= nread
  /\ cstate = "OPEN" => /\ nread = Len(got) + Len(get_queue)
                        /\ From(get_queue, Len(got))

Output ==
  /\ From(sent, 0) /\ Len(sent) <= posted
  /\ cstate = "OPEN" /\ rstate = "open" => /\ posted = Len(sent) + Len(post_queue)
                                           /\ From(post_queue, Len(sent))

Inv == Control /\ QueueLimits /\ RoomSeen /\ Input /\ Output

-----------------------------------------------------------------------------
\* Taking the head off a sequence that counts on from n.
LEMMA FromTail ==
  ASSUME NEW S, NEW s \in Seq(S), s # <<>>, NEW n \in Nat, From(s, n)
  PROVE  /\ Head(s) \in S /\ Head(s) = n + 1
         /\ Tail(s) \in Seq(S) /\ Len(Tail(s)) = Len(s) - 1 /\ Len(s) \in Nat
         /\ From(Tail(s), n + 1)
<1>1. Len(s) \in Nat /\ Len(s) >= 1 /\ Head(s) = s[1]
  OBVIOUS
<1>2. /\ Head(s) \in S /\ Tail(s) \in Seq(S) /\ Len(Tail(s)) = Len(s) - 1
      /\ \A i \in 1..Len(Tail(s)) : Tail(s)[i] = s[i + 1]
  BY HeadTailProperties
<1>3. s[1] = n + 1
  BY <1>1 DEF From
<1>4. From(Tail(s), n + 1)
  <2> SUFFICES ASSUME NEW i \in 1..Len(Tail(s)) PROVE Tail(s)[i] = n + 1 + i
    BY DEF From
  <2>1. i + 1 \in 1..Len(s)
    BY <1>1, <1>2
  <2>2. s[i + 1] = n + (i + 1)
    BY <2>1 DEF From
  <2> QED BY <1>2, <2>2
<1> QED BY <1>1, <1>2, <1>3, <1>4

\* Appending the next number to it.
LEMMA FromAppend ==
  ASSUME NEW S, NEW s \in Seq(S), NEW n \in Nat, From(s, n), n + Len(s) + 1 \in S
  PROVE  /\ Append(s, n + Len(s) + 1) \in Seq(S)
         /\ Len(Append(s, n + Len(s) + 1)) = Len(s) + 1
         /\ From(Append(s, n + Len(s) + 1), n)
<1>1. Len(s) \in Nat
  OBVIOUS
<1>2. /\ Append(s, n + Len(s) + 1) \in Seq(S)
      /\ Len(Append(s, n + Len(s) + 1)) = Len(s) + 1
      /\ \A i \in 1..Len(s) : Append(s, n + Len(s) + 1)[i] = s[i]
      /\ Append(s, n + Len(s) + 1)[Len(s) + 1] = n + Len(s) + 1
  BY AppendProperties
<1>3. From(Append(s, n + Len(s) + 1), n)
  <2> SUFFICES ASSUME NEW i \in 1..Len(s) + 1
      PROVE  Append(s, n + Len(s) + 1)[i] = n + i
    BY <1>2 DEF From
  <2>1. CASE i = Len(s) + 1
    BY <1>1, <1>2, <2>1
  <2>2. CASE i \in 1..Len(s)
    BY <1>2, <2>2 DEF From
  <2> QED BY <1>1, <2>1, <2>2
<1> QED BY <1>2, <1>3

\* A sequence that counts from 0 is a prefix of 1, 2, ..., n.
LEMMA FromIsPrefix ==
  ASSUME NEW S, NEW s \in Seq(S), NEW n \in Nat, From(s, 0), Len(s) <= n
  PROVE  IsPrefix(s, Upto(n))
<1>1. Len(s) \in Nat
  OBVIOUS
<1>2. Len(Upto(n)) = n /\ Upto(n) \in Seq(Nat)
  BY DEF Upto
<1>3. SubSeq(s, 1, Len(s)) = SubSeq(Upto(n), 1, Len(s))
  BY <1>1, <1>2 DEF From, Upto
<1> QED BY <1>2, <1>3 DEF IsPrefix

\* Two sequences that count on from each other make up 1, 2, ..., n.
LEMMA FromIsUpto ==
  ASSUME NEW s \in Seq(Nat), NEW t \in Seq(Nat), NEW n \in Nat,
         From(s, 0), From(t, Len(s)), n = Len(s) + Len(t)
  PROVE  s \o t = Upto(n)
<1>1. Len(s) \in Nat /\ Len(t) \in Nat
  OBVIOUS
<1>2. Len(s \o t) = n /\ s \o t \in Seq(Nat)
  BY ConcatProperties
<1>3. \A i \in 1..n : (s \o t)[i] = i
  <2> SUFFICES ASSUME NEW i \in 1..n PROVE (s \o t)[i] = i
    OBVIOUS
  <2>1. (s \o t)[i] = IF i <= Len(s) THEN s[i] ELSE t[i - Len(s)]
    BY ConcatProperties
  <2>2. CASE i <= Len(s)
    BY <1>1, <2>1, <2>2 DEF From
  <2>3. CASE ~ (i <= Len(s))
    <3>1. i - Len(s) \in 1..Len(t)
      BY <1>1, <2>3
    <3>2. t[i - Len(s)] = Len(s) + (i - Len(s))
      BY <3>1 DEF From
    <3> QED BY <1>1, <2>1, <2>3, <3>2
  <2> QED BY <2>2, <2>3
<1>4. Upto(n) \in Seq(Nat) /\ Len(Upto(n)) = n /\ \A i \in 1..n : Upto(n)[i] = i
  BY DEF Upto
<1> QED BY <1>2, <1>3, <1>4, SeqEqual

-----------------------------------------------------------------------------
\* The constructor of a new channel.
THEOREM InitInv == Init => Inv
<1> SUFFICES ASSUME Init PROVE Inv
  OBVIOUS
<1>1. TypeOK
  <2>1. post_queue \in Seq(1..NOut) /\ sent \in Seq(1..NOut)
    BY EmptySeq DEF Init
  <2>2. get_queue \in Seq(1..NIn) /\ got \in Seq(1..NIn)
    BY EmptySeq DEF Init
  <2>3. /\ err_queue \in 0..MaxThrows /\ throws \in 0..MaxThrows
        /\ posted \in 0..NOut /\ nread \in 0..NIn
    BY BoundAssumption DEF Init
  <2> QED BY <2>1, <2>2, <2>3 DEF Init, TypeOK, WorkerAt
<1>2. OpenInCalls /\ NothingYet /\ EndKnown /\ err_queue <= throws /\ apc # "posting"
  BY DEF Init, OpenInCalls, NothingYet, EndKnown, AppIn, Closing
<1>3. QueueLimits /\ RoomSeen
  BY SizeAssumption DEF Init, QueueLimits, RoomSeen
<1>4. Input /\ Output
  BY DEF Init, Input, Output, From
<1> QED BY <1>1, <1>2, <1>3, <1>4 DEF Inv, Control

-----------------------------------------------------------------------------
\* The parts of the application's operations leave types and control as they
\* should be.
LEMMA CallParts ==
  ASSUME Inv, Ready, apc \in {"idle", "posting", "getting"}
  PROVE  /\ ThrowErrors => Control'
         /\ WaitForRoom /\ posted < NOut => Control'
         /\ PushPost /\ posted < NOut => Control'
         /\ TakeEvent => Control'
         /\ WaitForEvent => Control'
         /\ apc = "idle" /\ CloseAfterRemote => Control'
<1> USE BoundAssumption, SizeAssumption
    DEF Inv, Control, TypeOK, OpenInCalls, NothingYet, EndKnown,
        AppIn, Closing, WorkerAt, queues, history, MutexFree, Ready, RemoteClosed,
        Broadcast, AppSleeps
<1>1. ASSUME ThrowErrors PROVE Control'
  BY <1>1 DEF ThrowErrors
<1>2. ASSUME WaitForRoom, posted < NOut PROVE Control'
  BY <1>2 DEF WaitForRoom
<1>3. ASSUME PushPost, posted < NOut PROVE Control'
  <2>1. posted + 1 \in 1..NOut /\ post_queue' \in Seq(1..NOut)
    BY <1>3 DEF PushPost, Enqueued
  <2>2. /\ posted' \in 0..NOut /\ flushed' \in BOOLEAN /\ asleep' = {} /\ apc' = "idle"
        /\ UNCHANGED <<cstate, rstate, aborted, get_queue, err_queue, wpc, wback,
                       sent, nread, got, throws>>
    <3>1. posted' \in 0..NOut
      BY <1>3, <2>1 DEF PushPost
    <3> QED
      <4> HIDE DEF Inv
      <4> QED BY <1>3, <3>1 DEF PushPost
  <2>t. TypeOK'
    BY <2>1, <2>2
  <2>c. OpenInCalls' /\ NothingYet' /\ EndKnown' /\ err_queue' <= throws'
    BY <1>3, <2>1 DEF PushPost
  <2>p. apc' = "posting" => posted' < NOut
    BY <1>3, <2>1 DEF PushPost
  <2> QED BY <2>t, <2>c, <2>p
<1>4. ASSUME TakeEvent PROVE Control'
  <2>1. Head(get_queue) \in 1..NIn /\ Tail(get_queue) \in Seq(1..NIn)
    BY <1>4 DEF TakeEvent
  <2>2. got' \in Seq(1..NIn) /\ get_queue' \in Seq(1..NIn)
    BY <1>4, <2>1 DEF TakeEvent
  <2> QED BY <1>4, <2>2 DEF TakeEvent
<1>5. ASSUME WaitForEvent PROVE Control'
  BY <1>5 DEF WaitForEvent
<1>6. ASSUME apc = "idle", CloseAfterRemote PROVE Control'
  BY <1>6 DEF CloseAfterRemote
<1> QED BY <1>1, <1>2, <1>3, <1>4, <1>5, <1>6

\* Ending the remote touches an open one only, and only for a closed channel.
LEMMA EndRemoteKnown ==
  \/ EndRemote = rstate
  \/ /\ cstate = "CLOSED" /\ rstate = "open"
     /\ EndRemote = IF aborted THEN "aborted" ELSE "closed"
BY DEF EndRemote, EndRemoteAs

\* Types and control: no step of either thread disturbs them.
LEMMA ControlStep ==
  ASSUME Inv, Next
  PROVE  Control'
<1> USE BoundAssumption, SizeAssumption
    DEF Inv, Control, TypeOK, OpenInCalls, NothingYet, EndKnown,
        AppIn, Closing, WorkerAt, queues, history, MutexFree, Ready, RemoteClosed,
        Broadcast, AppSleeps, WorkerSleeps
<1>1. CASE InitChannel
  <2>t. TypeOK'
    BY <1>1 DEF InitChannel
  <2>c. OpenInCalls' /\ NothingYet' /\ EndKnown' /\ err_queue' <= throws'
    BY <1>1 DEF InitChannel
  <2>p. apc' = "posting" => posted' < NOut
    BY <1>1 DEF InitChannel
  <2> QED BY <2>t, <2>c, <2>p
<1>2. CASE PostEvent
  BY <1>2, CallParts DEF PostEvent
<1>3. CASE PostWakes
  BY <1>3, CallParts DEF PostWakes
<1>4. ASSUME NEW w \in Waits, GetEvent(w) PROVE Control'
  BY <1>4, CallParts DEF GetEvent
<1>5. CASE GetWakes
  BY <1>5, CallParts DEF GetWakes
<1>6. CASE Flush
  <2>t. TypeOK'
    BY <1>6 DEF Flush, FlushTo, Unflushed
  <2>c. OpenInCalls' /\ NothingYet' /\ EndKnown' /\ err_queue' <= throws'
    BY <1>6 DEF Flush, FlushTo, Unflushed
  <2>p. apc' = "posting" => posted' < NOut
    BY <1>6 DEF Flush, FlushTo, Unflushed
  <2> QED BY <2>t, <2>c, <2>p
<1>7. CASE Close
  <2>t. TypeOK'
    BY <1>7 DEF Close
  <2>c. OpenInCalls' /\ NothingYet' /\ EndKnown' /\ err_queue' <= throws'
    BY <1>7 DEF Close
  <2>p. apc' = "posting" => posted' < NOut
    BY <1>7 DEF Close
  <2> QED BY <2>t, <2>c, <2>p
<1>8. CASE Abort
  <2>t. TypeOK'
    BY <1>8 DEF Abort
  <2>c. OpenInCalls' /\ NothingYet' /\ EndKnown' /\ err_queue' <= throws'
    BY <1>8 DEF Abort
  <2>p. apc' = "posting" => posted' < NOut
    BY <1>8 DEF Abort
  <2> QED BY <2>t, <2>c, <2>p
<1>9. CASE CloseFlush
  <2>t. TypeOK'
    BY <1>9 DEF CloseFlush, FlushTo, Unflushed
  <2>c. OpenInCalls' /\ NothingYet' /\ EndKnown' /\ err_queue' <= throws'
    BY <1>9 DEF CloseFlush, FlushTo, Unflushed
  <2>p. apc' = "posting" => posted' < NOut
    BY <1>9 DEF CloseFlush, FlushTo, Unflushed
  <2> QED BY <2>t, <2>c, <2>p
<1>10. CASE CloseClear
  <2>t. TypeOK'
    BY <1>10 DEF CloseClear
  <2>c. OpenInCalls' /\ NothingYet' /\ EndKnown' /\ err_queue' <= throws'
    BY <1>10 DEF CloseClear
  <2>p. apc' = "posting" => posted' < NOut
    BY <1>10 DEF CloseClear
  <2> QED BY <2>t, <2>c, <2>p
<1>11. CASE CloseWait
  <2>t. TypeOK'
    BY <1>11 DEF CloseWait
  <2>c. OpenInCalls' /\ NothingYet' /\ EndKnown' /\ err_queue' <= throws'
    BY <1>11 DEF CloseWait
  <2>p. apc' = "posting" => posted' < NOut
    BY <1>11 DEF CloseWait
  <2> QED BY <2>t, <2>c, <2>p
<1>12. CASE Join
  <2>t. TypeOK'
    BY <1>12 DEF Join
  <2>c. OpenInCalls' /\ NothingYet' /\ EndKnown' /\ err_queue' <= throws'
    BY <1>12 DEF Join
  <2>p. apc' = "posting" => posted' < NOut
    BY <1>12 DEF Join
  <2> QED BY <2>t, <2>c, <2>p
<1>13. CASE WorkerInit
  <2>t. TypeOK'
    BY <1>13 DEF WorkerInit, RemoteThrows
  <2>c. OpenInCalls' /\ NothingYet' /\ EndKnown' /\ err_queue' <= throws'
    BY <1>13 DEF WorkerInit, RemoteThrows
  <2>p. apc' = "posting" => posted' < NOut
    BY <1>13 DEF WorkerInit, RemoteThrows
  <2> QED BY <2>t, <2>c, <2>p
<1>14. CASE WorkerResumes
  <2>t. TypeOK'
    BY <1>14 DEF WorkerResumes
  <2>c. OpenInCalls' /\ NothingYet' /\ EndKnown' /\ err_queue' <= throws'
    BY <1>14 DEF WorkerResumes
  <2>p. apc' = "posting" => posted' < NOut
    BY <1>14 DEF WorkerResumes
  <2> QED BY <2>t, <2>c, <2>p
<1>15. CASE WorkerLoop
  <2>t. TypeOK'
    <3>1. /\ asleep' \in {asleep, {}} /\ wpc' \in {"done", "errors"}
          /\ UNCHANGED <<cstate, rstate, aborted, post_queue, get_queue, err_queue, throws,
                         apc, wback, posted, nread, sent, got, flushed>>
      BY <1>15 DEF WorkerLoop
    <3>2. TypeOK
      OBVIOUS
    <3> HIDE DEF Inv, Control, OpenInCalls, NothingYet, EndKnown
    <3> QED BY <3>1, <3>2
  <2>c. OpenInCalls' /\ NothingYet' /\ EndKnown' /\ err_queue' <= throws'
    BY <1>15 DEF WorkerLoop
  <2>p. apc' = "posting" => posted' < NOut
    BY <1>15 DEF WorkerLoop
  <2> QED BY <2>t, <2>c, <2>p
<1>16. CASE WorkerErrors
  <2>1. CASE err_queue = 0
    <3>t. TypeOK'
      BY ZenonT(40), <1>16, <2>1 DEF WorkerErrors
    <3>c. OpenInCalls' /\ NothingYet' /\ EndKnown' /\ err_queue' <= throws'
      BY <1>16, <2>1 DEF WorkerErrors
    <3>p. apc' = "posting" => posted' < NOut
      BY <1>16, <2>1 DEF WorkerErrors
    <3> QED BY <3>t, <3>c, <3>p
  <2>2. CASE err_queue # 0
    <3>1. rstate' \in {rstate, "closed"} /\ (rstate' = "closed" /\ rstate # "closed" => cstate = "CLOSED")
      BY <1>16, <2>2 DEF WorkerErrors, EndRemoteAs
    <3>t. TypeOK'
      BY ZenonT(40), <1>16, <2>2, <3>1 DEF WorkerErrors
    <3>c. OpenInCalls' /\ NothingYet' /\ EndKnown' /\ err_queue' <= throws'
      BY <1>16, <2>2, <3>1 DEF WorkerErrors
    <3>p. apc' = "posting" => posted' < NOut
      BY <1>16, <2>2, <3>1 DEF WorkerErrors
    <3> QED BY <3>t, <3>c, <3>p
  <2> QED BY <2>1, <2>2
<1>17. CASE WorkerPosts
  <2>1. CASE post_queue = <<>>
    BY ZenonT(40), <1>17, <2>1 DEF WorkerPosts
  <2>2. CASE post_queue # <<>>
    <3>1. Head(post_queue) \in 1..NOut /\ Tail(post_queue) \in Seq(1..NOut)
      BY <2>2
    <3>2. post_queue' \in Seq(1..NOut) /\ sent' \in Seq(1..NOut)
      <4>1. CASE EndRemote = "open"
        <5>1. post_queue' = Tail(post_queue) /\ sent' = Append(sent, Head(post_queue))
          <6> HIDE DEF Inv
          <6> QED BY <1>17, <2>2, <4>1 DEF WorkerPosts
        <5> QED BY <3>1, <5>1
      <4>2. CASE EndRemote # "open"
        BY <1>17, <2>2, <4>2, EmptySeq DEF WorkerPosts
      <4> QED BY <4>1, <4>2
    <3>3. /\ wpc = "posts" /\ rstate' = EndRemote
          /\ wpc' \in {"posting", "room"} /\ asleep' \subseteq asleep
          /\ UNCHANGED <<cstate, aborted, get_queue, err_queue, apc, wback, posted,
                         nread, got, throws, flushed>>
      BY <1>17, <2>2 DEF WorkerPosts
    <3> HIDE DEF Broadcast
    <3>t. TypeOK'
      BY <3>2, <3>3, EndRemoteKnown
    <3>c. OpenInCalls' /\ NothingYet' /\ EndKnown' /\ err_queue' <= throws'
      BY <3>2, <3>3, EndRemoteKnown
    <3>p. apc' = "posting" => posted' < NOut
      BY <3>2, <3>3, EndRemoteKnown
    <3> QED BY <3>t, <3>c, <3>p
  <2> QED BY <2>1, <2>2
<1>18. CASE RemotePost
  <2>1. CASE RemoteThrows
    BY SMTT(20), <1>18, <2>1 DEF RemotePost, RemoteThrows
  <2>2. CASE UNCHANGED <<err_queue, asleep, throws>>
    BY SMTT(20), <1>18, <2>2 DEF RemotePost
  <2>3. RemoteThrows \/ UNCHANGED <<err_queue, asleep, throws>>
    <3> HIDE DEF Inv
    <3> QED BY <1>18 DEF RemotePost
  <2> QED BY <2>1, <2>2, <2>3
<1>19. CASE WorkerRoom
  <2>t. TypeOK'
    BY ZenonT(40), <1>19, EndRemoteKnown DEF WorkerRoom
  <2>c. OpenInCalls' /\ NothingYet' /\ EndKnown' /\ err_queue' <= throws'
    BY <1>19, EndRemoteKnown DEF WorkerRoom
  <2>p. apc' = "posting" => posted' < NOut
    BY <1>19, EndRemoteKnown DEF WorkerRoom
  <2> QED BY <2>t, <2>c, <2>p
<1>20. CASE WorkerDrain
  <2>t. TypeOK'
    BY ZenonT(40), <1>20 DEF WorkerDrain
  <2>c. OpenInCalls' /\ NothingYet' /\ EndKnown' /\ err_queue' <= throws'
    BY <1>20 DEF WorkerDrain
  <2>p. apc' = "posting" => posted' < NOut
    BY <1>20 DEF WorkerDrain
  <2> QED BY <2>t, <2>c, <2>p
<1>21. CASE WorkerGet
  <2>1. CASE nread < NIn /\ nread' = nread + 1
    <3>0. nread + 1 \in 1..NIn /\ get_queue' = Append(get_queue, nread + 1)
      BY <1>21, <2>1 DEF WorkerGet, Enqueued
    <3>1. get_queue' \in Seq(1..NIn) /\ nread' \in 0..NIn
      BY <2>1, <3>0
    <3>t. TypeOK'
      BY SMTT(20), <1>21, <2>1, <3>1 DEF WorkerGet
    <3>c. OpenInCalls' /\ NothingYet' /\ EndKnown' /\ err_queue' <= throws'
      BY SMTT(20), <1>21, <2>1, <3>1 DEF WorkerGet
    <3>p. apc' = "posting" => posted' < NOut
      BY <1>21, <2>1, <3>1 DEF WorkerGet
    <3> QED BY <3>t, <3>c, <3>p
  <2>2. CASE RemoteThrows /\ nread' = nread
    BY SMTT(20), <1>21, <2>2 DEF WorkerGet, RemoteThrows
  <2>3. CASE nread = NIn /\ UNCHANGED <<get_queue, err_queue, asleep, nread, throws>>
    BY <1>21, <2>3 DEF WorkerGet
  <2> QED BY <1>21, <2>1, <2>2, <2>3 DEF WorkerGet
<1>22. CASE WorkerGot
  <2>t. TypeOK'
    BY ZenonT(40), <1>22, EndRemoteKnown DEF WorkerGot
  <2>c. OpenInCalls' /\ NothingYet' /\ EndKnown' /\ err_queue' <= throws'
    BY <1>22, EndRemoteKnown DEF WorkerGot
  <2>p. apc' = "posting" => posted' < NOut
    BY <1>22, EndRemoteKnown DEF WorkerGot
  <2> QED BY <2>t, <2>c, <2>p
<1> QED BY <1>1, <1>2, <1>3, <1>4, <1>5, <1>6, <1>7, <1>8, <1>9, <1>10, <1>11, <1>12, <1>13, <1>14, <1>15, <1>16, <1>17, <1>18, <1>19, <1>20, <1>21, <1>22
       DEF Next, AppCalls, AppGoesOn, Worker

-----------------------------------------------------------------------------
\* Types of the sequences and numbers, for the proofs about them.
LEMMA Types ==
  ASSUME Inv
  PROVE  /\ post_queue \in Seq(1..NOut) /\ sent \in Seq(1..NOut)
         /\ get_queue \in Seq(1..NIn) /\ got \in Seq(1..NIn)
         /\ posted \in Nat /\ nread \in Nat /\ QueueSize \in Nat \ {0}
         /\ Len(post_queue) \in Nat /\ Len(get_queue) \in Nat
         /\ Len(sent) \in Nat /\ Len(got) \in Nat
BY BoundAssumption, SizeAssumption DEF Inv, Control, TypeOK

\* The invariant of the data, which the steps below carry over together.
Data == QueueLimits /\ RoomSeen /\ Input /\ Output

\* Most steps touch no sequence: it is enough that they do not open the
\* channel or the remote, and do not send the worker to read.
LEMMA InputKept ==
  ASSUME Inv, UNCHANGED <<get_queue, nread, got>>,
         cstate' = "OPEN" => \/ cstate = "OPEN"
                             \/ nread = 0 /\ get_queue = <<>> /\ got = <<>>
  PROVE  Input'
<1>1. From(got, 0) /\ Len(got) <= nread
  BY DEF Inv, Input
<1>2. ASSUME cstate' = "OPEN" PROVE nread = Len(got) + Len(get_queue) /\ From(get_queue, Len(got))
  BY <1>2 DEF Inv, Input, From
<1> QED BY <1>1, <1>2 DEF Input, From

LEMMA OutputKept ==
  ASSUME Inv, UNCHANGED <<post_queue, posted, sent>>,
         cstate' = "OPEN" /\ rstate' = "open" =>
            \/ cstate = "OPEN" /\ rstate = "open"
            \/ posted = 0 /\ post_queue = <<>> /\ sent = <<>>
  PROVE  Output'
<1>1. From(sent, 0) /\ Len(sent) <= posted
  BY DEF Inv, Output
<1>2. ASSUME cstate' = "OPEN", rstate' = "open"
      PROVE  posted = Len(sent) + Len(post_queue) /\ From(post_queue, Len(sent))
  BY <1>2 DEF Inv, Output, From
<1> QED BY <1>1, <1>2 DEF Output, From

LEMMA DataKept ==
  ASSUME Inv, UNCHANGED <<cstate, post_queue, get_queue, posted, sent, nread, got>>,
         rstate' = "open" => rstate = "open", wpc' = "get" => wpc = "get"
  PROVE  Data'
<1>1. Input' /\ Output'
  BY InputKept, OutputKept
<1> QED BY <1>1 DEF Data, Inv, QueueLimits, RoomSeen

\* The parts of the application's operations.
LEMMA CallPartsData ==
  ASSUME Inv, Ready, apc \in {"idle", "posting", "getting"}
  PROVE  ThrowErrors \/ WaitForRoom \/ PushPost \/ TakeEvent \/ WaitForEvent
           \/ CloseAfterRemote => Data'
<1>t. /\ post_queue \in Seq(1..NOut) /\ get_queue \in Seq(1..NIn) /\ got \in Seq(1..NIn)
      /\ posted \in Nat /\ nread \in Nat /\ QueueSize \in Nat \ {0}
      /\ Len(post_queue) \in Nat /\ Len(get_queue) \in Nat /\ Len(sent) \in Nat /\ Len(got) \in Nat
  BY Types
<1>o. cstate = "OPEN"
  BY DEF Inv, Control, OpenInCalls, AppIn
<1>w. wpc # "get"
  BY DEF Ready, MutexFree
<1>1. CASE ThrowErrors
  BY <1>1, DataKept DEF ThrowErrors, history
<1>2. CASE WaitForRoom
  BY <1>2, DataKept DEF WaitForRoom, history, queues
<1>3. CASE PushPost
  <2>1. /\ Len(post_queue) < QueueSize /\ post_queue' = Append(post_queue, posted + 1)
        /\ posted' = posted + 1
        /\ UNCHANGED <<cstate, rstate, wpc, get_queue, nread, got, sent>>
    BY <1>3 DEF PushPost, Enqueued
  <2>2. Input'
    BY <2>1, <1>o, InputKept
  <2>3. From(sent, 0) /\ Len(sent) <= posted
    BY DEF Inv, Output
  <2>4. ASSUME rstate = "open"
        PROVE  posted' = Len(sent) + Len(post_queue') /\ From(post_queue', Len(sent))
    <3>1. posted = Len(sent) + Len(post_queue) /\ From(post_queue, Len(sent))
      BY <2>4, <1>o DEF Inv, Output
    <3>2. post_queue \in Seq(Nat)
      BY <1>t, SeqMonotonic, 1..NOut \subseteq Nat
    <3>3. /\ Len(Append(post_queue, posted + 1)) = Len(post_queue) + 1
          /\ From(Append(post_queue, posted + 1), Len(sent))
      BY <1>t, <3>1, <3>2, FromAppend
    <3> QED BY <1>t, <2>1, <3>1, <3>3
  <2>5. Output'
    BY <1>t, <2>1, <2>3, <2>4 DEF Output, From
  <2>6. Len(post_queue') = Len(post_queue) + 1
    BY <1>t, <2>1
  <2>7. QueueLimits' /\ RoomSeen'
    BY <1>t, <1>w, <2>1, <2>6 DEF Inv, QueueLimits, RoomSeen
  <2> QED BY <2>2, <2>5, <2>7 DEF Data
<1>4. CASE TakeEvent
  <2>1. /\ get_queue # <<>> /\ got' = Append(got, Head(get_queue)) /\ get_queue' = Tail(get_queue)
        /\ UNCHANGED <<cstate, rstate, wpc, post_queue, posted, sent, nread>>
    BY <1>4 DEF TakeEvent
  <2>2. Output'
    BY <2>1, OutputKept
  <2>3. /\ From(got, 0) /\ nread = Len(got) + Len(get_queue) /\ From(get_queue, Len(got))
    BY <1>o DEF Inv, Input
  <2>4. /\ Head(get_queue) \in 1..NIn /\ Head(get_queue) = Len(got) + 1
        /\ Len(get_queue') = Len(get_queue) - 1 /\ From(get_queue', Len(got) + 1)
    BY <1>t, <2>1, <2>3, FromTail
  <2>5. Len(got') = Len(got) + 1 /\ From(got', 0)
    <3>1. 0 + Len(got) + 1 = Len(got) + 1 /\ 0 + Len(got) + 1 \in 1..NIn
      BY <1>t, <2>4
    <3> QED BY <1>t, <2>1, <2>3, <2>4, <3>1, FromAppend
  <2>6. Input'
    BY <1>t, <2>1, <2>3, <2>4, <2>5 DEF Input
  <2>7. QueueLimits' /\ RoomSeen'
    BY <1>t, <1>w, <2>1, <2>4 DEF Inv, QueueLimits, RoomSeen
  <2> QED BY <2>2, <2>6, <2>7 DEF Data
<1>5. CASE WaitForEvent
  BY <1>5, DataKept DEF WaitForEvent, history, queues
<1>6. CASE CloseAfterRemote
  BY <1>6, DataKept DEF CloseAfterRemote, history, queues
<1> QED BY <1>1, <1>2, <1>3, <1>4, <1>5, <1>6

\* Data: every step keeps the order of events and the bounds of the queues.
LEMMA DataStep ==
  ASSUME Inv, Next
  PROVE  Data'
<1>t. /\ post_queue \in Seq(1..NOut) /\ sent \in Seq(1..NOut)
      /\ get_queue \in Seq(1..NIn) /\ got \in Seq(1..NIn)
      /\ posted \in Nat /\ nread \in Nat /\ QueueSize \in Nat \ {0}
      /\ Len(post_queue) \in Nat /\ Len(get_queue) \in Nat
      /\ Len(sent) \in Nat /\ Len(got) \in Nat
  BY Types
<1>1. CASE InitChannel
  <2>1. /\ UNCHANGED <<get_queue, nread, got, post_queue, posted, sent>>
        /\ wpc' = "init" /\ nread = 0 /\ get_queue = <<>> /\ got = <<>>
        /\ posted = 0 /\ post_queue = <<>> /\ sent = <<>>
    BY <1>1 DEF InitChannel, Inv, Control, NothingYet, queues, history
  <2>2. Input' /\ Output'
    BY <2>1, InputKept, OutputKept
  <2> QED BY <2>1, <2>2 DEF Data, Inv, QueueLimits, RoomSeen
<1>2. CASE PostEvent
  BY <1>2, CallPartsData DEF PostEvent
<1>3. CASE PostWakes
  BY <1>3, CallPartsData DEF PostWakes
<1>4. ASSUME NEW w \in Waits, GetEvent(w) PROVE Data'
  BY <1>4, CallPartsData DEF GetEvent
<1>5. CASE GetWakes
  BY <1>5, CallPartsData DEF GetWakes
<1>6. CASE Flush
  BY <1>6, DataKept DEF Flush, FlushTo, queues
<1>a. CASE Abort
  BY <1>a, DataKept DEF Abort, queues, history
<1>7. CASE Close
  <2>1. /\ UNCHANGED <<get_queue, nread, got, post_queue, posted, sent, wpc>>
        /\ cstate' = "CLOSED"
    BY <1>7 DEF Close, queues, history
  <2>2. Input' /\ Output'
    BY <2>1, InputKept, OutputKept
  <2> QED BY <2>1, <2>2 DEF Data, Inv, QueueLimits, RoomSeen
<1>8. CASE CloseFlush
  BY <1>8, DataKept DEF CloseFlush, FlushTo, queues
<1>9. CASE CloseClear
  <2>1. /\ get_queue' = <<>> /\ post_queue' = <<>> /\ cstate' = cstate /\ wpc' = wpc
        /\ wpc # "get" /\ UNCHANGED <<nread, got, posted, sent>>
    BY <1>9 DEF CloseClear, history, Ready, MutexFree
  <2>2. cstate = "CLOSED"
    BY <1>9 DEF CloseClear, Inv, Control, OpenInCalls, Closing
  <2>3. Input' /\ Output'
    BY <2>1, <2>2 DEF Inv, Input, Output, From
  <2> QED BY <1>t, <2>1, <2>3 DEF Data, QueueLimits, RoomSeen
<1>10. CASE CloseWait
  BY <1>10, DataKept DEF CloseWait, queues, history
<1>11. CASE Join
  BY <1>11, DataKept DEF Join, history
<1>12. CASE WorkerInit
  <2>1. /\ UNCHANGED <<cstate, get_queue, nread, got, post_queue, posted, sent>>
        /\ wpc' = "loop" /\ posted = 0 /\ post_queue = <<>> /\ sent = <<>>
    BY <1>12 DEF WorkerInit, Inv, Control, NothingYet
  <2>2. Input' /\ Output'
    BY <2>1, InputKept, OutputKept
  <2> QED BY <2>1, <2>2 DEF Data, Inv, QueueLimits, RoomSeen
<1>13. CASE WorkerResumes
  <2>1. wback # "get"
    BY DEF Inv, Control, TypeOK
  <2> QED BY <1>13, <2>1, DataKept DEF WorkerResumes, queues, history
<1>14. CASE WorkerLoop
  BY <1>14, DataKept DEF WorkerLoop, queues, history
<1>15. CASE WorkerErrors
  BY <1>15, DataKept DEF WorkerErrors, WorkerSleeps, EndRemoteAs, queues, history
<1>16. CASE WorkerPosts
  <2>1. CASE post_queue = <<>> \/ EndRemote # "open"
    <3>1. /\ UNCHANGED <<cstate, get_queue, nread, got, posted, sent>>
          /\ wpc' = "room" /\ post_queue' = <<>>
          /\ post_queue = <<>> => rstate' = rstate
          /\ post_queue # <<>> => rstate' # "open"
      BY <1>16, <2>1 DEF WorkerPosts
    <3>2. Input'
      BY <3>1, InputKept
    <3>3. Output'
      <4>1. CASE post_queue = <<>>
        BY <3>1, <4>1, OutputKept
      <4>2. CASE post_queue # <<>>
        BY <3>1, <4>2 DEF Inv, Output, From
      <4> QED BY <4>1, <4>2
    <3> QED BY <1>t, <3>1, <3>2, <3>3 DEF Data, Inv, QueueLimits, RoomSeen
  <2>2. CASE post_queue # <<>> /\ EndRemote = "open"
    <3>1. /\ UNCHANGED <<cstate, get_queue, nread, got, posted>> /\ wpc' = "posting"
          /\ sent' = Append(sent, Head(post_queue)) /\ post_queue' = Tail(post_queue)
      BY <1>16, <2>2 DEF WorkerPosts
    <3>2. cstate = "OPEN" /\ rstate = "open"
      BY <2>2, EndRemoteKnown DEF Inv, Control, TypeOK, EndRemote, EndRemoteAs
    <3>3. From(sent, 0) /\ posted = Len(sent) + Len(post_queue) /\ From(post_queue, Len(sent))
      BY <3>2 DEF Inv, Output
    <3>4. /\ Head(post_queue) \in 1..NOut /\ Head(post_queue) = Len(sent) + 1
          /\ Len(post_queue') = Len(post_queue) - 1 /\ From(post_queue', Len(sent) + 1)
      BY <1>t, <2>2, <3>1, <3>3, FromTail
    <3>5. Len(sent') = Len(sent) + 1 /\ From(sent', 0)
      <4>1. 0 + Len(sent) + 1 = Len(sent) + 1 /\ 0 + Len(sent) + 1 \in 1..NOut
        BY <1>t, <3>4
      <4> QED BY <1>t, <3>1, <3>3, <3>4, <4>1, FromAppend
    <3>6. Output'
      <4>1. posted' = Len(sent') + Len(post_queue') /\ Len(sent') <= posted'
        BY <1>t, <2>2, <3>1, <3>3, <3>4, <3>5
      <4>2. From(post_queue', Len(sent'))
        BY <3>4, <3>5 DEF From
      <4> QED BY <3>5, <4>1, <4>2 DEF Output
    <3>7. Input'
      BY <3>1, InputKept
    <3>8. QueueLimits' /\ RoomSeen'
      BY <1>t, <3>1, <3>4 DEF Inv, QueueLimits, RoomSeen
    <3> QED BY <3>6, <3>7, <3>8 DEF Data
  <2> QED BY <2>1, <2>2
<1>17. CASE RemotePost
  <2>1. rstate' = "open" => rstate = "open"
    BY <1>17 DEF RemotePost
  <2> QED BY <1>17, <2>1, DataKept DEF RemotePost
<1>18. CASE WorkerRoom
  <2>1. /\ UNCHANGED <<cstate, post_queue, get_queue, posted, sent, nread, got>>
        /\ rstate' = "open" => rstate = "open"
    BY <1>18, EndRemoteKnown DEF WorkerRoom, queues, history
  <2>2. Input' /\ Output'
    BY <2>1, InputKept, OutputKept
  <2>3. wpc' = "get" => Len(get_queue) < QueueSize
    BY <1>18, <1>t DEF WorkerRoom, InputFull, WorkerSleeps
  <2> QED BY <2>1, <2>2, <2>3 DEF Data, Inv, QueueLimits, RoomSeen
<1>19. CASE WorkerDrain
  BY <1>19, DataKept DEF WorkerDrain, WorkerSleeps, queues, history
<1>20. CASE WorkerGet
  <2>1. CASE nread' = nread + 1 /\ get_queue' = Append(get_queue, nread + 1) /\ nread < NIn
    <3>1. /\ UNCHANGED <<cstate, post_queue, posted, sent, got>> /\ wpc' = "got" /\ wpc = "get"
          /\ rstate' = rstate
      BY <1>20, <2>1, <1>t DEF WorkerGet
    <3>2. Output'
      BY <3>1, OutputKept
    <3>3. From(got, 0) /\ Len(got) <= nread
      BY DEF Inv, Input
    <3>4. Len(get_queue') = Len(get_queue) + 1
      BY <1>t, <2>1
    <3>5. ASSUME cstate = "OPEN"
          PROVE  nread' = Len(got) + Len(get_queue') /\ From(get_queue', Len(got))
      <4>1. nread = Len(got) + Len(get_queue) /\ From(get_queue, Len(got))
        BY <3>5 DEF Inv, Input
      <4>2. get_queue \in Seq(Nat)
        BY <1>t, SeqMonotonic, 1..NIn \subseteq Nat
      <4>3. From(Append(get_queue, nread + 1), Len(got))
        BY <1>t, <4>1, <4>2, FromAppend
      <4> QED BY <1>t, <2>1, <3>4, <4>1, <4>3
    <3>6. Input'
      BY <1>t, <2>1, <3>1, <3>3, <3>5 DEF Input, From
    <3>7. QueueLimits' /\ RoomSeen'
      BY <1>t, <3>1, <3>4 DEF Inv, QueueLimits, RoomSeen
    <3> QED BY <3>2, <3>6, <3>7 DEF Data
  <2>2. CASE UNCHANGED <<nread, get_queue>> /\ (rstate' = "open" => rstate = "open")
    BY <1>20, <2>2, DataKept DEF WorkerGet
  <2> QED BY <1>20, <2>1, <2>2 DEF WorkerGet, Enqueued
<1>21. CASE WorkerGot
  <2>1. rstate' = "open" => rstate = "open"
    BY <1>21, EndRemoteKnown DEF WorkerGot
  <2> QED BY <1>21, <2>1, DataKept DEF WorkerGot, WorkerSleeps, queues, history
<1> QED BY <1>1, <1>2, <1>3, <1>4, <1>5, <1>6, <1>7, <1>a, <1>8, <1>9, <1>10, <1>11, <1>12,
           <1>13, <1>14, <1>15, <1>16, <1>17, <1>18, <1>19, <1>20, <1>21
        DEF Next, AppCalls, AppGoesOn, Worker

-----------------------------------------------------------------------------
\* The invariant, for every size of the queues, every remote and every use of
\* the channel (the actions of runWorker and of the operations keep it).
THEOREM InvHolds == Spec => []Inv
<1>1. ASSUME Inv, [Next]_vars PROVE Inv'
  <2>1. CASE Next
    BY <1>1, <2>1, ControlStep, DataStep DEF Inv, Data
  <2>2. CASE UNCHANGED vars
    BY <1>1, <2>2
       DEF vars, queues, history, Inv, Control, TypeOK, OpenInCalls, NothingYet, EndKnown,
           QueueLimits, RoomSeen, Input, Output, From
  <2> QED BY <1>1, <2>1, <2>2
<1> QED BY <1>1, InitInv, PTL DEF Spec

\* Every variable keeps its type (MTQueueChannel.h, the fields of the class).
THEOREM TypeCorrect == Spec => []TypeOK
<1>1. Inv => TypeOK
  BY DEF Inv, Control
<1> QED BY <1>1, InvHolds, PTL

\* Neither queue outgrows queue_size_ (postEvent and runWorker test the size
\* and push in one critical section, or keep the mutex in between).
THEOREM QueuesBounded == Spec => []QueueLimits
<1>1. Inv => QueueLimits
  BY DEF Inv
<1> QED BY <1>1, InvHolds, PTL

\* getEvent returns the remote's events once each and in the remote's order.
THEOREM InputOrdered == Spec => []InputInOrder
<1>1. ASSUME Inv PROVE InputInOrder
  <2>1. IsPrefix(got, Upto(nread))
    BY <1>1, Types, FromIsPrefix DEF Inv, Input
  <2>2. got \in Seq(Nat) /\ get_queue \in Seq(Nat)
    BY <1>1, Types, SeqMonotonic, BoundAssumption, 1..NIn \subseteq Nat
  <2>3. cstate = "OPEN" => got \o get_queue = Upto(nread)
    BY <1>1, <2>2, Types, FromIsUpto DEF Inv, Input
  <2> QED BY <2>1, <2>3 DEF InputInOrder
<1> QED BY <1>1, InvHolds, PTL

\* The worker hands posted events to the remote once each and in order, though
\* the mutex is free while it does so.
THEOREM OutputOrdered == Spec => []OutputInOrder
<1>1. ASSUME Inv PROVE OutputInOrder
  <2>1. IsPrefix(sent, Upto(posted))
    BY <1>1, Types, FromIsPrefix DEF Inv, Output
  <2>2. sent \in Seq(Nat) /\ post_queue \in Seq(Nat)
    BY <1>1, Types, SeqMonotonic, BoundAssumption, 1..NOut \subseteq Nat
  <2>3. cstate = "OPEN" /\ rstate = "open" => sent \o post_queue = Upto(posted)
    BY <1>1, <2>2, Types, FromIsUpto DEF Inv, Output
  <2> QED BY <2>1, <2>3 DEF OutputInOrder
<1> QED BY <1>1, InvHolds, PTL

\* close() that has returned has closed the remote, and abort() has aborted it,
\* unless it had ended by itself: recordings are kept or dropped accordingly.
THEOREM EndedAsAsked == Spec => []EndsAsAsked
<1>1. ASSUME Inv PROVE EndsAsAsked
  <2> SUFFICES ASSUME apc = "closed"
      PROVE  rstate \in {"unopened", "ended", IF aborted THEN "aborted" ELSE "closed"}
    BY DEF EndsAsAsked
  <2>1. EndKnown /\ rstate \in {"unopened", "open", "ended", "closed", "aborted"}
    BY <1>1 DEF Inv, Control, TypeOK
  <2>2. wpc = "done" /\ rstate # "open"
    BY <2>1 DEF EndKnown
  <2>3. rstate = "aborted" => aborted
    BY <2>1 DEF EndKnown
  <2>4. rstate = "closed" => ~ aborted
    BY <2>1, <2>2 DEF EndKnown
  <2> QED BY <2>1, <2>2, <2>3, <2>4
<1> QED BY <1>1, InvHolds, PTL

-----------------------------------------------------------------------------
(* Wakeups.                                                                 *)

\* The channel is used in one direction, as VisDataMux uses it: either nothing is
\* posted, or the remote has no input to deliver and does not end by itself.
OneWay == "postEvent" \notin Calls \/ (NIn = 0 /\ ~ InputEnds)

\* What holds while the application sleeps, and where it sleeps for room or for
\* the end of a flush.  (A worker that drops the queue of a closed channel does not
\* wake it, but goes straight to its end, which does.)
AppWaits ==
  "app" \in asleep =>
    /\ apc \in AppIn \cup {"closeFlush", "closeWait"}
    /\ apc \in {"posting", "getting"} => err_queue = 0
    /\ apc = "getting" => get_queue = <<>>
    /\ apc = "closeWait" => wpc # "done"

AppWaitsToPost ==
  "app" \in asleep =>
    /\ apc = "posting" => Len(post_queue) >= QueueSize
    /\ apc = "flushing" => post_queue # <<>>
    /\ apc = "closeFlush" =>
         \/ post_queue # <<>>
         \/ wpc \in {"room", "drain", "loop"} /\ get_queue = <<>> /\ rstate # "open"

\* What the worker sleeps for; it never does with an event to post.
WorkerWaits ==
  /\ "worker" \in asleep =>
       /\ wpc = "wait" /\ wback # "posts" /\ post_queue = <<>>
       /\ wback = "errors" => err_queue > 0
       /\ wback = "drain" => get_queue # <<>>
       /\ wback = "loop" => get_queue # <<>> \/ nread = NIn
  /\ wpc = "gotNothing" => nread = NIn

\* Past its posts, and wherever it may go to sleep over an error, the worker has
\* left nothing to post.
PostsDone ==
  /\ wpc \in {"room", "drain", "get", "got", "gotNothing"} => post_queue = <<>>
  /\ wpc = "wait" /\ wback = "drain" => NIn # 0
  /\ err_queue > 0 /\ wpc \in {"loop", "errors"} => post_queue = <<>>
  /\ err_queue > 0 /\ wpc = "wait" /\ wback # "posts" => post_queue = <<>>

\* Once close() has cleared the queues nothing enters them, and the worker is awake.
Cleared ==
  apc \in {"closeWait", "join", "closed"} =>
    /\ get_queue = <<>> /\ post_queue = <<>> /\ "worker" \notin asleep
    /\ wpc \notin {"get", "got", "gotNothing"}

\* A remote that has ended by itself has been handed everything posted.
Drained ==
  /\ "postEvent" \notin Calls => posted = 0 /\ post_queue = <<>> /\ apc # "posting"
  /\ cstate = "OPEN" /\ rstate # "open" => post_queue = <<>>
  /\ apc = "posting" => rstate = "open"
  /\ wpc = "posting" => rstate = "open" /\ sent # <<>>

Sleeping == AppWaits /\ AppWaitsToPost /\ WorkerWaits /\ PostsDone /\ Cleared /\ Drained

\* The facts of types and control that the steps use.
LEMMA SleepFacts ==
  ASSUME Inv
  PROVE  /\ post_queue \in Seq(1..NOut) /\ get_queue \in Seq(1..NIn) /\ sent \in Seq(1..NOut)
         /\ Len(post_queue) \in Nat /\ Len(get_queue) \in Nat /\ QueueSize \in Nat \ {0}
         /\ post_queue = <<>> <=> Len(post_queue) = 0
         /\ get_queue = <<>> <=> Len(get_queue) = 0
         /\ err_queue \in Nat /\ posted \in Nat /\ nread \in 0..NIn /\ wpc \in WorkerAt
         /\ cstate \in {"OPEN", "CLOSED"} /\ asleep \subseteq {"app", "worker"}
         /\ rstate \in {"unopened", "open", "ended", "closed", "aborted"}
         /\ wback \in {"loop", "errors", "posts", "drain"}
         /\ apc \in {"new", "idle", "closed"} \cup AppIn \cup Closing
         /\ NIn = 0 => get_queue = <<>>
<1>1. /\ post_queue \in Seq(1..NOut) /\ get_queue \in Seq(1..NIn) /\ sent \in Seq(1..NOut)
      /\ QueueSize \in Nat \ {0}
  BY Types
<1>2. NIn = 0 => get_queue = <<>>
  <2> SUFFICES ASSUME NIn = 0, get_queue # <<>> PROVE FALSE
    OBVIOUS
  <2>1. get_queue[1] \in 1..0
    BY <1>1
  <2> QED BY <2>1
<1>3. /\ Len(post_queue) \in Nat /\ Len(get_queue) \in Nat
      /\ post_queue = <<>> <=> Len(post_queue) = 0
      /\ get_queue = <<>> <=> Len(get_queue) = 0
  BY <1>1
<1> QED BY <1>1, <1>2, <1>3, BoundAssumption DEF Inv, Control, TypeOK

\* The parts of the application's operations.
LEMMA CallPartsSleep ==
  ASSUME OneWay, Inv, Sleeping, Ready, apc \in {"idle", "posting", "getting"}
  PROVE  /\ ThrowErrors => Sleeping'
         /\ "postEvent" \in Calls /\ rstate = "open" /\ WaitForRoom => Sleeping'
         /\ "postEvent" \in Calls /\ rstate = "open" /\ PushPost => Sleeping'
         /\ TakeEvent => Sleeping'
         /\ WaitForEvent => Sleeping'
         /\ apc = "idle" /\ CloseAfterRemote => Sleeping'
<1> USE SleepFacts, SizeAssumption, UseAssumption, BoundAssumption
    DEF Sleeping, AppWaits, AppWaitsToPost, WorkerWaits, PostsDone, Cleared, Drained,
        AppIn, Closing, WorkerAt, queues, history, MutexFree, Ready, RemoteClosed,
        Broadcast, AppSleeps, WorkerSleeps
<1>k. OpenInCalls /\ NothingYet /\ EndKnown /\ (apc = "posting" => posted < NOut)
  BY DEF Inv, Control
<1>1. ASSUME ThrowErrors PROVE Sleeping'
  <2>1. AppWaits'
    BY <1>k, <1>1 DEF ThrowErrors, OneWay, OpenInCalls, NothingYet, EndKnown
  <2>2. AppWaitsToPost'
    BY <1>k, <1>1 DEF ThrowErrors, OneWay, OpenInCalls, NothingYet, EndKnown
  <2>3. WorkerWaits'
    BY <1>k, <1>1 DEF ThrowErrors, OneWay, OpenInCalls, NothingYet, EndKnown
  <2>4. PostsDone'
    BY <1>k, <1>1 DEF ThrowErrors, OneWay, OpenInCalls, NothingYet, EndKnown
  <2>5. Cleared'
    BY <1>k, <1>1 DEF ThrowErrors, OneWay, OpenInCalls, NothingYet, EndKnown
  <2>6. Drained'
    BY <1>k, <1>1 DEF ThrowErrors, OneWay, OpenInCalls, NothingYet, EndKnown
  <2> QED BY <2>1, <2>2, <2>3, <2>4, <2>5, <2>6
<1>2. ASSUME "postEvent" \in Calls, rstate = "open", WaitForRoom PROVE Sleeping'
  <2>1. AppWaits'
    BY <1>k, <1>2 DEF WaitForRoom, OneWay, OpenInCalls, NothingYet, EndKnown
  <2>2. AppWaitsToPost'
    BY <1>k, <1>2 DEF WaitForRoom, OneWay, OpenInCalls, NothingYet, EndKnown
  <2>3. WorkerWaits'
    BY <1>k, <1>2 DEF WaitForRoom, OneWay, OpenInCalls, NothingYet, EndKnown
  <2>4. PostsDone'
    BY <1>k, <1>2 DEF WaitForRoom, OneWay, OpenInCalls, NothingYet, EndKnown
  <2>5. Cleared'
    BY <1>k, <1>2 DEF WaitForRoom, OneWay, OpenInCalls, NothingYet, EndKnown
  <2>6. Drained'
    BY <1>k, <1>2 DEF WaitForRoom, OneWay, OpenInCalls, NothingYet, EndKnown
  <2> QED BY <2>1, <2>2, <2>3, <2>4, <2>5, <2>6
<1>3. ASSUME "postEvent" \in Calls, rstate = "open", PushPost PROVE Sleeping'
  <2>1. AppWaits'
    BY <1>k, <1>3 DEF PushPost, OneWay, OpenInCalls, NothingYet, EndKnown, Enqueued
  <2>2. AppWaitsToPost'
    BY <1>k, <1>3 DEF PushPost, OneWay, OpenInCalls, NothingYet, EndKnown, Enqueued
  <2>3. WorkerWaits'
    BY <1>k, <1>3 DEF PushPost, OneWay, OpenInCalls, NothingYet, EndKnown, Enqueued
  <2>4. PostsDone'
    BY <1>k, <1>3 DEF PushPost, OneWay, OpenInCalls, NothingYet, EndKnown, Enqueued
  <2>5. Cleared'
    BY <1>k, <1>3 DEF PushPost, OneWay, OpenInCalls, NothingYet, EndKnown, Enqueued
  <2>6. Drained'
    BY <1>k, <1>3 DEF PushPost, OneWay, OpenInCalls, NothingYet, EndKnown, Enqueued
  <2> QED BY <2>1, <2>2, <2>3, <2>4, <2>5, <2>6
<1>4. ASSUME TakeEvent PROVE Sleeping'
  <2>1. AppWaits'
    BY <1>k, <1>4 DEF TakeEvent, OneWay, OpenInCalls, NothingYet, EndKnown
  <2>2. AppWaitsToPost'
    BY <1>k, <1>4 DEF TakeEvent, OneWay, OpenInCalls, NothingYet, EndKnown
  <2>3. WorkerWaits'
    BY <1>k, <1>4 DEF TakeEvent, OneWay, OpenInCalls, NothingYet, EndKnown
  <2>4. PostsDone'
    BY <1>k, <1>4 DEF TakeEvent, OneWay, OpenInCalls, NothingYet, EndKnown
  <2>5. Cleared'
    BY <1>k, <1>4 DEF TakeEvent, OneWay, OpenInCalls, NothingYet, EndKnown
  <2>6. Drained'
    BY <1>k, <1>4 DEF TakeEvent, OneWay, OpenInCalls, NothingYet, EndKnown
  <2> QED BY <2>1, <2>2, <2>3, <2>4, <2>5, <2>6
<1>5. ASSUME WaitForEvent PROVE Sleeping'
  <2>1. AppWaits'
    BY <1>k, <1>5 DEF WaitForEvent, OneWay, OpenInCalls, NothingYet, EndKnown
  <2>2. AppWaitsToPost'
    BY <1>k, <1>5 DEF WaitForEvent, OneWay, OpenInCalls, NothingYet, EndKnown
  <2>3. WorkerWaits'
    BY <1>k, <1>5 DEF WaitForEvent, OneWay, OpenInCalls, NothingYet, EndKnown
  <2>4. PostsDone'
    BY <1>k, <1>5 DEF WaitForEvent, OneWay, OpenInCalls, NothingYet, EndKnown
  <2>5. Cleared'
    BY <1>k, <1>5 DEF WaitForEvent, OneWay, OpenInCalls, NothingYet, EndKnown
  <2>6. Drained'
    BY <1>k, <1>5 DEF WaitForEvent, OneWay, OpenInCalls, NothingYet, EndKnown
  <2> QED BY <2>1, <2>2, <2>3, <2>4, <2>5, <2>6
<1>6. ASSUME apc = "idle", CloseAfterRemote PROVE Sleeping'
  <2>1. AppWaits'
    BY <1>k, <1>6 DEF CloseAfterRemote, OneWay, OpenInCalls, NothingYet, EndKnown
  <2>2. AppWaitsToPost'
    BY <1>k, <1>6 DEF CloseAfterRemote, OneWay, OpenInCalls, NothingYet, EndKnown
  <2>3. WorkerWaits'
    BY <1>k, <1>6 DEF CloseAfterRemote, OneWay, OpenInCalls, NothingYet, EndKnown
  <2>4. PostsDone'
    BY <1>k, <1>6 DEF CloseAfterRemote, OneWay, OpenInCalls, NothingYet, EndKnown
  <2>5. Cleared'
    BY <1>k, <1>6 DEF CloseAfterRemote, OneWay, OpenInCalls, NothingYet, EndKnown
  <2>6. Drained'
    BY <1>k, <1>6 DEF CloseAfterRemote, OneWay, OpenInCalls, NothingYet, EndKnown
  <2> QED BY <2>1, <2>2, <2>3, <2>4, <2>5, <2>6
<1> QED BY <1>1, <1>2, <1>3, <1>4, <1>5, <1>6

\* No step of either thread disturbs what the sleepers rely on.
LEMMA SleepStep ==
  ASSUME OneWay, Inv, Sleeping, Next
  PROVE  Sleeping'
<1> USE SleepFacts, SizeAssumption, UseAssumption, BoundAssumption
    DEF Sleeping, AppWaits, AppWaitsToPost, WorkerWaits, PostsDone, Cleared, Drained,
        AppIn, Closing, WorkerAt, queues, history, MutexFree, Ready, RemoteClosed,
        Broadcast, AppSleeps, WorkerSleeps
<1>k. OpenInCalls /\ NothingYet /\ EndKnown /\ (apc = "posting" => posted < NOut)
  BY DEF Inv, Control
<1>1. CASE InitChannel
  <2>1. AppWaits'
    BY <1>k, <1>1 DEF InitChannel, OneWay, OpenInCalls, NothingYet, EndKnown
  <2>2. AppWaitsToPost'
    BY <1>k, <1>1 DEF InitChannel, OneWay, OpenInCalls, NothingYet, EndKnown
  <2>3. WorkerWaits'
    BY <1>k, <1>1 DEF InitChannel, OneWay, OpenInCalls, NothingYet, EndKnown
  <2>4. PostsDone'
    BY <1>k, <1>1 DEF InitChannel, OneWay, OpenInCalls, NothingYet, EndKnown
  <2>5. Cleared'
    BY <1>k, <1>1 DEF InitChannel, OneWay, OpenInCalls, NothingYet, EndKnown
  <2>6. Drained'
    BY <1>k, <1>1 DEF InitChannel, OneWay, OpenInCalls, NothingYet, EndKnown
  <2> QED BY <2>1, <2>2, <2>3, <2>4, <2>5, <2>6
<1>2. CASE PostEvent
  BY <1>2, CallPartsSleep DEF PostEvent
<1>3. CASE PostWakes
  BY <1>3, CallPartsSleep DEF PostWakes
<1>4. ASSUME NEW w \in Waits, GetEvent(w) PROVE Sleeping'
  BY <1>4, CallPartsSleep DEF GetEvent
<1>5. CASE GetWakes
  BY <1>5, CallPartsSleep DEF GetWakes
<1>6. CASE Flush
  <2>1. AppWaits'
    BY <1>k, <1>6 DEF Flush, OneWay, OpenInCalls, NothingYet, EndKnown, FlushTo, Unflushed
  <2>2. AppWaitsToPost'
    BY <1>k, <1>6 DEF Flush, OneWay, OpenInCalls, NothingYet, EndKnown, FlushTo, Unflushed
  <2>3. WorkerWaits'
    BY <1>k, <1>6 DEF Flush, OneWay, OpenInCalls, NothingYet, EndKnown, FlushTo, Unflushed
  <2>4. PostsDone'
    BY <1>k, <1>6 DEF Flush, OneWay, OpenInCalls, NothingYet, EndKnown, FlushTo, Unflushed
  <2>5. Cleared'
    BY <1>k, <1>6 DEF Flush, OneWay, OpenInCalls, NothingYet, EndKnown, FlushTo, Unflushed
  <2>6. Drained'
    BY <1>k, <1>6 DEF Flush, OneWay, OpenInCalls, NothingYet, EndKnown, FlushTo, Unflushed
  <2> QED BY <2>1, <2>2, <2>3, <2>4, <2>5, <2>6
<1>7. CASE Close
  <2>1. AppWaits'
    BY <1>k, <1>7 DEF Close, OneWay, OpenInCalls, NothingYet, EndKnown
  <2>2. AppWaitsToPost'
    BY <1>k, <1>7 DEF Close, OneWay, OpenInCalls, NothingYet, EndKnown
  <2>3. WorkerWaits'
    BY <1>k, <1>7 DEF Close, OneWay, OpenInCalls, NothingYet, EndKnown
  <2>4. PostsDone'
    BY <1>k, <1>7 DEF Close, OneWay, OpenInCalls, NothingYet, EndKnown
  <2>5. Cleared'
    BY <1>k, <1>7 DEF Close, OneWay, OpenInCalls, NothingYet, EndKnown
  <2>6. Drained'
    BY <1>k, <1>7 DEF Close, OneWay, OpenInCalls, NothingYet, EndKnown
  <2> QED BY <2>1, <2>2, <2>3, <2>4, <2>5, <2>6
<1>8. CASE Abort
  <2>1. AppWaits'
    BY <1>k, <1>8 DEF Abort, OneWay, OpenInCalls, NothingYet, EndKnown
  <2>2. AppWaitsToPost'
    BY <1>k, <1>8 DEF Abort, OneWay, OpenInCalls, NothingYet, EndKnown
  <2>3. WorkerWaits'
    BY <1>k, <1>8 DEF Abort, OneWay, OpenInCalls, NothingYet, EndKnown
  <2>4. PostsDone'
    BY <1>k, <1>8 DEF Abort, OneWay, OpenInCalls, NothingYet, EndKnown
  <2>5. Cleared'
    BY <1>k, <1>8 DEF Abort, OneWay, OpenInCalls, NothingYet, EndKnown
  <2>6. Drained'
    BY <1>k, <1>8 DEF Abort, OneWay, OpenInCalls, NothingYet, EndKnown
  <2> QED BY <2>1, <2>2, <2>3, <2>4, <2>5, <2>6
<1>9. CASE CloseFlush
  <2>1. AppWaits'
    BY <1>k, <1>9 DEF CloseFlush, OneWay, OpenInCalls, NothingYet, EndKnown, FlushTo, Unflushed
  <2>2. AppWaitsToPost'
    BY <1>k, <1>9 DEF CloseFlush, OneWay, OpenInCalls, NothingYet, EndKnown, FlushTo, Unflushed
  <2>3. WorkerWaits'
    BY <1>k, <1>9 DEF CloseFlush, OneWay, OpenInCalls, NothingYet, EndKnown, FlushTo, Unflushed
  <2>4. PostsDone'
    BY <1>k, <1>9 DEF CloseFlush, OneWay, OpenInCalls, NothingYet, EndKnown, FlushTo, Unflushed
  <2>5. Cleared'
    BY <1>k, <1>9 DEF CloseFlush, OneWay, OpenInCalls, NothingYet, EndKnown, FlushTo, Unflushed
  <2>6. Drained'
    BY <1>k, <1>9 DEF CloseFlush, OneWay, OpenInCalls, NothingYet, EndKnown, FlushTo, Unflushed
  <2> QED BY <2>1, <2>2, <2>3, <2>4, <2>5, <2>6
<1>10. CASE CloseClear
  <2>1. AppWaits'
    BY <1>k, <1>10 DEF CloseClear, OneWay, OpenInCalls, NothingYet, EndKnown
  <2>2. AppWaitsToPost'
    BY <1>k, <1>10 DEF CloseClear, OneWay, OpenInCalls, NothingYet, EndKnown
  <2>3. WorkerWaits'
    BY <1>k, <1>10 DEF CloseClear, OneWay, OpenInCalls, NothingYet, EndKnown
  <2>4. PostsDone'
    BY <1>k, <1>10 DEF CloseClear, OneWay, OpenInCalls, NothingYet, EndKnown
  <2>5. Cleared'
    BY <1>k, <1>10 DEF CloseClear, OneWay, OpenInCalls, NothingYet, EndKnown
  <2>6. Drained'
    BY <1>k, <1>10 DEF CloseClear, OneWay, OpenInCalls, NothingYet, EndKnown
  <2> QED BY <2>1, <2>2, <2>3, <2>4, <2>5, <2>6
<1>11. CASE CloseWait
  <2>1. AppWaits'
    BY <1>k, <1>11 DEF CloseWait, OneWay, OpenInCalls, NothingYet, EndKnown
  <2>2. AppWaitsToPost'
    BY <1>k, <1>11 DEF CloseWait, OneWay, OpenInCalls, NothingYet, EndKnown
  <2>3. WorkerWaits'
    BY <1>k, <1>11 DEF CloseWait, OneWay, OpenInCalls, NothingYet, EndKnown
  <2>4. PostsDone'
    BY <1>k, <1>11 DEF CloseWait, OneWay, OpenInCalls, NothingYet, EndKnown
  <2>5. Cleared'
    BY <1>k, <1>11 DEF CloseWait, OneWay, OpenInCalls, NothingYet, EndKnown
  <2>6. Drained'
    BY <1>k, <1>11 DEF CloseWait, OneWay, OpenInCalls, NothingYet, EndKnown
  <2> QED BY <2>1, <2>2, <2>3, <2>4, <2>5, <2>6
<1>12. CASE Join
  <2>1. AppWaits'
    BY <1>k, <1>12 DEF Join, OneWay, OpenInCalls, NothingYet, EndKnown
  <2>2. AppWaitsToPost'
    BY <1>k, <1>12 DEF Join, OneWay, OpenInCalls, NothingYet, EndKnown
  <2>3. WorkerWaits'
    BY <1>k, <1>12 DEF Join, OneWay, OpenInCalls, NothingYet, EndKnown
  <2>4. PostsDone'
    BY <1>k, <1>12 DEF Join, OneWay, OpenInCalls, NothingYet, EndKnown
  <2>5. Cleared'
    BY <1>k, <1>12 DEF Join, OneWay, OpenInCalls, NothingYet, EndKnown
  <2>6. Drained'
    BY <1>k, <1>12 DEF Join, OneWay, OpenInCalls, NothingYet, EndKnown
  <2> QED BY <2>1, <2>2, <2>3, <2>4, <2>5, <2>6
<1>13. CASE WorkerInit
  <2>1. AppWaits'
    BY <1>k, <1>13 DEF WorkerInit, OneWay, OpenInCalls, NothingYet, EndKnown, RemoteThrows
  <2>2. AppWaitsToPost'
    BY <1>k, <1>13 DEF WorkerInit, OneWay, OpenInCalls, NothingYet, EndKnown, RemoteThrows
  <2>3. WorkerWaits'
    BY <1>k, <1>13 DEF WorkerInit, OneWay, OpenInCalls, NothingYet, EndKnown, RemoteThrows
  <2>4. PostsDone'
    BY <1>k, <1>13 DEF WorkerInit, OneWay, OpenInCalls, NothingYet, EndKnown, RemoteThrows
  <2>5. Cleared'
    BY <1>k, <1>13 DEF WorkerInit, OneWay, OpenInCalls, NothingYet, EndKnown, RemoteThrows
  <2>6. Drained'
    BY <1>k, <1>13 DEF WorkerInit, OneWay, OpenInCalls, NothingYet, EndKnown, RemoteThrows
  <2> QED BY <2>1, <2>2, <2>3, <2>4, <2>5, <2>6
<1>14. CASE WorkerResumes
  <2>1. AppWaits'
    BY <1>k, <1>14 DEF WorkerResumes, OneWay, OpenInCalls, NothingYet, EndKnown
  <2>2. AppWaitsToPost'
    BY <1>k, <1>14 DEF WorkerResumes, OneWay, OpenInCalls, NothingYet, EndKnown
  <2>3. WorkerWaits'
    BY <1>k, <1>14 DEF WorkerResumes, OneWay, OpenInCalls, NothingYet, EndKnown
  <2>4. PostsDone'
    BY <1>k, <1>14 DEF WorkerResumes, OneWay, OpenInCalls, NothingYet, EndKnown
  <2>5. Cleared'
    BY <1>k, <1>14 DEF WorkerResumes, OneWay, OpenInCalls, NothingYet, EndKnown
  <2>6. Drained'
    BY <1>k, <1>14 DEF WorkerResumes, OneWay, OpenInCalls, NothingYet, EndKnown
  <2> QED BY <2>1, <2>2, <2>3, <2>4, <2>5, <2>6
<1>15. CASE WorkerLoop
  <2>1. AppWaits'
    BY <1>k, <1>15 DEF WorkerLoop, OneWay, OpenInCalls, NothingYet, EndKnown
  <2>2. AppWaitsToPost'
    BY <1>k, <1>15 DEF WorkerLoop, OneWay, OpenInCalls, NothingYet, EndKnown
  <2>3. WorkerWaits'
    BY <1>k, <1>15 DEF WorkerLoop, OneWay, OpenInCalls, NothingYet, EndKnown
  <2>4. PostsDone'
    BY <1>k, <1>15 DEF WorkerLoop, OneWay, OpenInCalls, NothingYet, EndKnown
  <2>5. Cleared'
    BY <1>k, <1>15 DEF WorkerLoop, OneWay, OpenInCalls, NothingYet, EndKnown
  <2>6. Drained'
    BY <1>k, <1>15 DEF WorkerLoop, OneWay, OpenInCalls, NothingYet, EndKnown
  <2> QED BY <2>1, <2>2, <2>3, <2>4, <2>5, <2>6
<1>16. CASE WorkerErrors
  <2>1. AppWaits'
    BY <1>k, <1>16 DEF WorkerErrors, OneWay, OpenInCalls, NothingYet, EndKnown, EndRemoteAs
  <2>2. AppWaitsToPost'
    BY <1>k, <1>16 DEF WorkerErrors, OneWay, OpenInCalls, NothingYet, EndKnown, EndRemoteAs
  <2>3. WorkerWaits'
    BY <1>k, <1>16 DEF WorkerErrors, OneWay, OpenInCalls, NothingYet, EndKnown, EndRemoteAs
  <2>4. PostsDone'
    BY <1>k, <1>16 DEF WorkerErrors, OneWay, OpenInCalls, NothingYet, EndKnown, EndRemoteAs
  <2>5. Cleared'
    BY <1>k, <1>16 DEF WorkerErrors, OneWay, OpenInCalls, NothingYet, EndKnown, EndRemoteAs
  <2>6. Drained'
    BY <1>k, <1>16 DEF WorkerErrors, OneWay, OpenInCalls, NothingYet, EndKnown, EndRemoteAs
  <2> QED BY <2>1, <2>2, <2>3, <2>4, <2>5, <2>6
<1>17. CASE WorkerPosts
  <2>1. AppWaits'
    BY <1>k, <1>17 DEF WorkerPosts, OneWay, OpenInCalls, NothingYet, EndKnown, EndRemote, EndRemoteAs
  <2>2. AppWaitsToPost'
    BY <1>k, <1>17 DEF WorkerPosts, OneWay, OpenInCalls, NothingYet, EndKnown, EndRemote, EndRemoteAs
  <2>3. WorkerWaits'
    BY <1>k, <1>17 DEF WorkerPosts, OneWay, OpenInCalls, NothingYet, EndKnown, EndRemote, EndRemoteAs
  <2>4. PostsDone'
    BY <1>k, <1>17 DEF WorkerPosts, OneWay, OpenInCalls, NothingYet, EndKnown, EndRemote, EndRemoteAs
  <2>5. Cleared'
    BY <1>k, <1>17 DEF WorkerPosts, OneWay, OpenInCalls, NothingYet, EndKnown, EndRemote, EndRemoteAs
  <2>6. Drained'
    BY SMTT(20), <1>k, <1>17 DEF WorkerPosts, OneWay, OpenInCalls, NothingYet, EndKnown, EndRemote, EndRemoteAs
  <2> QED BY <2>1, <2>2, <2>3, <2>4, <2>5, <2>6
<1>18. CASE RemotePost
  <2>1. AppWaits'
    BY <1>k, <1>18 DEF RemotePost, OneWay, OpenInCalls, NothingYet, EndKnown, RemoteThrows
  <2>2. AppWaitsToPost'
    BY <1>k, <1>18 DEF RemotePost, OneWay, OpenInCalls, NothingYet, EndKnown, RemoteThrows
  <2>3. WorkerWaits'
    BY <1>k, <1>18 DEF RemotePost, OneWay, OpenInCalls, NothingYet, EndKnown, RemoteThrows
  <2>4. PostsDone'
    BY <1>k, <1>18 DEF RemotePost, OneWay, OpenInCalls, NothingYet, EndKnown, RemoteThrows
  <2>5. Cleared'
    BY <1>k, <1>18 DEF RemotePost, OneWay, OpenInCalls, NothingYet, EndKnown, RemoteThrows
  <2>6. Drained'
    <3>1. /\ rstate = "open" /\ sent # <<>> /\ UNCHANGED <<cstate, apc, posted, post_queue, sent>>
          /\ wpc' # "posting"
      BY <1>18 DEF RemotePost
    <3>2. rstate' = "open" \/ Last(sent) = NOut
      BY <1>18, <3>1 DEF RemotePost
    <3>3. ASSUME Last(sent) = NOut, cstate = "OPEN"
          PROVE  post_queue = <<>> /\ posted = NOut
      <4>1. /\ From(sent, 0) /\ posted = Len(sent) + Len(post_queue) /\ posted \in 0..NOut
        BY <3>1, <3>3 DEF Inv, Output, Control, TypeOK
      <4>2. Len(sent) \in Nat /\ Len(sent) \in 1..Len(sent) /\ Last(sent) = sent[Len(sent)]
        BY <3>1 DEF Last
      <4>3. sent[Len(sent)] = Len(sent)
        BY SMTT(20), <4>1, <4>2 DEF From
      <4> QED BY <3>3, <4>1, <4>2, <4>3
    <3> QED BY <1>k, <3>1, <3>2, <3>3 DEF OpenInCalls
  <2> QED BY <2>1, <2>2, <2>3, <2>4, <2>5, <2>6
<1>19. CASE WorkerRoom
  <2>1. AppWaits'
    BY <1>k, <1>19 DEF WorkerRoom, OneWay, OpenInCalls, NothingYet, EndKnown, EndRemote, EndRemoteAs, InputFull
  <2>2. AppWaitsToPost'
    BY <1>k, <1>19 DEF WorkerRoom, OneWay, OpenInCalls, NothingYet, EndKnown, EndRemote, EndRemoteAs, InputFull
  <2>3. WorkerWaits'
    BY <1>k, <1>19 DEF WorkerRoom, OneWay, OpenInCalls, NothingYet, EndKnown, EndRemote, EndRemoteAs, InputFull
  <2>4. PostsDone'
    BY <1>k, <1>19 DEF WorkerRoom, OneWay, OpenInCalls, NothingYet, EndKnown, EndRemote, EndRemoteAs, InputFull
  <2>5. Cleared'
    BY <1>k, <1>19 DEF WorkerRoom, OneWay, OpenInCalls, NothingYet, EndKnown, EndRemote, EndRemoteAs, InputFull
  <2>6. Drained'
    BY <1>k, <1>19 DEF WorkerRoom, OneWay, OpenInCalls, NothingYet, EndKnown, EndRemote, EndRemoteAs, InputFull
  <2> QED BY <2>1, <2>2, <2>3, <2>4, <2>5, <2>6
<1>20. CASE WorkerDrain
  <2>1. AppWaits'
    BY <1>k, <1>20 DEF WorkerDrain, OneWay, OpenInCalls, NothingYet, EndKnown
  <2>2. AppWaitsToPost'
    BY <1>k, <1>20 DEF WorkerDrain, OneWay, OpenInCalls, NothingYet, EndKnown
  <2>3. WorkerWaits'
    BY <1>k, <1>20 DEF WorkerDrain, OneWay, OpenInCalls, NothingYet, EndKnown
  <2>4. PostsDone'
    BY <1>k, <1>20 DEF WorkerDrain, OneWay, OpenInCalls, NothingYet, EndKnown
  <2>5. Cleared'
    BY <1>k, <1>20 DEF WorkerDrain, OneWay, OpenInCalls, NothingYet, EndKnown
  <2>6. Drained'
    BY <1>k, <1>20 DEF WorkerDrain, OneWay, OpenInCalls, NothingYet, EndKnown
  <2> QED BY <2>1, <2>2, <2>3, <2>4, <2>5, <2>6
<1>21. CASE WorkerGet
  <2>1. AppWaits'
    BY <1>k, <1>21 DEF WorkerGet, OneWay, OpenInCalls, NothingYet, EndKnown, RemoteThrows, Enqueued
  <2>2. AppWaitsToPost'
    BY <1>k, <1>21 DEF WorkerGet, OneWay, OpenInCalls, NothingYet, EndKnown, RemoteThrows, Enqueued
  <2>3. WorkerWaits'
    BY <1>k, <1>21 DEF WorkerGet, OneWay, OpenInCalls, NothingYet, EndKnown, RemoteThrows, Enqueued
  <2>4. PostsDone'
    BY <1>k, <1>21 DEF WorkerGet, OneWay, OpenInCalls, NothingYet, EndKnown, RemoteThrows, Enqueued
  <2>5. Cleared'
    BY <1>k, <1>21 DEF WorkerGet, OneWay, OpenInCalls, NothingYet, EndKnown, RemoteThrows, Enqueued
  <2>6. Drained'
    BY <1>k, <1>21 DEF WorkerGet, OneWay, OpenInCalls, NothingYet, EndKnown, RemoteThrows, Enqueued
  <2> QED BY <2>1, <2>2, <2>3, <2>4, <2>5, <2>6
<1>22. CASE WorkerGot
  <2>1. AppWaits'
    BY <1>k, <1>22 DEF WorkerGot, OneWay, OpenInCalls, NothingYet, EndKnown, EndRemote, EndRemoteAs
  <2>2. AppWaitsToPost'
    BY <1>k, <1>22 DEF WorkerGot, OneWay, OpenInCalls, NothingYet, EndKnown, EndRemote, EndRemoteAs
  <2>3. WorkerWaits'
    BY <1>k, <1>22 DEF WorkerGot, OneWay, OpenInCalls, NothingYet, EndKnown, EndRemote, EndRemoteAs
  <2>4. PostsDone'
    BY <1>k, <1>22 DEF WorkerGot, OneWay, OpenInCalls, NothingYet, EndKnown, EndRemote, EndRemoteAs
  <2>5. Cleared'
    BY <1>k, <1>22 DEF WorkerGot, OneWay, OpenInCalls, NothingYet, EndKnown, EndRemote, EndRemoteAs
  <2>6. Drained'
    BY <1>k, <1>22 DEF WorkerGot, OneWay, OpenInCalls, NothingYet, EndKnown, EndRemote, EndRemoteAs
  <2> QED BY <2>1, <2>2, <2>3, <2>4, <2>5, <2>6
<1> QED BY <1>1, <1>2, <1>3, <1>4, <1>5, <1>6, <1>7, <1>8, <1>9, <1>10, <1>11, <1>12,
           <1>13, <1>14, <1>15, <1>16, <1>17, <1>18, <1>19, <1>20, <1>21, <1>22
        DEF Next, AppCalls, AppGoesOn, Worker

LEMMA InitSleep == Init => Sleeping
BY BoundAssumption DEF Init, Sleeping, AppWaits, AppWaitsToPost, WorkerWaits, PostsDone, Cleared,
   Drained, AppIn

LEMMA SleepHolds == OneWay => (Spec => []Sleeping)
<1> SUFFICES ASSUME OneWay
    PROVE  Spec => []Sleeping
  OBVIOUS
<1>1. ASSUME Inv, Sleeping, [Next]_vars PROVE Sleeping'
  <2>1. CASE Next
    BY <1>1, <2>1, SleepStep
  <2>2. CASE UNCHANGED vars
    BY <1>1, <2>2 DEF vars, queues, history, Sleeping, AppWaits, AppWaitsToPost, WorkerWaits,
       PostsDone, Cleared, Drained
  <2> QED BY <1>1, <2>1, <2>2
<1> QED BY <1>1, InitSleep, InvHolds, PTL DEF Spec

\* No wakeup is lost between application and worker (the broadcasts of postEvent,
\* getEvent, close and runWorker): when the worker sleeps or has left, what the
\* application sleeps for has not happened.
THEOREM NoLostWakeup == OneWay => (Spec => []WakeupKept)
<1> SUFFICES ASSUME OneWay
    PROVE  Spec => []WakeupKept
  OBVIOUS
<1>1. ASSUME Inv, Sleeping PROVE WakeupKept
  <2> SUFFICES ASSUME "app" \in asleep, "worker" \in asleep \/ wpc = "done"
      PROVE  StillWaiting[apc]
    BY DEF WakeupKept
  <2>1. apc \in {"posting", "getting", "flushing", "closeFlush", "closeWait"}
    BY <1>1 DEF Sleeping, AppWaits, AppIn
  <2>2. wpc \in {"wait", "done"}
    BY <1>1 DEF Sleeping, WorkerWaits
  <2>3. CASE apc = "posting"
    BY <1>1, <2>3 DEF StillWaiting, Sleeping, AppWaits, AppWaitsToPost
  <2>4. CASE apc = "getting"
    BY <1>1, <2>4 DEF StillWaiting, Sleeping, AppWaits
  <2>5. CASE apc = "flushing"
    BY <1>1, <2>5 DEF StillWaiting, Sleeping, AppWaitsToPost
  <2>6. CASE apc = "closeFlush"
    <3>1. post_queue # <<>>
      BY <1>1, <2>2, <2>6 DEF Sleeping, AppWaitsToPost
    <3> QED BY <2>6, <3>1 DEF StillWaiting
  <2>7. CASE apc = "closeWait"
    BY <1>1, <2>7 DEF Sleeping, AppWaits, Cleared
  <2> QED BY <2>1, <2>3, <2>4, <2>5, <2>6, <2>7
<1> QED BY <1>1, SleepHolds, InvHolds, PTL

\* The two threads never wait for each other (MTQueueChannel.cc:174 and the other
\* waits on condVar()): both sleep only when the application asks for an event and
\* the remote has none to give.
THEOREM NoMutualWait == OneWay => (Spec => []NeverBothAsleep)
<1> SUFFICES ASSUME OneWay
    PROVE  Spec => []NeverBothAsleep
  OBVIOUS
<1>1. ASSUME Inv, Sleeping PROVE NeverBothAsleep
  <2> SUFFICES ASSUME "app" \in asleep, "worker" \in asleep
      PROVE  apc = "getting" /\ nread = NIn
    BY DEF NeverBothAsleep
  <2>1. apc \in {"posting", "getting", "flushing", "closeFlush", "closeWait"}
    BY <1>1 DEF Sleeping, AppWaits, AppIn
  <2>2. wpc = "wait" /\ post_queue = <<>> /\ Len(post_queue) = 0 /\ QueueSize > 0
    BY <1>1, SizeAssumption DEF Sleeping, WorkerWaits
  <2>3. apc = "getting"
    BY <1>1, <2>1, <2>2, SizeAssumption DEF Sleeping, AppWaitsToPost, Cleared
  <2>4. err_queue = 0 /\ get_queue = <<>>
    BY <1>1, <2>3 DEF Sleeping, AppWaits
  <2>5. wback = "loop"
    BY <1>1, <2>4 DEF Sleeping, WorkerWaits, Inv, Control, TypeOK
  <2> QED BY <1>1, <2>3, <2>4, <2>5 DEF Sleeping, WorkerWaits
<1> QED BY <1>1, SleepHolds, InvHolds, PTL

-----------------------------------------------------------------------------
(* Flushing.                                                                *)

\* A channel that is flushed before it is closed has nothing left to hand over
\* when close() begins, or else its remote has ended by itself.
Flushed ==
  /\ aborted => apc # "new" /\ (cstate = "CLOSED" \/ apc = "aborting")
  /\ apc = "new" => ~ flushed
  /\ flushed /\ cstate = "OPEN" => post_queue = <<>>
  /\ apc = "closing" => rstate # "open" /\ wpc # "init"
  /\ cstate = "CLOSED" /\ flushed /\ ~ aborted /\ rstate \in {"open", "closed"} =>
       Len(sent) = posted

LEMMA FlushedStep ==
  ASSUME Inv, Flushed, Next
  PROVE  Flushed'
<1> USE SleepFacts, SizeAssumption, UseAssumption, BoundAssumption
    DEF Flushed, AppIn, Closing, WorkerAt, queues, history, MutexFree, Ready,
        RemoteClosed, Broadcast, AppSleeps, WorkerSleeps
<1>k. OpenInCalls /\ NothingYet /\ EndKnown /\ aborted \in BOOLEAN /\ flushed \in BOOLEAN
  BY DEF Inv, Control, TypeOK
<1>o. cstate = "OPEN" /\ rstate = "open" /\ post_queue = <<>> => Len(sent) = posted
  BY DEF Inv, Output
<1>n. sent = <<>> => Len(sent) = 0
  OBVIOUS
<1>1. CASE InitChannel
  BY <1>k, <1>o, <1>n, <1>1 DEF InitChannel, OpenInCalls, NothingYet, EndKnown
<1>2. CASE PostEvent
  BY <1>k, <1>o, <1>n, <1>2 DEF PostEvent, OpenInCalls, NothingYet, EndKnown, ThrowErrors, WaitForRoom, PushPost, TakeEvent, WaitForEvent, CloseAfterRemote
<1>3. CASE PostWakes
  BY SMTT(20), <1>k, <1>o, <1>n, <1>3 DEF PostWakes, OpenInCalls, NothingYet, EndKnown, ThrowErrors, WaitForRoom, PushPost, TakeEvent, WaitForEvent, CloseAfterRemote
<1>4. ASSUME NEW w \in Waits, GetEvent(w) PROVE Flushed'
  BY SMTT(20), <1>k, <1>o, <1>n, <1>4 DEF GetEvent, OpenInCalls, NothingYet, EndKnown, ThrowErrors, WaitForRoom, PushPost, TakeEvent, WaitForEvent, CloseAfterRemote
<1>5. CASE GetWakes
  BY SMTT(20), <1>k, <1>o, <1>n, <1>5 DEF GetWakes, OpenInCalls, NothingYet, EndKnown, ThrowErrors, WaitForRoom, PushPost, TakeEvent, WaitForEvent, CloseAfterRemote
<1>6. CASE Flush
  BY <1>k, <1>o, <1>n, <1>6 DEF Flush, OpenInCalls, NothingYet, EndKnown, FlushTo, Unflushed
<1>7. CASE Close
  BY <1>k, <1>o, <1>n, <1>7 DEF Close, OpenInCalls, NothingYet, EndKnown
<1>8. CASE Abort
  BY <1>k, <1>o, <1>n, <1>8 DEF Abort, OpenInCalls, NothingYet, EndKnown
<1>9. CASE CloseFlush
  BY <1>k, <1>o, <1>n, <1>9 DEF CloseFlush, OpenInCalls, NothingYet, EndKnown, FlushTo, Unflushed
<1>10. CASE CloseClear
  BY <1>k, <1>o, <1>n, <1>10 DEF CloseClear, OpenInCalls, NothingYet, EndKnown
<1>11. CASE CloseWait
  BY <1>k, <1>o, <1>n, <1>11 DEF CloseWait, OpenInCalls, NothingYet, EndKnown
<1>12. CASE Join
  BY <1>k, <1>o, <1>n, <1>12 DEF Join, OpenInCalls, NothingYet, EndKnown
<1>13. CASE WorkerInit
  BY <1>k, <1>o, <1>n, <1>13 DEF WorkerInit, OpenInCalls, NothingYet, EndKnown, RemoteThrows
<1>14. CASE WorkerResumes
  BY <1>k, <1>o, <1>n, <1>14 DEF WorkerResumes, OpenInCalls, NothingYet, EndKnown
<1>15. CASE WorkerLoop
  BY <1>k, <1>o, <1>n, <1>15 DEF WorkerLoop, OpenInCalls, NothingYet, EndKnown
<1>16. CASE WorkerErrors
  BY <1>k, <1>o, <1>n, <1>16 DEF WorkerErrors, OpenInCalls, NothingYet, EndKnown, EndRemoteAs
<1>17. CASE WorkerPosts
  BY <1>k, <1>o, <1>n, <1>17 DEF WorkerPosts, OpenInCalls, NothingYet, EndKnown, EndRemote, EndRemoteAs
<1>18. CASE RemotePost
  BY <1>k, <1>o, <1>n, <1>18 DEF RemotePost, OpenInCalls, NothingYet, EndKnown, RemoteThrows
<1>19. CASE WorkerRoom
  BY <1>k, <1>o, <1>n, <1>19 DEF WorkerRoom, OpenInCalls, NothingYet, EndKnown, EndRemote, EndRemoteAs, InputFull
<1>20. CASE WorkerDrain
  BY <1>k, <1>o, <1>n, <1>20 DEF WorkerDrain, OpenInCalls, NothingYet, EndKnown
<1>21. CASE WorkerGet
  BY <1>k, <1>o, <1>n, <1>21 DEF WorkerGet, OpenInCalls, NothingYet, EndKnown, RemoteThrows, Enqueued
<1>22. CASE WorkerGot
  BY <1>k, <1>o, <1>n, <1>22 DEF WorkerGot, OpenInCalls, NothingYet, EndKnown, EndRemote, EndRemoteAs
<1> QED BY <1>1, <1>2, <1>3, <1>4, <1>5, <1>6, <1>7, <1>8, <1>9, <1>10, <1>11, <1>12,
           <1>13, <1>14, <1>15, <1>16, <1>17, <1>18, <1>19, <1>20, <1>21, <1>22
        DEF Next, AppCalls, AppGoesOn, Worker

\* A close() that follows a flush() has handed over all that was posted, unless
\* the remote ended by itself (VisDataMux.cc:788).
THEOREM ClosedAfterFlush == Spec => []CloseAfterFlush
<1>1. Init => Flushed
  BY DEF Init, Flushed
<1>2. ASSUME Inv, Flushed, [Next]_vars PROVE Flushed'
  <2>1. CASE Next
    BY <1>2, <2>1, FlushedStep
  <2>2. CASE UNCHANGED vars
    BY <1>2, <2>2 DEF vars, queues, history, Flushed
  <2> QED BY <1>2, <2>1, <2>2
<1>3. ASSUME Inv, Flushed PROVE CloseAfterFlush
  <2> SUFFICES ASSUME apc = "closed", flushed, ~ aborted, rstate = "closed"
      PROVE  sent = Upto(posted)
    BY DEF CloseAfterFlush
  <2>1. Len(sent) = posted
    BY <1>3 DEF Flushed, Inv, Control, OpenInCalls, EndKnown
  <2>2. From(sent, 0) /\ sent \in Seq(Nat) /\ posted \in Nat
    BY <1>3, Types, SeqMonotonic, BoundAssumption, 1..NOut \subseteq Nat DEF Inv, Output
  <2>3. Len(Upto(posted)) = posted /\ Upto(posted) \in Seq(Nat)
        /\ \A i \in 1..posted : Upto(posted)[i] = i
    BY <2>2 DEF Upto
  <2>4. \A i \in 1..posted : sent[i] = i
    BY <2>1, <2>2 DEF From
  <2> QED BY <2>1, <2>2, <2>3, <2>4, SeqEqual
<1> QED BY <1>1, <1>2, <1>3, InvHolds, PTL DEF Spec
=============================================================================

-------------------------- MODULE StompDaemonProofs --------------------------
(***************************************************************************)
(* Proofs about StompDaemon for every set of messages, jobs and workers    *)
(* and every bound on the faults.                                          *)
(***************************************************************************)
EXTENDS StompDaemon, TLAPS

LEMMA ResponseFields ==
  ASSUME NEW m \in Messages, NEW x \in Messages \cup {Error, Nothing}
  PROVE  [msg |-> m, of |-> x] \in Response
BY DEF Response

(* The worker's part of TypeOK. *)
WorkerType ==
  /\ worker \in [Workers -> [pc : Stages, msg : Messages, resp : Response \cup {Nothing}]
                             \cup {Idle}]
  /\ \A w \in Workers : worker[w].pc \in {"open", "save", "unbox", "send", "clear"}
                          => worker[w].resp \in Response /\ worker[w].resp.msg = worker[w].msg

LEMMA RespondType ==
  ASSUME TypeOK, NEW w \in Workers, NEW from \in {"run", "respond"},
         NEW r \in Messages \cup {Error, Nothing}, Respond(w, from, r)
  PROVE  WorkerType'
<1> DEFINE m == worker[w].msg
           new == [pc |-> "open", msg |-> m, resp |-> [msg |-> m, of |-> r]]
<1>1. worker[w] \in [pc : Stages, msg : Messages, resp : Response \cup {Nothing}]
  BY DEF TypeOK, Respond, Idle
<1>2. worker' = [worker EXCEPT ![w] = new]
  BY DEF Respond
<1>3. new \in [pc : Stages, msg : Messages, resp : Response \cup {Nothing}]
       /\ new.resp \in Response /\ new.resp.msg = m
  BY <1>1, ResponseFields DEF Stages
<1> QED  BY <1>2, <1>3 DEF WorkerType, TypeOK

(* A worker that moves from one stage to the next keeps its message and    *)
(* response, and no other worker is affected.                              *)
LEMMA StepFields ==
  ASSUME TypeOK, NEW w \in Workers, NEW from \in Stages, NEW to, Step(w, from, to)
  PROVE  /\ worker[w].pc = from /\ worker[w].msg \in Messages
         /\ worker'[w].pc = to /\ worker'[w].msg = worker[w].msg
         /\ \A v \in Workers : v # w => worker'[v] = worker[v]
<1>1. worker[w] \in [pc : Stages, msg : Messages, resp : Response \cup {Nothing}]
  BY DEF TypeOK, Step, Idle, Stages
<1> QED  BY <1>1 DEF TypeOK, Step

(* Every handler keeps the types: in particular a worker that has a        *)
(* response to save or send has one for its own message, and only what was *)
(* handed to the transport is received.                                    *)
LEMMA TypeStep == TypeOK /\ [Next]_vars => TypeOK'
<1> SUFFICES ASSUME TypeOK, [Next]_vars PROVE TypeOK'
  OBVIOUS
<1> USE DaemonAssumption, FileAssumption DEF TypeOK, net, disk, receiver, tasks, sent
<1>1. CASE Start  BY <1>1 DEF Start, OutboxFiles
<1>2. ASSUME NEW j \in Jobs, Resend(j) PROVE TypeOK'
  BY <1>2 DEF Resend, Transmit, StopReceiver
<1>3. ASSUME NEW j \in Jobs, ResendTorn(j) PROVE TypeOK'
  BY <1>3 DEF ResendTorn, StopReceiver
<1>4. CASE ResendDone  BY <1>4 DEF ResendDone
<1>5. CASE ListInbox  BY <1>5 DEF ListInbox
<1>6. ASSUME NEW m \in Messages, Submit(m) PROVE TypeOK'
  BY <1>6 DEF Submit, Submitted
<1>7. CASE Subscribe  BY <1>7 DEF Subscribe, StopReceiver
<1>8. CASE WriteInbox  BY <1>8 DEF WriteInbox
<1>9. CASE Ack  BY <1>9 DEF Ack, StopReceiver
<1>10. CASE OnDisconnected  BY <1>10 DEF OnDisconnected, StopReceiver
<1>11. CASE Exit  BY <1>11 DEF Exit, Requeued
<1>12. CASE LoseLink  BY <1>12 DEF LoseLink, Requeued
<1>13. CASE Crash  BY <1>13 DEF Crash, Requeued, Idle
<1>14. ASSUME NEW m \in Messages, Post(m) PROVE TypeOK'
  BY <1>14 DEF Post
<1>15. ASSUME NEW m \in Messages, OnMessage(m) PROVE TypeOK'
  BY <1>15 DEF OnMessage, Notify
<1>16. ASSUME NEW m \in Messages, OnCreated(m) PROVE TypeOK'
  BY <1>16 DEF OnCreated, Submitted
<1>17. ASSUME NEW w \in Workers, NEW m \in Messages, Take(w, m) PROVE TypeOK'
  BY <1>17 DEF Take, Idle, Stages
<1>18. ASSUME NEW w \in Workers, CommandRaises(w) PROVE TypeOK'
  <2>1. WorkerType'  BY <1>18, RespondType DEF CommandRaises
  <2> QED  BY <1>18, <2>1 DEF CommandRaises, WorkerType
<1>19. ASSUME NEW w \in Workers, CommandReturns(w) PROVE TypeOK'
  BY <1>19 DEF CommandReturns, Step, Idle, Stages
<1>20. ASSUME NEW w \in Workers, BuildResponse(w) PROVE TypeOK'
  <2>1. WorkerType'  BY <1>20, RespondType DEF BuildResponse
  <2> QED  BY <1>20, <2>1 DEF BuildResponse, WorkerType
<1>21. ASSUME NEW w \in Workers, SaveOpen(w) PROVE TypeOK'
  BY <1>21 DEF SaveOpen, Step, Idle, Stages
<1>22. ASSUME NEW w \in Workers, SaveWrite(w) PROVE TypeOK'
  BY <1>22 DEF SaveWrite, Step, Idle, Stages
<1>23. ASSUME NEW w \in Workers, RemoveInbox(w) PROVE TypeOK'
  BY <1>23 DEF RemoveInbox, Idle, Stages
<1>24. ASSUME NEW w \in Workers, Send(w) PROVE TypeOK'
  BY <1>24 DEF Send, Step, Transmit, Idle, Stages
<1>25. ASSUME NEW w \in Workers, ClearOutbox(w) PROVE TypeOK'
  BY <1>25 DEF ClearOutbox, Idle, Stages
<1>26. CASE UNCHANGED vars  BY <1>26 DEF vars
<1> QED
  BY <1>1, <1>2, <1>3, <1>4, <1>5, <1>6, <1>7, <1>8, <1>9, <1>10, <1>11, <1>12, <1>13,
     <1>14, <1>15, <1>16, <1>17, <1>18, <1>19, <1>20, <1>21, <1>22, <1>23, <1>24, <1>25,
     <1>26 DEF Next, Receiver, Work

(* TypeOK holds in every reachable state. *)
THEOREM TypeCorrect == Spec => []TypeOK
<1>1. Init => TypeOK
  BY DaemonAssumption, FileAssumption DEF Init, TypeOK, Idle
<1> QED  BY <1>1, TypeStep, PTL DEF Spec

-----------------------------------------------------------------------------
(* The inductive invariant.  When each command names a job of its own, no  *)
(* step of any thread, no crash and no broken connection breaks it.        *)
LEMMA InvStep == UniqueJobs /\ DaemonInv /\ [Next]_vars => DaemonInv'
<1> SUFFICES ASSUME UniqueJobs, DaemonInv, [Next]_vars PROVE DaemonInv'
  OBVIOUS
<1> USE DEF DaemonInv, net, disk, receiver, tasks, sent
<1>0. TypeOK'
  BY TypeStep
<1>1. CASE Start
  <2>1. AckedIsSafe' /\ Quiet' /\ Exclusive' /\ ReceiverHolds' /\ WorkerHolds' /\ Unposted'
       /\ OutboxKeyed'
    BY <1>1 DEF Start, AckedIsSafe, Safe, Holds, Answered, Quiet, Idle, Exclusive, Stored,
       Overwriting, Busy, Owned, Owns, Owning, ReceiverHolds, Kept, WorkerHolds, HoldsFor,
       Unposted, OutboxKeyed
  <2>2. SecondTask'
    BY <1>1 DEF Start, SecondTask, Quiet, Idle
  <2> QED  BY <1>0, <2>1, <2>2
<1>2. ASSUME NEW j \in Jobs, Resend(j) PROVE DaemonInv'
  <2>1. AckedIsSafe' /\ Quiet' /\ Exclusive' /\ ReceiverHolds' /\ WorkerHolds' /\
       SecondTask' /\ Unposted' /\ OutboxKeyed'
    BY <1>2 DEF Resend, Transmit, StopReceiver, AckedIsSafe, Safe, Holds, Answered, Quiet,
       Idle, Exclusive, Stored, Overwriting, Busy, Owned, Owns, Owning, ReceiverHolds, Kept,
       WorkerHolds, HoldsFor, SecondTask, Unposted, OutboxKeyed
  <2> QED  BY <1>0, <2>1
<1>3. ASSUME NEW j \in Jobs, ResendTorn(j) PROVE DaemonInv'
  <2>1. AckedIsSafe' /\ Quiet' /\ Exclusive' /\ ReceiverHolds' /\ WorkerHolds' /\
       SecondTask' /\ Unposted' /\ OutboxKeyed'
    BY <1>3 DEF ResendTorn, StopReceiver, AckedIsSafe, Safe, Holds, Answered, Quiet, Idle,
       Exclusive, Stored, Overwriting, Busy, Owned, Owns, Owning, ReceiverHolds, Kept,
       WorkerHolds, HoldsFor, SecondTask, Unposted, OutboxKeyed
  <2> QED  BY <1>0, <2>1
\* ResendDone: what is removed from the outbox was handed to the transport.
<1>4. CASE ResendDone
  <2>1. Quiet' /\ Exclusive' /\ ReceiverHolds' /\ SecondTask' /\ Unposted'
    BY <1>4 DEF ResendDone, Quiet, Idle, Exclusive, Stored, Overwriting, Busy, Owned, Owns,
       Owning, ReceiverHolds, Safe, Kept, Holds, Answered, SecondTask, Unposted
  <2>2. AckedIsSafe'
    BY <1>4 DEF ResendDone, AckedIsSafe, Safe, Holds, Answered, ReceiverHolds
  <2>3. WorkerHolds'
    BY <1>4 DEF ResendDone, WorkerHolds, HoldsFor, Quiet, Idle
  <2>4. OutboxKeyed'
    BY <1>4, FileAssumption DEF ResendDone, OutboxKeyed
  <2> QED  BY <1>0, <2>1, <2>2, <2>3, <2>4
\* ListInbox: nothing is queued or running yet.
<1>5. CASE ListInbox
  <2>1. AckedIsSafe' /\ Quiet' /\ ReceiverHolds' /\ WorkerHolds' /\ SecondTask' /\ Unposted'
       /\ OutboxKeyed'
    BY <1>5 DEF ListInbox, AckedIsSafe, Safe, Holds, Answered, Quiet, Idle, ReceiverHolds,
       Kept, WorkerHolds, HoldsFor, SecondTask, Owned, Owns, Owning, Unposted, OutboxKeyed
  <2>2. Exclusive'
    BY <1>5, DaemonAssumption DEF ListInbox, Exclusive, Busy, Owns, Quiet, Idle
  <2> QED  BY <1>0, <2>1, <2>2
\* Submit: each listed file is submitted once.
<1>6. ASSUME NEW m \in Messages, Submit(m) PROVE DaemonInv'
  <2>1. AckedIsSafe' /\ Quiet' /\ ReceiverHolds' /\ WorkerHolds' /\ Unposted' /\
       OutboxKeyed'
    BY <1>6 DEF Submit, Submitted, AckedIsSafe, Safe, Holds, Answered, Quiet, Idle,
       ReceiverHolds, Kept, WorkerHolds, HoldsFor, Unposted, OutboxKeyed
  <2>2. Exclusive'
    BY <1>6 DEF Submit, Submitted, Exclusive, Stored, Overwriting, Busy, Owned, Owns,
       Owning, Quiet
  <2>3. SecondTask'
    BY <1>6 DEF Submit, Submitted, SecondTask, Owned, Owns, Busy, Exclusive
  <2> QED  BY <1>0, <2>1, <2>2, <2>3
<1>7. CASE Subscribe
  <2>1. AckedIsSafe' /\ Quiet' /\ Exclusive' /\ ReceiverHolds' /\ WorkerHolds' /\
       SecondTask' /\ Unposted' /\ OutboxKeyed'
    BY <1>7 DEF Subscribe, StopReceiver, AckedIsSafe, Safe, Holds, Answered, Quiet, Idle,
       Exclusive, Stored, Overwriting, Busy, Owned, Owns, Owning, ReceiverHolds, Kept,
       WorkerHolds, HoldsFor, SecondTask, Unposted, OutboxKeyed
  <2> QED  BY <1>0, <2>1
<1>8. CASE WriteInbox
  <2>1. AckedIsSafe' /\ Quiet' /\ WorkerHolds' /\ SecondTask' /\ Unposted' /\ OutboxKeyed'
    BY <1>8 DEF WriteInbox, AckedIsSafe, Safe, Holds, Answered, Quiet, Idle, WorkerHolds,
       HoldsFor, Kept, SecondTask, Owned, Owns, Owning, Unposted, OutboxKeyed
  <2>2. Exclusive'
    BY <1>8 DEF WriteInbox, Exclusive, Stored, Overwriting, Owned, Owns, TypeOK
  <2>3. ReceiverHolds'
    BY <1>8 DEF WriteInbox, ReceiverHolds, Safe, Kept, Holds, Answered, TypeOK
  <2> QED  BY <1>0, <2>1, <2>2, <2>3
\* Ack: the broker forgets a message only with Safe(current).
<1>9. CASE Ack
  <2>1. Quiet' /\ Exclusive' /\ ReceiverHolds' /\ WorkerHolds' /\ OutboxKeyed'
    BY <1>9 DEF Ack, StopReceiver, Delivers, Vanishes, Quiet, Idle, Exclusive, Stored,
       Overwriting, Busy, Owned, Owns, Owning, ReceiverHolds, Safe, Kept, Holds, Answered,
       WorkerHolds, HoldsFor, OutboxKeyed
  <2>2. AckedIsSafe'
    BY <1>9 DEF Ack, StopReceiver, Delivers, Vanishes, AckedIsSafe, Safe, Holds, Answered,
       TypeOK, ReceiverHolds
  <2>3. SecondTask'
    BY <1>9 DEF Ack, StopReceiver, Delivers, Vanishes, SecondTask, Owned, Owns, TypeOK, Idle
  <2>4. Unposted'
    BY <1>9 DEF Ack, StopReceiver, Delivers, Vanishes, Unposted, TypeOK
  <2> QED  BY <1>0, <2>1, <2>2, <2>3, <2>4
<1>10. CASE OnDisconnected
  <2>1. AckedIsSafe' /\ Quiet' /\ Exclusive' /\ ReceiverHolds' /\ WorkerHolds' /\
       SecondTask' /\ Unposted' /\ OutboxKeyed'
    BY <1>10 DEF OnDisconnected, StopReceiver, AckedIsSafe, Safe, Holds, Answered, Quiet,
       Idle, Exclusive, Stored, Overwriting, Busy, Owned, Owns, Owning, ReceiverHolds, Kept,
       WorkerHolds, HoldsFor, SecondTask, Unposted, OutboxKeyed
  <2> QED  BY <1>0, <2>1
<1>11. CASE Exit
  <2>1. AckedIsSafe' /\ Quiet' /\ Exclusive' /\ ReceiverHolds' /\ WorkerHolds' /\
       SecondTask' /\ Unposted' /\ OutboxKeyed'
    BY <1>11 DEF Exit, Requeued, AckedIsSafe, Safe, Holds, Answered, Quiet, Idle, Exclusive,
       Stored, Overwriting, Busy, Owned, Owns, Owning, ReceiverHolds, Kept, WorkerHolds,
       HoldsFor, SecondTask, Unposted, OutboxKeyed
  <2> QED  BY <1>0, <2>1
<1>12. CASE LoseLink
  <2>1. AckedIsSafe' /\ Quiet' /\ Exclusive' /\ WorkerHolds' /\ SecondTask' /\ Unposted' /\
       OutboxKeyed'
    BY <1>12 DEF LoseLink, Requeued, AckedIsSafe, Safe, Holds, Answered, Quiet, Idle,
       Exclusive, Stored, Overwriting, Busy, Owned, Owns, Owning, WorkerHolds, HoldsFor,
       Kept, SecondTask, Unposted, OutboxKeyed
  <2>2. ReceiverHolds'
    BY <1>12 DEF LoseLink, Requeued, ReceiverHolds, Safe, Kept, Holds, Answered, TypeOK
  <2> QED  BY <1>0, <2>1, <2>2
<1>13. CASE Crash
  <2>1. AckedIsSafe' /\ Quiet' /\ ReceiverHolds' /\ SecondTask' /\ Unposted' /\ OutboxKeyed'
    BY <1>13 DEF Crash, Requeued, AckedIsSafe, Safe, Holds, Answered, Quiet, Idle,
       ReceiverHolds, Kept, SecondTask, Owned, Owns, Owning, Unposted, OutboxKeyed
  <2>2. Exclusive'
    BY <1>13, DaemonAssumption DEF Crash, Requeued, Exclusive, Owns, Idle
  <2>3. WorkerHolds'
    BY <1>13 DEF Crash, Requeued, WorkerHolds, HoldsFor, Idle
  <2> QED  BY <1>0, <2>1, <2>2, <2>3
<1>14. ASSUME NEW m \in Messages, Post(m) PROVE DaemonInv'
  <2>1. AckedIsSafe' /\ Quiet' /\ Exclusive' /\ ReceiverHolds' /\ WorkerHolds' /\ Unposted'
       /\ OutboxKeyed'
    BY <1>14 DEF Post, AckedIsSafe, Safe, Holds, Answered, Quiet, Idle, Exclusive, Stored,
       Overwriting, Busy, Owned, Owns, Owning, ReceiverHolds, Kept, WorkerHolds, HoldsFor,
       Unposted, OutboxKeyed
  <2>2. SecondTask'
    BY <1>14 DEF Post, SecondTask, Owned, Owns, Exclusive, Unposted
  <2> QED  BY <1>0, <2>1, <2>2
\* OnMessage: only a file that is not there is reported, so no task owns it.
<1>15. ASSUME NEW m \in Messages, OnMessage(m) PROVE DaemonInv'
  <2>1. AckedIsSafe' /\ Quiet' /\ WorkerHolds' /\ Unposted' /\ OutboxKeyed'
    BY <1>15 DEF OnMessage, Notify, AckedIsSafe, Safe, Holds, Answered, Quiet, Idle,
       WorkerHolds, HoldsFor, Kept, Unposted, OutboxKeyed
  <2>2. Exclusive'
    BY <1>15 DEF OnMessage, Notify, Exclusive, Stored, Overwriting, Owned, Owns, TypeOK
  <2>3. ReceiverHolds'
    BY <1>15 DEF OnMessage, Notify, ReceiverHolds, TypeOK
  <2>4. SecondTask'
    BY <1>15 DEF OnMessage, Notify, SecondTask, Owned, Owns, TypeOK
  <2> QED  BY <1>0, <2>1, <2>2, <2>3, <2>4
<1>16. ASSUME NEW m \in Messages, OnCreated(m) PROVE DaemonInv'
  <2>1. AckedIsSafe' /\ Quiet' /\ ReceiverHolds' /\ WorkerHolds' /\ SecondTask' /\ Unposted'
       /\ OutboxKeyed'
    BY <1>16 DEF OnCreated, Submitted, AckedIsSafe, Safe, Holds, Answered, Quiet, Idle,
       ReceiverHolds, Kept, WorkerHolds, HoldsFor, SecondTask, Owned, Owns, Owning,
       Unposted, OutboxKeyed
  <2>2. Exclusive'
    BY <1>16 DEF OnCreated, Submitted, Exclusive, Stored, Overwriting, Owned, Owns, Quiet
  <2> QED  BY <1>0, <2>1, <2>2
<1>17. ASSUME NEW w \in Workers, NEW m \in Messages, Take(w, m) PROVE DaemonInv'
  <2>1. AckedIsSafe' /\ Quiet' /\ Exclusive' /\ ReceiverHolds' /\ WorkerHolds' /\
       SecondTask' /\ Unposted' /\ OutboxKeyed'
    BY <1>17 DEF Take, AckedIsSafe, Safe, Holds, Answered, Quiet, Idle, Exclusive, Stored,
       Overwriting, Busy, Owned, Owns, Owning, ReceiverHolds, Kept, WorkerHolds, HoldsFor,
       SecondTask, Unposted, OutboxKeyed
  <2> QED  BY <1>0, <2>1
<1>18. ASSUME NEW w \in Workers, CommandRaises(w) PROVE DaemonInv'
  <2>1. AckedIsSafe' /\ Quiet' /\ Exclusive' /\ ReceiverHolds' /\ WorkerHolds' /\
       SecondTask' /\ Unposted' /\ OutboxKeyed'
    BY <1>18 DEF CommandRaises, Respond, AckedIsSafe, Safe, Holds, Answered, Quiet, Idle,
       Exclusive, Stored, Overwriting, Busy, Owned, Owns, Owning, ReceiverHolds, Kept,
       WorkerHolds, HoldsFor, SecondTask, Unposted, OutboxKeyed
  <2> QED  BY <1>0, <2>1
<1>19. ASSUME NEW w \in Workers, CommandReturns(w) PROVE DaemonInv'
  <2>1. AckedIsSafe' /\ Quiet' /\ Exclusive' /\ ReceiverHolds' /\ WorkerHolds' /\
       SecondTask' /\ Unposted' /\ OutboxKeyed'
    BY <1>19 DEF CommandReturns, Step, AckedIsSafe, Safe, Holds, Answered, Quiet, Idle,
       Exclusive, Stored, Overwriting, Busy, Owned, Owns, Owning, ReceiverHolds, Kept,
       WorkerHolds, HoldsFor, SecondTask, Unposted, OutboxKeyed
  <2> QED  BY <1>0, <2>1
<1>20. ASSUME NEW w \in Workers, BuildResponse(w) PROVE DaemonInv'
  <2>1. AckedIsSafe' /\ Quiet' /\ Exclusive' /\ ReceiverHolds' /\ WorkerHolds' /\
       SecondTask' /\ Unposted' /\ OutboxKeyed'
    BY <1>20 DEF BuildResponse, Respond, AckedIsSafe, Safe, Holds, Answered, Quiet, Idle,
       Exclusive, Stored, Overwriting, Busy, Owned, Owns, Owning, ReceiverHolds, Kept,
       WorkerHolds, HoldsFor, SecondTask, Unposted, OutboxKeyed
  <2> QED  BY <1>0, <2>1
\* SaveOpen: truncating the outbox file is safe while the inbox file is complete.
<1>21. ASSUME NEW w \in Workers, SaveOpen(w) PROVE DaemonInv'
  <2>1. Quiet' /\ Exclusive' /\ SecondTask' /\ Unposted'
    BY <1>21 DEF SaveOpen, Step, Quiet, Idle, Exclusive, Stored, Overwriting, Busy, Owned,
       Owns, Owning, SecondTask, Unposted
  <2>2. AckedIsSafe'
    BY <1>21 DEF SaveOpen, Step, AckedIsSafe, Safe, Holds, Answered, UniqueJobs, TypeOK,
       Exclusive, Idle, Overwriting, Owning, Owns, ReceiverHolds, Stored
  <2>3. ReceiverHolds'
    BY <1>21 DEF SaveOpen, Step, ReceiverHolds, Safe, Kept, Holds, Answered, UniqueJobs,
       TypeOK, Exclusive, Idle, Overwriting, Owning, Owns, Quiet, Stored
  <2>4. WorkerHolds'
    <3> SUFFICES ASSUME NEW v \in Workers PROVE HoldsFor(v)'
      BY DEF WorkerHolds
    <3>1. /\ worker[w].pc = "open" /\ worker[w].msg \in Messages
          /\ worker'[w].pc = "save" /\ worker'[w].msg = worker[w].msg
          /\ \A u \in Workers : u # w => worker'[u] = worker[u]
      BY <1>21, StepFields DEF SaveOpen, Stages
    <3>2. outbox'[JobOf[worker[w].msg]] # NoFile
      BY <1>21, <3>1, DaemonAssumption, FileAssumption DEF SaveOpen, TypeOK
    <3>3. CASE v = w
      BY <3>1, <3>2, <3>3 DEF HoldsFor
    <3>4. CASE v # w
      <4>1. worker[v].pc = "unbox" => worker[v].msg # worker[w].msg
        BY <3>1, <3>4 DEF Exclusive, Owns, Owning
      <4>2. worker[v].pc # "idle" => worker[v].msg \in Messages
        BY DEF TypeOK, Idle
      <4>3. worker[v].pc # "idle" /\ worker[v].msg # worker[w].msg
              => outbox'[JobOf[worker[v].msg]] = outbox[JobOf[worker[v].msg]]
        BY <1>21, <3>1, <4>2, DaemonAssumption DEF SaveOpen, TypeOK, UniqueJobs
      <4> QED
        BY <1>21, <3>1, <3>2, <3>4, <4>1, <4>3 DEF SaveOpen, WorkerHolds, HoldsFor, Kept,
           Holds, Answered
    <3> QED  BY <3>3, <3>4
  <2>5. OutboxKeyed'
    BY <1>21, FileAssumption DEF SaveOpen, Step, OutboxKeyed
  <2> QED  BY <1>0, <2>1, <2>2, <2>3, <2>4, <2>5
<1>22. ASSUME NEW w \in Workers, SaveWrite(w) PROVE DaemonInv'
  <2>1. Quiet' /\ Exclusive' /\ SecondTask' /\ Unposted'
    BY <1>22 DEF SaveWrite, Step, Quiet, Idle, Exclusive, Stored, Overwriting, Busy, Owned,
       Owns, Owning, SecondTask, Unposted
  <2>2. AckedIsSafe'
    BY <1>22 DEF SaveWrite, Step, AckedIsSafe, Safe, Holds, Answered, UniqueJobs, TypeOK,
       Idle
  <2>3. ReceiverHolds'
    BY <1>22 DEF SaveWrite, Step, ReceiverHolds, Safe, Kept, Holds, Answered, UniqueJobs,
       TypeOK, Idle, Quiet
  <2>4. WorkerHolds'
    <3> SUFFICES ASSUME NEW v \in Workers PROVE HoldsFor(v)'
      BY DEF WorkerHolds
    <3>1. /\ worker[w].pc = "save" /\ worker[w].msg \in Messages
          /\ worker'[w].pc = "unbox" /\ worker'[w].msg = worker[w].msg
          /\ \A u \in Workers : u # w => worker'[u] = worker[u]
      BY <1>22, StepFields DEF SaveWrite, Stages
    <3>2. Kept(worker[w].msg)'
      <4> DEFINE j == JobOf[worker[w].msg]
      <4>1. outbox[j] # NoFile \/ Answered(worker[w].msg)
        BY <3>1 DEF WorkerHolds, HoldsFor
      <4>2. worker[w].resp \in Response /\ worker[w].resp.msg = worker[w].msg
        BY <3>1 DEF TypeOK
      <4>3. outbox'[j] = IF outbox[j] = NoFile THEN NoFile ELSE worker[w].resp
        BY <1>22, <3>1, DaemonAssumption DEF SaveWrite, TypeOK
      <4> QED  BY <1>22, <3>1, <4>1, <4>2, <4>3 DEF SaveWrite, Kept, Holds, Answered
    <3>3. CASE v = w
      BY <3>1, <3>2, <3>3 DEF HoldsFor, Kept, Holds, Answered
    <3>4. CASE v # w
      <4>1. worker[v].pc \in {"unbox", "save"} => worker[v].msg # worker[w].msg
        BY <3>1, <3>4 DEF Exclusive, Owns, Owning
      <4>2. worker[v].pc # "idle" => worker[v].msg \in Messages
        BY DEF TypeOK, Idle
      <4>3. worker[v].pc # "idle" /\ worker[v].msg # worker[w].msg
              => outbox'[JobOf[worker[v].msg]] = outbox[JobOf[worker[v].msg]]
        BY <1>22, <3>1, <4>2, DaemonAssumption DEF SaveWrite, TypeOK, UniqueJobs
      <4> QED
        BY <1>22, <3>1, <3>2, <3>4, <4>1, <4>3 DEF SaveWrite, WorkerHolds, HoldsFor, Kept,
           Holds, Answered
    <3> QED  BY <3>3, <3>4
  <2>5. OutboxKeyed'
    BY <1>22 DEF SaveWrite, Step, OutboxKeyed, TypeOK
  <2> QED  BY <1>0, <2>1, <2>2, <2>3, <2>4, <2>5
\* RemoveInbox: the response has been saved, or sent by an earlier task.
<1>23. ASSUME NEW w \in Workers, RemoveInbox(w) PROVE DaemonInv'
  <2>1. Quiet' /\ Unposted' /\ OutboxKeyed'
    BY <1>23 DEF RemoveInbox, Quiet, Idle, Unposted, OutboxKeyed
  <2>2. AckedIsSafe'
    BY <1>23 DEF RemoveInbox, AckedIsSafe, Safe, Holds, Answered, Kept, WorkerHolds,
       HoldsFor
  <2>3. Exclusive'
    BY <1>23 DEF RemoveInbox, Exclusive, Stored, Overwriting, Busy, Owned, Owns, Owning,
       TypeOK
  <2>4. ReceiverHolds'
    BY <1>23 DEF RemoveInbox, ReceiverHolds, Safe, Kept, Holds, Answered, WorkerHolds,
       HoldsFor
  <2>5. WorkerHolds'
    <3> SUFFICES ASSUME NEW v \in Workers PROVE HoldsFor(v)'
      BY DEF WorkerHolds
    <3>1. CASE v = w
      BY <1>23, <3>1 DEF RemoveInbox, WorkerHolds, HoldsFor, Kept, Holds, Answered, TypeOK,
         Idle
    <3>2. CASE v # w
      BY <1>23, <3>2 DEF RemoveInbox, WorkerHolds, HoldsFor, Kept, Holds, Answered, TypeOK
    <3> QED  BY <3>1, <3>2
  <2>6. SecondTask'
    <3>1. \A m \in Messages : m \in created \cup pool \/ Owned(m)' => m # worker[w].msg
      BY <1>23 DEF RemoveInbox, Exclusive, Owned, Owns, Owning, TypeOK, Idle
    <3>2. \A m \in Messages : Owned(m)' => Owned(m)
      BY <1>23 DEF RemoveInbox, Owned, Owns, Owning, TypeOK, Idle
    <3>3. \A v \in Workers : v # w => worker'[v] = worker[v]
      BY <1>23 DEF RemoveInbox, TypeOK
    <3>4. worker'[w].msg \in {worker[w].msg, Nothing} /\ (worker'[w].pc = "send" =>
            worker'[w].msg = worker[w].msg)
      BY <1>23 DEF RemoveInbox, TypeOK, Idle
    <3>5. \A v \in Workers : worker[v].pc # "idle" => worker[v].msg \in Messages
      BY DEF TypeOK, Idle
    <3> QED
      BY <1>23, <3>1, <3>2, <3>3, <3>4, <3>5 DEF RemoveInbox, SecondTask, TypeOK
  <2> QED  BY <1>0, <2>1, <2>2, <2>3, <2>4, <2>5, <2>6
<1>24. ASSUME NEW w \in Workers, Send(w) PROVE DaemonInv'
  <2>1. AckedIsSafe' /\ Quiet' /\ ReceiverHolds' /\ Unposted' /\ OutboxKeyed'
    BY <1>24 DEF Send, Step, Transmit, AckedIsSafe, Safe, Holds, Answered, Quiet, Idle,
       ReceiverHolds, Kept, Unposted, OutboxKeyed
  <2>2. Exclusive'
    BY <1>24 DEF Send, Step, Transmit, Exclusive, Stored, Overwriting, Busy, Owned, Owns,
       Owning, TypeOK, Idle
  <2>3. WorkerHolds'
    BY <1>24 DEF Send, Step, Transmit, WorkerHolds, HoldsFor, Kept, Holds, Answered, TypeOK,
       Idle
  <2>4. SecondTask'
    BY <1>24 DEF Send, Step, Transmit, SecondTask, Owned, Owns, Owning, TypeOK, Idle
  <2> QED  BY <1>0, <2>1, <2>2, <2>3, <2>4
\* ClearOutbox: the response was sent.
<1>25. ASSUME NEW w \in Workers, ClearOutbox(w) PROVE DaemonInv'
  <2>1. Quiet' /\ Unposted'
    BY <1>25 DEF ClearOutbox, Quiet, Idle, Unposted
  <2>2. AckedIsSafe'
    BY <1>25 DEF ClearOutbox, AckedIsSafe, Safe, Holds, Answered, UniqueJobs, TypeOK, Idle,
       WorkerHolds, HoldsFor
  <2>3. Exclusive'
    BY <1>25, DaemonAssumption DEF ClearOutbox, Exclusive, Stored, Overwriting, Busy, Owned,
       Owns, TypeOK, Idle
  <2>4. ReceiverHolds'
    BY <1>25 DEF ClearOutbox, ReceiverHolds, Safe, Kept, Holds, Answered, UniqueJobs,
       TypeOK, Idle, Quiet, WorkerHolds, HoldsFor
  <2>5. WorkerHolds'
    BY <1>25 DEF ClearOutbox, WorkerHolds, HoldsFor, Kept, Holds, Answered, UniqueJobs,
       TypeOK, Idle
  <2>6. SecondTask'
    BY <1>25, DaemonAssumption DEF ClearOutbox, SecondTask, Owned, Owns, TypeOK, Idle
  <2>7. OutboxKeyed'
    BY <1>25, FileAssumption DEF ClearOutbox, OutboxKeyed
  <2> QED  BY <1>0, <2>1, <2>2, <2>3, <2>4, <2>5, <2>6, <2>7
<1>26. CASE UNCHANGED vars
  BY <1>26 DEF vars, TypeOK, AckedIsSafe, Safe, Holds, Answered, Quiet, Exclusive, Stored,
     Overwriting, Busy, Owned, Owns, ReceiverHolds, Kept, WorkerHolds, HoldsFor, SecondTask,
     Unposted, OutboxKeyed
<1> QED
  BY <1>1, <1>2, <1>3, <1>4, <1>5, <1>6, <1>7, <1>8, <1>9, <1>10, <1>11, <1>12, <1>13,
     <1>14, <1>15, <1>16, <1>17, <1>18, <1>19, <1>20, <1>21, <1>22, <1>23, <1>24, <1>25,
     <1>26 DEF Next, Receiver, Work

LEMMA InvInit == Init => DaemonInv
<1> SUFFICES ASSUME Init PROVE DaemonInv
  OBVIOUS
<1>1. TypeOK
  BY DaemonAssumption, FileAssumption DEF Init, TypeOK, Idle
<1>2. AckedIsSafe /\ Quiet /\ Exclusive /\ ReceiverHolds /\ WorkerHolds
  BY DaemonAssumption DEF Init, Idle, Owning, AckedIsSafe, Quiet, Exclusive, Owned, Owns,
     ReceiverHolds, WorkerHolds, HoldsFor
<1>3. SecondTask /\ Unposted /\ OutboxKeyed
  BY FileAssumption DEF Init, Idle, SecondTask, Unposted, OutboxKeyed
<1> QED  BY <1>1, <1>2, <1>3 DEF DaemonInv

(* The named parts hold in every reachable state. *)
THEOREM InvCorrect == ASSUME UniqueJobs PROVE Spec => []DaemonInv
<1>1. DaemonInv /\ [Next]_vars => DaemonInv'
  BY InvStep
<1> QED  BY <1>1, InvInit, PTL DEF Spec

(* No job is lost: an acknowledged command can be answered from the disk   *)
(* or has been answered, for any number of messages, workers and faults.   *)
THEOREM NoJobLost == ASSUME UniqueJobs PROVE Spec => []AckedIsSafe
<1>1. DaemonInv => AckedIsSafe
  BY DEF DaemonInv
<1> QED  BY <1>1, InvCorrect, PTL

(* A message is never queued or run by two tasks that own its inbox file. *)
THEOREM OneTask == ASSUME UniqueJobs PROVE Spec => []OneTaskPerFile
<1>1. DaemonInv => OneTaskPerFile
  <2> SUFFICES ASSUME DaemonInv PROVE OneTaskPerFile
    OBVIOUS
  <2>1. \A w \in Workers : worker[w].pc \in Owning =>
          worker[w].msg \in Messages /\ Owns(w, worker[w].msg)
    BY DEF DaemonInv, TypeOK, Owns, Owning, Idle
  <2> QED
    BY <2>1 DEF DaemonInv, OneTaskPerFile, Exclusive, Owned, Owns, Stored, Overwriting,
       TypeOK
<1> QED  BY <1>1, InvCorrect, PTL
-----------------------------------------------------------------------------
(* What is true as long as nothing has failed: a command that was not      *)
(* delivered has left no trace, no command is being delivered when the     *)
(* daemon starts, the file that is written belongs to no task, and a       *)
(* worker that sends is the only one that knows of its command.            *)
Fresh(m) == inbox[m] = "absent" /\ ~Answered(m) /\ \A w \in Workers : ~Busy(w, m)
Undelivered(m) == broker[m] \in {"unposted", "queued"}

Healthy ==
  /\ recv \notin {"stopped", "resent"}
  /\ recv # "off" => link = "up"
  /\ recv \in {"off", "resend", "submit"} =>
       todo = {} /\ OutboxFiles = {} /\ \A m \in Messages : Undelivered(m)
DeliveredOnce ==
  /\ \A m \in Messages : Undelivered(m) => Fresh(m)
  /\ recv = "write" =>
       /\ ~Undelivered(current) /\ inbox[current] = "torn" /\ current \notin pool
       /\ \A w \in Workers : ~Busy(w, current)
AnsweredLast ==
  /\ \A w \in Workers : worker[w].pc \in {"send", "clear"} => inbox[worker[w].msg] = "absent"
  /\ \A m \in Messages, v, w \in Workers : Busy(v, m) /\ Busy(w, m) => v = w
  /\ \A m \in Messages : Answered(m) =>
       inbox[m] = "absent" /\ \A w \in Workers : Busy(w, m) => worker[w].pc = "clear"

FaultFree == faults = 0 => Healthy /\ DeliveredOnce /\ AnsweredLast

(* A worker goes on with its command, which is not answered yet, or ends.  *)
LEMMA FaultFreeWork ==
  ASSUME DaemonInv, FaultFree, faults = 0, NEW w \in Workers, worker[w].pc # "idle",
         \A v \in Workers : v # w => worker'[v] = worker[v],
         \/ worker'[w] = Idle
         \/ /\ worker'[w].msg = worker[w].msg /\ worker'[w].pc \notin {"send", "clear"}
            /\ worker[w].pc # "clear",
         handed' = handed, inbox' = inbox, UNCHANGED <<net, receiver, pool>>,
         \A j \in Jobs : outbox'[j] # outbox[j] => j = JobOf[worker[w].msg]
  PROVE  FaultFree'
<1> DEFINE m == worker[w].msg
<1>1. m \in Messages /\ Busy(w, m) /\ ~Undelivered(m)
  BY DEF DaemonInv, TypeOK, Idle, Busy, FaultFree, DeliveredOnce, Fresh
<1>2. \A v \in Workers, n \in Messages : Busy(v, n)' => Busy(v, n)
  BY <1>1, DaemonAssumption DEF Busy, Idle
<1>3. \A n \in Messages : (Answered(n)' <=> Answered(n)) /\ (Undelivered(n)' <=> Undelivered(n))
  BY DEF Answered, Undelivered, net
<1>4. Healthy'
  BY <1>1, <1>3 DEF FaultFree, Healthy, net, receiver
<1>5. DeliveredOnce'
  <2>1. \A n \in Messages : Undelivered(n)' => Fresh(n)'
    BY <1>2, <1>3 DEF FaultFree, DeliveredOnce, Fresh
  <2>2. recv = "write" => current \in Messages
    BY DEF DaemonInv, TypeOK
  <2> QED
    BY <1>2, <1>3, <2>1, <2>2 DEF FaultFree, DeliveredOnce, net, receiver
<1>6. AnsweredLast'
  <2>1. ASSUME NEW v \in Workers, worker'[v].pc \in {"send", "clear"}
        PROVE  inbox'[worker'[v].msg] = "absent"
    BY <2>1 DEF FaultFree, AnsweredLast, Idle
  <2>2. ASSUME NEW n \in Messages, Answered(n)', NEW v \in Workers, Busy(v, n)'
        PROVE  worker'[v].pc = "clear"
    <3>1. Answered(n) /\ Busy(v, n)
      BY <1>2, <1>3, <2>2
    <3>2. worker[v].pc = "clear" /\ worker[v].msg = n
      BY <3>1 DEF FaultFree, AnsweredLast, Busy
    <3> QED
      BY <3>2, <2>2 DEF Busy, Idle
  <2>3. \A n \in Messages : Answered(n)' => inbox'[n] = "absent"
    BY <1>3 DEF FaultFree, AnsweredLast
  <2>4. \A n \in Messages, u, v \in Workers : Busy(u, n)' /\ Busy(v, n)' => u = v
    BY <1>2 DEF FaultFree, AnsweredLast
  <2> QED  BY <2>1, <2>2, <2>3, <2>4 DEF AnsweredLast
<1> QED  BY <1>4, <1>5, <1>6 DEF FaultFree

LEMMA FaultFreeStep == DaemonInv /\ FaultFree /\ [Next]_vars => FaultFree'
<1> SUFFICES ASSUME DaemonInv, FaultFree, [Next]_vars, faults' = 0
             PROVE  FaultFree'
  BY DEF FaultFree
<1>a. TypeOK /\ Quiet /\ Exclusive /\ WorkerHolds
  BY DEF DaemonInv
<1>b. faults = 0
  BY <1>a DEF TypeOK, vars, net, disk, receiver, tasks, sent, Next, Receiver, Work, Start,
     ResendDone, ListInbox, Subscribe, WriteInbox, Ack, OnDisconnected, Exit, Resend,
     ResendTorn, Submit, LoseLink, Crash, Post, OnMessage, OnCreated, Take, CommandRaises,
     CommandReturns, BuildResponse, SaveOpen, SaveWrite, RemoveInbox, Send, ClearOutbox
<1>c. Healthy /\ DeliveredOnce /\ AnsweredLast
  BY <1>b DEF FaultFree
<1> USE DEF net, disk, receiver, tasks, sent
<1>1. CASE Start
  <2>1. Healthy'
    BY <1>1, <1>c DEF Start, Healthy, OutboxFiles, Undelivered
  <2>2. DeliveredOnce' /\ AnsweredLast'
    BY <1>1, <1>c DEF Start, DeliveredOnce, AnsweredLast, Fresh, Undelivered, Busy, Answered
  <2> QED  BY <2>1, <2>2 DEF FaultFree
\* There is nothing to send again and nothing to submit.
<1>2. (\A j \in Jobs : ~Resend(j) /\ ~ResendTorn(j)) /\ \A m \in Messages : ~Submit(m)
  BY <1>c DEF Resend, ResendTorn, Submit, Healthy
<1>3. ~ResendDone /\ ~Exit /\ ~OnDisconnected /\ ~LoseLink /\ ~Crash
  BY <1>a, <1>b, <1>c DEF ResendDone, Exit, OnDisconnected, Healthy, LoseLink, Crash, TypeOK
<1>4. CASE ListInbox
  <2>1. Healthy'
    BY <1>4, <1>c DEF ListInbox, Healthy, DeliveredOnce, Fresh, OutboxFiles, Undelivered
  <2>2. DeliveredOnce' /\ AnsweredLast'
    BY <1>4, <1>c DEF ListInbox, DeliveredOnce, AnsweredLast, Fresh, Undelivered, Busy, Answered
  <2> QED  BY <2>1, <2>2 DEF FaultFree
<1>5. CASE Subscribe
  <2>1. recv' = "listening" /\ UNCHANGED <<todo, current, tasks, net, disk, sent>>
    BY <1>5, <1>c DEF Subscribe, Raises, Connected, Healthy
  <2>2. Healthy'
    BY <2>1, <1>5, <1>c DEF Subscribe, Healthy
  <2>3. DeliveredOnce' /\ AnsweredLast'
    BY <2>1, <1>c DEF DeliveredOnce, AnsweredLast, Fresh, Undelivered, Busy, Answered
  <2> QED  BY <2>2, <2>3 DEF FaultFree
<1>6. CASE WriteInbox
  <2>1. current \in Messages /\ ~Answered(current) /\ ~Undelivered(current)
        /\ \A w \in Workers : ~Busy(w, current)
    BY <1>6, <1>a, <1>c DEF WriteInbox, TypeOK, DeliveredOnce, AnsweredLast
  <2>2. \A n \in Messages : n # current => inbox'[n] = inbox[n]
    BY <1>6, <1>a DEF WriteInbox, TypeOK
  <2>3. Healthy'
    BY <1>6, <1>c DEF WriteInbox, Healthy, OutboxFiles, Undelivered
  <2>4. DeliveredOnce'
    BY <1>6, <1>c, <2>1, <2>2 DEF WriteInbox, DeliveredOnce, Fresh, Undelivered, Busy, Answered
  <2>5. \A w \in Workers : worker[w].pc \in {"send", "clear"} =>
          worker[w].msg \in Messages \ {current}
    BY <1>a, <2>1 DEF TypeOK, Idle, Busy
  <2>6. AnsweredLast'
    BY <1>6, <1>c, <2>1, <2>2, <2>5 DEF WriteInbox, AnsweredLast, Busy, Answered
  <2> QED  BY <2>3, <2>4, <2>6 DEF FaultFree
<1>7. CASE Ack
  <2>1. link = "up" /\ Delivers /\ current \in Messages
    BY <1>7, <1>a, <1>c DEF Ack, Healthy, Delivers, Connected, TypeOK
  <2>2. broker' = [broker EXCEPT ![current] = "acked"] /\ recv' = "listening"
    BY <1>7, <2>1 DEF Ack, Raises, Vanishes, Delivers
  <2>3. Healthy'
    BY <1>7, <1>c, <2>2 DEF Ack, Healthy
  <2>4. \A m \in Messages : Undelivered(m)' => Undelivered(m)
    BY <1>a, <2>1, <2>2 DEF TypeOK, Undelivered
  <2>5. UNCHANGED <<disk, sent, worker, pool>>
    BY <1>7 DEF Ack, StopReceiver
  <2>6. DeliveredOnce' /\ AnsweredLast'
    BY <1>c, <2>2, <2>4, <2>5 DEF DeliveredOnce, AnsweredLast, Fresh, Busy, Answered
  <2> QED  BY <2>3, <2>6 DEF FaultFree
<1>8. ASSUME NEW m \in Messages, Post(m) PROVE FaultFree'
  <2>1. \A n \in Messages : Undelivered(n)' <=> Undelivered(n)
    BY <1>8, <1>a DEF Post, TypeOK, Undelivered
  <2>2. Healthy'
    BY <1>8, <1>c, <2>1 DEF Post, Healthy, OutboxFiles
  <2>3. recv' = "write" => current' \in Messages
    BY <1>8, <1>a DEF Post, TypeOK
  <2>4. DeliveredOnce' /\ AnsweredLast'
    BY <1>8, <1>c, <2>1, <2>3 DEF Post, DeliveredOnce, AnsweredLast, Fresh, Busy, Answered
  <2> QED  BY <2>2, <2>4 DEF FaultFree
<1>9. ASSUME NEW m \in Messages, OnMessage(m) PROVE FaultFree'
  <2>1. Undelivered(m) /\ Fresh(m) /\ ~Undelivered(m)'
    BY <1>9, <1>a, <1>c DEF OnMessage, Undelivered, DeliveredOnce, TypeOK
  <2>2. \A n \in Messages : n # m => inbox'[n] = inbox[n] /\ (Undelivered(n)' => Undelivered(n))
    BY <1>9, <1>a DEF OnMessage, TypeOK, Undelivered
  <2>3. inbox'[m] = "torn" /\ m \notin pool
    BY <1>9, <1>a, <2>1 DEF OnMessage, TypeOK, Fresh, Exclusive, Stored, Overwriting
  <2>4. Healthy'
    BY <1>9, <1>c DEF OnMessage, Healthy
  <2>5. DeliveredOnce'
    BY <1>9, <1>c, <2>1, <2>2, <2>3 DEF OnMessage, DeliveredOnce, Fresh, Busy, Answered
  <2>6. \A w \in Workers : worker[w].pc \in {"send", "clear"} =>
          worker[w].msg \in Messages \ {m}
    BY <1>a, <2>1 DEF TypeOK, Idle, Busy, Fresh
  <2>7. AnsweredLast'
    BY <1>9, <1>c, <2>1, <2>2, <2>6 DEF OnMessage, AnsweredLast, Fresh, Busy, Answered
  <2> QED  BY <2>4, <2>5, <2>7 DEF FaultFree
<1>10. ASSUME NEW m \in Messages, OnCreated(m) PROVE FaultFree'
  <2>1. recv = "write" => current \notin pool'
    BY <1>10, <1>c DEF OnCreated, Submitted, DeliveredOnce
  <2>2. Healthy'
    BY <1>10, <1>c DEF OnCreated, Healthy, OutboxFiles, Undelivered
  <2>3. DeliveredOnce' /\ AnsweredLast'
    BY <1>10, <1>c, <2>1
    DEF OnCreated, DeliveredOnce, AnsweredLast, Fresh, Undelivered, Busy, Answered
  <2> QED  BY <2>2, <2>3 DEF FaultFree
\* Take: a queued command is stored, so it is neither answered nor with another worker.
<1>11. ASSUME NEW w \in Workers, NEW m \in Messages, Take(w, m) PROVE FaultFree'
  <2>1. inbox[m] # "absent" /\ m \in pool /\ ~Owned(m)
    BY <1>11, <1>a DEF Take, Exclusive, Stored, Overwriting
  <2>2. ~Undelivered(m) /\ ~Answered(m) /\ (recv = "write" => current # m)
    BY <1>c, <2>1 DEF DeliveredOnce, Fresh, AnsweredLast
  <2>3. \A v \in Workers : ~Busy(v, m)
    <3> SUFFICES ASSUME NEW v \in Workers, Busy(v, m) PROVE FALSE
      OBVIOUS
    <3>1. worker[v].pc \in {"send", "clear"} /\ worker[v].msg = m
      BY <1>a, <2>1 DEF TypeOK, Idle, Busy, Owned, Owns, Owning, Stages
    <3> QED  BY <3>1, <2>1, <1>c DEF AnsweredLast
  <2>4. /\ worker'[w] = [pc |-> "run", msg |-> m, resp |-> Nothing]
        /\ \A v \in Workers : v # w => worker'[v] = worker[v]
    BY <1>11, <1>a DEF Take, TypeOK
  <2>5. \A v \in Workers, n \in Messages : Busy(v, n)' => Busy(v, n) \/ (v = w /\ n = m)
    BY <2>4 DEF Busy
  <2>6. Healthy'
    BY <1>11, <1>c DEF Take, Healthy, OutboxFiles, Undelivered
  <2>7. DeliveredOnce'
    <3>1. \A n \in Messages : Undelivered(n)' => Fresh(n)'
      BY <1>11, <1>c, <2>2, <2>5 DEF Take, DeliveredOnce, Fresh, Undelivered, Answered
    <3>2. recv = "write" => current \in Messages
      BY <1>a DEF TypeOK
    <3> QED
      BY <1>11, <1>c, <2>2, <2>5, <3>1, <3>2 DEF Take, DeliveredOnce, Undelivered
  <2>8. \A v \in Workers : worker'[v].pc \in {"send", "clear"} => inbox'[worker'[v].msg] = "absent"
    BY <1>11, <1>c, <2>4 DEF Take, AnsweredLast
  <2>9. \A n \in Messages, u, v \in Workers : Busy(u, n)' /\ Busy(v, n)' => u = v
    BY <1>c, <2>3, <2>5 DEF AnsweredLast
  <2>10. \A n \in Messages : Answered(n)' =>
           inbox'[n] = "absent" /\ \A v \in Workers : Busy(v, n)' => worker'[v].pc = "clear"
    BY <1>11, <1>c, <2>2, <2>4, <2>5 DEF Take, AnsweredLast, Answered, Busy
  <2>11. AnsweredLast'
    BY <2>8, <2>9, <2>10 DEF AnsweredLast
  <2> QED  BY <2>6, <2>7, <2>11 DEF FaultFree
<1>12. ASSUME NEW w \in Workers, CommandRaises(w) \/ BuildResponse(w) PROVE FaultFree'
  <2>1. /\ worker[w].pc \in {"run", "respond"}
        /\ worker'[w].msg = worker[w].msg /\ worker'[w].pc = "open"
        /\ \A v \in Workers : v # w => worker'[v] = worker[v]
    BY <1>12, <1>a DEF CommandRaises, BuildResponse, Respond, TypeOK
  <2>2. /\ handed' = handed /\ inbox' = inbox /\ outbox' = outbox
        /\ UNCHANGED <<net, receiver, pool>>
    BY <1>12 DEF CommandRaises, BuildResponse
  <2> QED  BY <1>b, <2>1, <2>2, FaultFreeWork
<1>13. ASSUME NEW w \in Workers, CommandReturns(w) PROVE FaultFree'
  <2>1. /\ worker[w].pc = "run" /\ worker'[w].msg = worker[w].msg /\ worker'[w].pc = "respond"
        /\ \A v \in Workers : v # w => worker'[v] = worker[v]
    BY <1>13, <1>a, StepFields DEF CommandReturns, Stages
  <2>2. /\ handed' = handed /\ inbox' = inbox /\ outbox' = outbox
        /\ UNCHANGED <<net, receiver, pool>>
    BY <1>13 DEF CommandReturns
  <2> QED  BY <1>b, <2>1, <2>2, FaultFreeWork
<1>14. ASSUME NEW w \in Workers, SaveOpen(w) PROVE FaultFree'
  <2>1. /\ worker[w].pc = "open" /\ worker'[w].msg = worker[w].msg /\ worker'[w].pc = "save"
        /\ \A v \in Workers : v # w => worker'[v] = worker[v]
    BY <1>14, <1>a, StepFields DEF SaveOpen, Stages
  <2>2. /\ handed' = handed /\ inbox' = inbox /\ UNCHANGED <<net, receiver, pool>>
        /\ \A j \in Jobs : outbox'[j] # outbox[j] => j = JobOf[worker[w].msg]
    BY <1>14, <1>a DEF SaveOpen, TypeOK
  <2> QED  BY <1>b, <2>1, <2>2, FaultFreeWork
<1>15. ASSUME NEW w \in Workers, SaveWrite(w) PROVE FaultFree'
  <2>1. /\ worker[w].pc = "save" /\ worker'[w].msg = worker[w].msg /\ worker'[w].pc = "unbox"
        /\ \A v \in Workers : v # w => worker'[v] = worker[v]
    BY <1>15, <1>a, StepFields DEF SaveWrite, Stages
  <2>2. /\ handed' = handed /\ inbox' = inbox /\ UNCHANGED <<net, receiver, pool>>
        /\ \A j \in Jobs : outbox'[j] # outbox[j] => j = JobOf[worker[w].msg]
    BY <1>15, <1>a DEF SaveWrite, TypeOK
  <2> QED  BY <1>b, <2>1, <2>2, FaultFreeWork
<1>16. ASSUME NEW w \in Workers, ClearOutbox(w) PROVE FaultFree'
  <2>1. /\ worker[w].pc = "clear" /\ worker'[w] = Idle
        /\ \A v \in Workers : v # w => worker'[v] = worker[v]
    BY <1>16, <1>a DEF ClearOutbox, TypeOK
  <2>2. /\ handed' = handed /\ inbox' = inbox /\ UNCHANGED <<net, receiver, pool>>
        /\ \A j \in Jobs : outbox'[j] # outbox[j] => j = JobOf[worker[w].msg]
    BY <1>16, <1>a DEF ClearOutbox, TypeOK
  <2> QED  BY <1>b, <2>1, <2>2, FaultFreeWork
\* RemoveInbox: the file is there, so the response is sent next.
<1>17. ASSUME NEW w \in Workers, RemoveInbox(w) PROVE FaultFree'
  <2> DEFINE m == worker[w].msg
  <2>1. m \in Messages /\ worker[w].pc = "unbox" /\ Busy(w, m) /\ ~Answered(m)
    BY <1>17, <1>a, <1>c DEF RemoveInbox, TypeOK, Idle, Busy, AnsweredLast
  <2>2. inbox[m] # "absent"
    BY <1>a, <2>1 DEF Exclusive, Owns, Owning, Stored, Overwriting
  <2>3. /\ worker'[w].msg = m /\ worker'[w].pc = "send" /\ inbox'[m] = "absent"
        /\ \A v \in Workers : v # w => worker'[v] = worker[v]
        /\ \A n \in Messages : n # m => inbox'[n] = inbox[n]
    BY <1>17, <1>a, <2>1, <2>2 DEF RemoveInbox, TypeOK, Idle
  <2>4. UNCHANGED <<net, receiver, pool, outbox, handed>>
    BY <1>17 DEF RemoveInbox
  <2>5. \A v \in Workers, n \in Messages : Busy(v, n)' <=> Busy(v, n)
    BY <2>1, <2>3 DEF Busy
  <2>6. Healthy'
    BY <1>c, <2>4 DEF Healthy, OutboxFiles, Undelivered
  <2>7. DeliveredOnce'
    BY <1>a, <1>c, <2>1, <2>3, <2>4, <2>5
    DEF DeliveredOnce, Fresh, Undelivered, Answered, TypeOK
  <2>8. ASSUME NEW v \in Workers, worker'[v].pc \in {"send", "clear"}
        PROVE  inbox'[worker'[v].msg] = "absent"
    <3>1. CASE v = w
      BY <3>1, <2>3
    <3>2. CASE v # w
      <4>1. worker[v].msg \in Messages /\ inbox[worker[v].msg] = "absent"
        BY <3>2, <2>3, <2>8, <1>a, <1>c DEF AnsweredLast, TypeOK, Idle
      <4> QED  BY <4>1, <3>2, <2>3
    <3> QED  BY <3>1, <3>2
  <2>9. \A n \in Messages : Answered(n)' =>
          inbox'[n] = "absent" /\ \A v \in Workers : Busy(v, n)' => worker'[v].pc = "clear"
    BY <1>c, <2>1, <2>3, <2>4, <2>5 DEF AnsweredLast, Answered, Busy
  <2>10. AnsweredLast'
    BY <1>c, <2>5, <2>8, <2>9 DEF AnsweredLast
  <2> QED  BY <2>6, <2>7, <2>10 DEF FaultFree
\* Send: the connection is up, and nobody else knows of the command.
<1>18. ASSUME NEW w \in Workers, Send(w) PROVE FaultFree'
  <2> DEFINE m == worker[w].msg
  <2>1. m \in Messages /\ worker[w].pc = "send" /\ worker[w].resp.msg = m /\ Busy(w, m)
    BY <1>18, <1>a DEF Send, Step, TypeOK, Idle, Busy
  <2>2. ~Raises
    BY <1>a, <1>c, <2>1 DEF Raises, Connected, Healthy, Quiet, Idle
  <2>3. Step(w, "send", "clear") /\ Transmit(worker[w].resp)
    BY <1>18, <2>2 DEF Send
  <2>4. /\ worker'[w].msg = m /\ worker'[w].pc = "clear"
        /\ \A v \in Workers : v # w => worker'[v] = worker[v]
    BY <1>a, <2>3, StepFields DEF Stages
  <2>5. UNCHANGED <<net, receiver, pool, disk>>
    BY <1>18 DEF Send
  <2>6. \A n \in Messages : Answered(n)' => Answered(n) \/ n = m
    BY <2>1, <2>3 DEF Transmit, Answered
  <2>7. \A v \in Workers, n \in Messages : Busy(v, n)' <=> Busy(v, n)
    BY <2>1, <2>4 DEF Busy
  <2>8. ~Undelivered(m) /\ inbox[m] = "absent" /\ \A v \in Workers : Busy(v, m) => v = w
    BY <1>c, <2>1 DEF DeliveredOnce, Fresh, AnsweredLast
  <2>9. Healthy'
    BY <1>c, <2>5 DEF Healthy, OutboxFiles, Undelivered
  <2>10. DeliveredOnce'
    <3>1. \A n \in Messages : Undelivered(n)' => Fresh(n)'
      BY <1>c, <2>5, <2>6, <2>7, <2>8 DEF DeliveredOnce, Fresh, Undelivered
    <3>2. recv = "write" => current \in Messages
      BY <1>a DEF TypeOK
    <3> QED
      BY <1>c, <2>5, <2>7, <3>1, <3>2 DEF DeliveredOnce, Undelivered
  <2>11. \A v \in Workers : worker'[v].pc \in {"send", "clear"} => inbox'[worker'[v].msg] = "absent"
    BY <1>c, <2>4, <2>5, <2>8 DEF AnsweredLast
  <2>12. \A n \in Messages : Answered(n)' =>
           inbox'[n] = "absent" /\ \A v \in Workers : Busy(v, n)' => worker'[v].pc = "clear"
    BY <1>c, <2>4, <2>5, <2>6, <2>7, <2>8 DEF AnsweredLast, Busy
  <2>13. AnsweredLast'
    BY <1>c, <2>7, <2>11, <2>12 DEF AnsweredLast
  <2> QED  BY <2>9, <2>10, <2>13 DEF FaultFree
<1>19. CASE UNCHANGED vars
  BY <1>19, <1>c DEF vars, FaultFree, Healthy, DeliveredOnce, AnsweredLast, Fresh, Undelivered,
     Busy, Answered, OutboxFiles
<1> QED
  BY <1>1, <1>2, <1>3, <1>4, <1>5, <1>6, <1>7, <1>8, <1>9, <1>10, <1>11, <1>12, <1>13,
     <1>14, <1>15, <1>16, <1>17, <1>18, <1>19 DEF Next, Receiver, Work

(* However threads interleave and whatever fails, no file is worked on by  *)
(* two tasks; and as long as nothing fails no command is run again.        *)
THEOREM NoCommandTwice == ASSUME UniqueJobs PROVE Spec => []SingleTask
<1>1. Init => FaultFree
  BY DaemonAssumption, FileAssumption DEF Init, FaultFree, Healthy, DeliveredOnce, AnsweredLast,
     Fresh, Undelivered, Busy, Answered, OutboxFiles, Idle
<1>2. DaemonInv /\ FaultFree /\ [Next]_vars => FaultFree'
  BY FaultFreeStep
<1>3. DaemonInv /\ FaultFree => NoRepeatWithoutFault
  <2> SUFFICES ASSUME DaemonInv, FaultFree, faults = 0, NEW m \in Messages, Answered(m)
               PROVE  /\ inbox[m] = "absent" /\ broker[m] # "queued"
                      /\ \A w \in Workers : worker[w].msg = m => worker[w].pc = "clear"
    BY DEF NoRepeatWithoutFault
  <2>1. inbox[m] = "absent" /\ \A w \in Workers : Busy(w, m) => worker[w].pc = "clear"
    BY DEF FaultFree, AnsweredLast
  <2>2. broker[m] # "queued"
    BY DEF FaultFree, DeliveredOnce, Undelivered, Fresh
  <2>3. \A w \in Workers : worker[w].msg = m => Busy(w, m)
    BY DaemonAssumption DEF DaemonInv, TypeOK, Idle, Busy, Stages
  <2> QED  BY <2>1, <2>2, <2>3
<1> QED  BY <1>1, <1>2, <1>3, InvCorrect, OneTask, PTL DEF Spec, SingleTask
-----------------------------------------------------------------------------
(* The daemon implements JobMessaging: what each handler does to the       *)
(* broker, the directories and the sent responses is one step of the       *)
(* ledger, or none.                                                        *)

ledger == <<Owed, OnDisk, AnsweredSet>>

LEMMA LedgerStep ==
  UniqueJobs /\ DaemonInv /\ [Next]_vars => [Ledger!Next]_(Ledger!vars)
<1> SUFFICES ASSUME UniqueJobs, DaemonInv, [Next]_vars, UNCHANGED ledger \/ Ledger!Next
                      => [Ledger!Next]_(Ledger!vars)
             PROVE  UNCHANGED ledger \/ Ledger!Next
  BY DEF ledger, Ledger!vars
<1> USE DEF DaemonInv, net, disk, receiver, tasks, sent
<1>0. \A m \in Messages : JobOf[m] \in Jobs
  BY DaemonAssumption
<1>1. CASE Start
  BY <1>1 DEF Start, ledger, Owed, OnDisk, AnsweredSet, Holds, Answered
<1>2. ASSUME NEW j \in Jobs, Resend(j) PROVE UNCHANGED ledger \/ Ledger!Next
  <2> DEFINE m == outbox[j].msg
  <2>1. CASE Raises /\ UNCHANGED sent
    BY <1>2, <2>1 DEF Resend, ledger, Owed, OnDisk, AnsweredSet, Holds, Answered
  <2>2. CASE Transmit(outbox[j])
    <3>1. m \in Messages /\ m \in OnDisk
      BY <1>2 DEF Resend, OutboxKeyed, OnDisk, Holds, Response
    <3>2. AnsweredSet' = AnsweredSet \cup {m}
      BY <2>2, <3>1 DEF Transmit, AnsweredSet, Answered
    <3>3. UNCHANGED <<Owed, OnDisk>>
      BY <1>2 DEF Resend, Owed, OnDisk, Holds
    <3> QED  BY <3>1, <3>2, <3>3 DEF Ledger!Next, Ledger!Answer
  <2> QED  BY <1>2, <2>1, <2>2 DEF Resend
<1>3. ASSUME NEW j \in Jobs, ResendTorn(j) PROVE UNCHANGED ledger \/ Ledger!Next
  BY <1>3 DEF ResendTorn, ledger, Owed, OnDisk, AnsweredSet, Holds, Answered
<1>4. CASE ResendDone
  <2> DEFINE m == outbox[current].msg
  <2>1. m \in Messages /\ JobOf[m] = current /\ current \in Jobs /\ m \in AnsweredSet
    BY <1>4 DEF ResendDone, ReceiverHolds, TypeOK, OutboxKeyed, AnsweredSet, Answered,
       Response
  <2>2. \A n \in Messages : n # m => (n \in OnDisk' <=> n \in OnDisk)
    BY <1>4, <2>1, <1>0 DEF ResendDone, OnDisk, Holds, TypeOK, UniqueJobs
  <2>3. OnDisk' \in {OnDisk, OnDisk \ {m}}
    BY <1>4, <2>1, <2>2, FileAssumption DEF ResendDone, OnDisk, Holds, TypeOK
  <2>4. UNCHANGED <<Owed, AnsweredSet>>
    BY <1>4 DEF ResendDone, Owed, AnsweredSet, Answered
  <2> QED  BY <2>1, <2>3, <2>4 DEF ledger, Ledger!Next, Ledger!Forget
<1>5. CASE ListInbox
  BY <1>5 DEF ListInbox, ledger, Owed, OnDisk, AnsweredSet, Holds, Answered
<1>6. ASSUME NEW m \in Messages, Submit(m) PROVE UNCHANGED ledger \/ Ledger!Next
  BY <1>6 DEF Submit, ledger, Owed, OnDisk, AnsweredSet, Holds, Answered
<1>7. CASE Subscribe
  BY <1>7 DEF Subscribe, ledger, Owed, OnDisk, AnsweredSet, Holds, Answered
<1>8. CASE WriteInbox
  <2>1. current \in Messages /\ current \in Owed
    BY <1>8 DEF WriteInbox, TypeOK, ReceiverHolds, Owed
  <2>2. OnDisk' \in {OnDisk, OnDisk \cup {current}}
    BY <1>8, <2>1 DEF WriteInbox, TypeOK, OnDisk, Holds
  <2>3. UNCHANGED <<Owed, AnsweredSet>>
    BY <1>8 DEF WriteInbox, Owed, AnsweredSet, Answered
  <2> QED  BY <2>1, <2>2, <2>3 DEF ledger, Ledger!Next, Ledger!Store
<1>9. CASE Ack
  <2>1. UNCHANGED <<OnDisk, AnsweredSet>>
    BY <1>9 DEF Ack, OnDisk, AnsweredSet, Holds, Answered
  <2>2. current \in Messages /\ current \in Owed /\ current \in OnDisk \cup AnsweredSet
    BY <1>9 DEF Ack, TypeOK, ReceiverHolds, Safe, Owed, OnDisk, AnsweredSet
  <2>3. Owed' \in {Owed, Owed \ {current}}
    BY <1>9, <2>2 DEF Ack, Owed, TypeOK
  <2> QED  BY <2>1, <2>2, <2>3 DEF ledger, Ledger!Next, Ledger!Ack
<1>10. CASE OnDisconnected
  BY <1>10 DEF OnDisconnected, ledger, Owed, OnDisk, AnsweredSet, Holds, Answered
<1>11. CASE Exit
  BY <1>11 DEF Exit, Requeued, ledger, Owed, OnDisk, AnsweredSet, Holds, Answered
<1>12. CASE LoseLink
  BY <1>12 DEF LoseLink, Requeued, ledger, Owed, OnDisk, AnsweredSet, Holds, Answered
<1>13. CASE Crash
  BY <1>13 DEF Crash, Requeued, ledger, Owed, OnDisk, AnsweredSet, Holds, Answered
<1>14. ASSUME NEW m \in Messages, Post(m) PROVE UNCHANGED ledger \/ Ledger!Next
  <2>1. m \notin Owed /\ Owed' = Owed \cup {m}
    BY <1>14 DEF Post, Owed, TypeOK
  <2>2. UNCHANGED <<OnDisk, AnsweredSet>>
    BY <1>14 DEF Post, OnDisk, AnsweredSet, Holds, Answered
  <2> QED  BY <2>1, <2>2 DEF Ledger!Next, Ledger!Post
<1>15. ASSUME NEW m \in Messages, OnMessage(m) PROVE UNCHANGED ledger \/ Ledger!Next
  <2>1. m \in Owed /\ UNCHANGED <<Owed, AnsweredSet>>
    BY <1>15 DEF OnMessage, Owed, AnsweredSet, Answered, TypeOK
  <2>2. OnDisk' \in {OnDisk, OnDisk \ {m}}
    BY <1>15 DEF OnMessage, OnDisk, Holds, TypeOK
  <2> QED  BY <2>1, <2>2 DEF ledger, Ledger!Next, Ledger!Forget
<1>16. ASSUME NEW m \in Messages, OnCreated(m) PROVE UNCHANGED ledger \/ Ledger!Next
  BY <1>16 DEF OnCreated, ledger, Owed, OnDisk, AnsweredSet, Holds, Answered
<1>17. ASSUME NEW w \in Workers, NEW m \in Messages, Take(w, m)
       PROVE  UNCHANGED ledger \/ Ledger!Next
  BY <1>17 DEF Take, ledger, Owed, OnDisk, AnsweredSet, Holds, Answered
<1>18. ASSUME NEW w \in Workers, CommandRaises(w) PROVE UNCHANGED ledger \/ Ledger!Next
  BY <1>18 DEF CommandRaises, ledger, Owed, OnDisk, AnsweredSet, Holds, Answered
<1>19. ASSUME NEW w \in Workers, CommandReturns(w) PROVE UNCHANGED ledger \/ Ledger!Next
  BY <1>19 DEF CommandReturns, ledger, Owed, OnDisk, AnsweredSet, Holds, Answered
<1>20. ASSUME NEW w \in Workers, BuildResponse(w) PROVE UNCHANGED ledger \/ Ledger!Next
  BY <1>20 DEF BuildResponse, ledger, Owed, OnDisk, AnsweredSet, Holds, Answered
<1>21. ASSUME NEW w \in Workers, SaveOpen(w) PROVE UNCHANGED ledger \/ Ledger!Next
  <2> DEFINE m == worker[w].msg
  <2>1. worker[w].pc = "open" /\ m \in Messages
    BY <1>21, StepFields DEF SaveOpen, Stages
  <2>2. UNCHANGED <<Owed, AnsweredSet>>
    BY <1>21 DEF SaveOpen, Owed, AnsweredSet, Answered
  <2>3. inbox[m] = "full" \/ m \in Owed
    BY <2>1 DEF Exclusive, Owns, Owning, Stored, Overwriting, ReceiverHolds, Owed
  <2>4. \A n \in Messages : n # m => (n \in OnDisk' <=> n \in OnDisk)
    BY <1>21, <2>1, <1>0 DEF SaveOpen, OnDisk, Holds, TypeOK, UniqueJobs
  <2>5. OnDisk' \in {OnDisk, OnDisk \ {m}} /\ (inbox[m] = "full" => OnDisk' = OnDisk)
    BY <1>21, <2>1, <2>4, <1>0, FileAssumption DEF SaveOpen, OnDisk, Holds, TypeOK
  <2> QED  BY <2>1, <2>2, <2>3, <2>5 DEF ledger, Ledger!Next, Ledger!Forget, OnDisk
<1>22. ASSUME NEW w \in Workers, SaveWrite(w) PROVE UNCHANGED ledger \/ Ledger!Next
  <2> DEFINE m == worker[w].msg
  <2>1. worker[w].pc = "save" /\ m \in Messages
    BY <1>22, StepFields DEF SaveWrite, Stages
  <2>2. UNCHANGED <<Owed, AnsweredSet>>
    BY <1>22 DEF SaveWrite, Owed, AnsweredSet, Answered
  <2>3. inbox[m] = "full" \/ m \in Owed
    BY <2>1 DEF Exclusive, Owns, Owning, Stored, Overwriting, ReceiverHolds, Owed
  <2>4. \A n \in Messages : n # m => (n \in OnDisk' <=> n \in OnDisk)
    BY <1>22, <2>1, <1>0 DEF SaveWrite, OnDisk, Holds, TypeOK, UniqueJobs
  <2>5. m \in OnDisk => m \in OnDisk'
    BY <1>22, <2>1, <1>0, FileAssumption DEF SaveWrite, OnDisk, Holds, TypeOK
  <2>6. OnDisk' \in {OnDisk, OnDisk \cup {m}} /\ (inbox[m] = "full" => OnDisk' = OnDisk)
    BY <2>1, <2>4, <2>5 DEF OnDisk
  <2> QED  BY <2>1, <2>2, <2>3, <2>6 DEF ledger, Ledger!Next, Ledger!Store
<1>23. ASSUME NEW w \in Workers, RemoveInbox(w) PROVE UNCHANGED ledger \/ Ledger!Next
  <2> DEFINE m == worker[w].msg
  <2>1. worker[w].pc = "unbox" /\ m \in Messages
    BY <1>23 DEF RemoveInbox, TypeOK, Idle
  <2>2. UNCHANGED <<Owed, AnsweredSet>>
    BY <1>23 DEF RemoveInbox, Owed, AnsweredSet, Answered
  <2>3. m \in AnsweredSet \/ Holds(JobOf[m], m)
    BY <2>1 DEF WorkerHolds, HoldsFor, Kept, AnsweredSet
  <2>4. OnDisk' \in {OnDisk, OnDisk \ {m}} /\ (Holds(JobOf[m], m) => OnDisk' = OnDisk)
    BY <1>23, <2>1 DEF RemoveInbox, OnDisk, Holds, TypeOK
  <2> QED  BY <2>1, <2>2, <2>3, <2>4 DEF ledger, Ledger!Next, Ledger!Forget, OnDisk
<1>24. ASSUME NEW w \in Workers, Send(w) PROVE UNCHANGED ledger \/ Ledger!Next
  <2> DEFINE m == worker[w].msg
  <2>1. worker[w].pc = "send" /\ m \in Messages /\ worker[w].resp.msg = m
    BY <1>24 DEF Send, Step, TypeOK, Idle
  <2>2. UNCHANGED <<Owed, OnDisk>>
    BY <1>24 DEF Send, Owed, OnDisk, Holds
  <2>3. m \in OnDisk \cup AnsweredSet
    BY <2>1 DEF WorkerHolds, HoldsFor, Kept, SecondTask, Owned, Owns, Owning, OnDisk,
       AnsweredSet
  <2>4. AnsweredSet' \in {AnsweredSet, AnsweredSet \cup {m}}
    BY <1>24, <2>1 DEF Send, Transmit, AnsweredSet, Answered
  <2> QED  BY <2>1, <2>2, <2>3, <2>4 DEF ledger, Ledger!Next, Ledger!Answer
<1>25. ASSUME NEW w \in Workers, ClearOutbox(w) PROVE UNCHANGED ledger \/ Ledger!Next
  <2> DEFINE m == worker[w].msg
  <2>1. m \in Messages /\ m \in AnsweredSet
    BY <1>25 DEF ClearOutbox, TypeOK, Idle, WorkerHolds, HoldsFor, AnsweredSet
  <2>2. UNCHANGED <<Owed, AnsweredSet>>
    BY <1>25 DEF ClearOutbox, Owed, AnsweredSet, Answered
  <2>3. \A n \in Messages : n # m => (n \in OnDisk' <=> n \in OnDisk)
    BY <1>25, <2>1, <1>0 DEF ClearOutbox, OnDisk, Holds, TypeOK, UniqueJobs
  <2>4. OnDisk' \in {OnDisk, OnDisk \ {m}}
    BY <1>25, <2>1, <2>3, <1>0, FileAssumption DEF ClearOutbox, OnDisk, Holds, TypeOK
  <2> QED  BY <2>1, <2>2, <2>4 DEF ledger, Ledger!Next, Ledger!Forget
<1>26. CASE UNCHANGED vars
  BY <1>26 DEF vars, ledger, Owed, OnDisk, AnsweredSet, Holds, Answered
<1> QED
  BY <1>1, <1>2, <1>3, <1>4, <1>5, <1>6, <1>7, <1>8, <1>9, <1>10, <1>11, <1>12, <1>13,
     <1>14, <1>15, <1>16, <1>17, <1>18, <1>19, <1>20, <1>21, <1>22, <1>23, <1>24, <1>25,
     <1>26 DEF Next, Receiver, Work

(* The daemon, with its threads, directories and faults, implements the    *)
(* promise stated in JobMessaging when each command names its own job.     *)
THEOREM Implements == ASSUME UniqueJobs PROVE Spec => LedgerSpec
<1>1. Init => Ledger!Init
  BY FileAssumption, DaemonAssumption DEF Init, Ledger!Init, Owed, OnDisk, AnsweredSet,
     Holds, Answered
<1>2. DaemonInv /\ [Next]_vars => [Ledger!Next]_(Ledger!vars)
  BY LedgerStep
<1> QED  BY <1>1, <1>2, InvCorrect, PTL DEF Spec, LedgerSpec, Ledger!Spec

-----------------------------------------------------------------------------
(* With one worker no step gives a response the result of another command. *)
LEMMA ResultStep ==
  ASSUME TypeOK, ResultKept, [Next]_vars, \A v, w \in Workers : v = w
  PROVE  ResultKept'
<1> USE DEF ResultKept, OwnResult, OwnBody
<1>1. CASE Receiver
  <2>1. UNCHANGED worker /\ (UNCHANGED result \/ \A w \in Workers : worker[w] = Idle)
    BY <1>1 DEF Receiver, Start, ResendDone, ListInbox, Subscribe, WriteInbox, Ack,
       OnDisconnected, Exit, Resend, ResendTorn, Submit, StopReceiver, tasks
  <2>2. \A j \in Jobs : outbox'[j] \in Response => outbox'[j] = outbox[j]
    BY <1>1, FileAssumption DEF Receiver, Start, ResendDone, ListInbox, Subscribe,
       WriteInbox, Ack, OnDisconnected, Exit, Resend, ResendTorn, Submit, disk, TypeOK
  <2>3. \A r \in handed' : OwnBody(r)
    <3>1. ASSUME NEW j \in Jobs, Resend(j) PROVE \A r \in handed' : OwnBody(r)
      BY <3>1 DEF Resend, Transmit, sent
    <3>2. (\E j \in Jobs : Resend(j)) \/ UNCHANGED handed
      BY <1>1 DEF Receiver, Start, ResendDone, ListInbox, Subscribe, WriteInbox, Ack,
         OnDisconnected, Exit, ResendTorn, Submit, sent
    <3> QED  BY <3>1, <3>2
  <2> QED  BY <2>1, <2>2, <2>3 DEF Idle
<1>2. CASE LoseLink \/ Crash \/ \E m \in Messages : Post(m) \/ OnMessage(m) \/ OnCreated(m)
  BY <1>2 DEF LoseLink, Crash, Post, OnMessage, OnCreated, Idle, disk, tasks, sent
<1>3. ASSUME NEW w \in Workers, NEW m \in Messages, Take(w, m) PROVE ResultKept'
  BY <1>3 DEF Take, disk, sent, TypeOK
<1>4. ASSUME NEW w \in Workers, CommandRaises(w) \/ BuildResponse(w) PROVE ResultKept'
  BY <1>4 DEF CommandRaises, BuildResponse, Respond, disk, sent, TypeOK
<1>5. ASSUME NEW w \in Workers, CommandReturns(w) PROVE ResultKept'
  BY <1>5 DEF CommandReturns, Step, disk, sent, TypeOK, Idle
<1>6. ASSUME NEW w \in Workers, SaveOpen(w) \/ SaveWrite(w) PROVE ResultKept'
  BY <1>6, FileAssumption DEF SaveOpen, SaveWrite, Step, sent, TypeOK, Idle
<1>7. ASSUME NEW w \in Workers, RemoveInbox(w) \/ ClearOutbox(w) PROVE ResultKept'
  BY <1>7, FileAssumption DEF RemoveInbox, ClearOutbox, sent, TypeOK, Idle
<1>8. ASSUME NEW w \in Workers, Send(w) PROVE ResultKept'
  BY <1>8 DEF Send, Step, Transmit, disk, sent, TypeOK, Idle
<1>9. CASE UNCHANGED vars
  BY <1>9 DEF vars, disk, tasks, sent
<1> QED
  BY <1>1, <1>2, <1>3, <1>4, <1>5, <1>6, <1>7, <1>8, <1>9 DEF Next, Work

(* With a single worker thread each response carries the result of its own *)
(* command: the shared result only goes wrong when threads interleave.     *)
THEOREM OneWorkerOwnResult ==
  ASSUME \A v, w \in Workers : v = w PROVE Spec => []OwnResult
<1>1. Init => ResultKept
  BY FileAssumption DEF Init, ResultKept, OwnResult, OwnBody, Idle
<1>2. TypeOK /\ ResultKept /\ [Next]_vars => ResultKept'
  BY ResultStep
<1>3. ResultKept => OwnResult
  BY DEF ResultKept
<1> QED  BY <1>1, <1>2, <1>3, TypeCorrect, PTL DEF Spec
=============================================================================

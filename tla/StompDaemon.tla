----------------------------- MODULE StompDaemon -----------------------------
(***************************************************************************)
(* The plastrond-stomp daemon: a STOMP listener that stores every command  *)
(* message in an inbox directory, runs it on a thread pool, saves the      *)
(* response in an outbox directory and sends it to JOB_STATUS.             *)
(*                                                                         *)
(* Threads: the STOMP receiver (on_connected, on_message, on_disconnected, *)
(* variables recv, todo, current), the inbox watcher (on_created, variable *)
(* created), and the pool's workers (MessageProcessor and then the done    *)
(* callback AsynchronousResponseHandler, variable worker).  The inbox and  *)
(* outbox directories and the broker outlive the process.                  *)
(***************************************************************************)
EXTENDS Integers

CONSTANTS Messages,    \* message ids of the commands clients post
          Jobs,        \* PlastronJobId values
          JobOf,       \* the PlastronJobId header of each message
          Workers,     \* threads of the ThreadPoolExecutor
          MaxFaults,   \* bound on crashes and broken connections
          SilentLoss,  \* may a frame sent on a broken connection vanish?
          NoFile, Torn, Error, Nothing

ASSUME DaemonAssumption ==
  /\ JobOf \in [Messages -> Jobs]
  /\ MaxFaults \in Nat
  /\ SilentLoss \in BOOLEAN
  /\ {Error, Nothing} \cap Messages = {}
  /\ Error # Nothing

(* No two commands name the same job. *)
UniqueJobs == \A m1, m2 \in Messages : JobOf[m1] = JobOf[m2] => m1 = m2

(* A response to message msg; of is the message whose command computed the *)
(* body that is sent, or Error for a PlastronErrorMessage.                 *)
Response == [msg : Messages, of : Messages \cup {Error, Nothing}]

ASSUME FileAssumption ==
  /\ NoFile \notin Response
  /\ Torn \notin Response
  /\ NoFile # Torn

VARIABLES
  broker,    \* per message: "unposted", "queued", "delivered" or "acked"
  link,      \* is the TCP connection intact? ("up", "broken")
  inbox,     \* per message: "absent", "torn" (opened, not written), "full"
  outbox,    \* per job id: NoFile, Torn or the saved response
  recv,      \* the receiver thread, "off" when the process is not running
  todo,      \* what on_connected's directory listing has left
  current,   \* the job or message the receiver is working on
  created,   \* files with a FileCreatedEvent the watcher has not handled
  pool,      \* messages submitted to the executor and not started
  worker,    \* the worker threads
  result,    \* MessageProcessor.result, shared by all workers
  handed,    \* responses the transport accepted
  received,  \* responses that reached the broker
  faults     \* crashes and broken connections so far

net == <<broker, link, faults>>
disk == <<inbox, outbox>>
receiver == <<recv, todo, current>>
tasks == <<created, pool, worker, result>>
sent == <<handed, received>>
vars == <<net, disk, receiver, tasks, sent>>

Idle == [pc |-> "idle", msg |-> Nothing, resp |-> Nothing]

(* What a worker does: run the command, build the response, then the done  *)
(* callback: open and write the outbox file, remove the inbox file, send,  *)
(* remove the outbox file.                                                 *)
Stages == {"run", "respond", "open", "save", "unbox", "send", "clear"}

(* Stages in which the worker is still responsible for the inbox file. *)
Owning == {"run", "respond", "open", "save", "unbox"}

Running == recv # "off"
Connected == recv \notin {"off", "stopped"}

TypeOK ==
  /\ broker \in [Messages -> {"unposted", "queued", "delivered", "acked"}]
  /\ link \in {"up", "broken"}
  /\ inbox \in [Messages -> {"absent", "torn", "full"}]
  /\ outbox \in [Jobs -> Response \cup {NoFile, Torn}]
  /\ recv \in {"off", "resend", "resent", "submit", "listening", "write",
               "ack", "stopped"}
  /\ todo \subseteq Jobs \cup Messages
  /\ recv = "resend" => todo \subseteq Jobs
  /\ recv = "resent" => todo \subseteq Jobs /\ current \in Jobs
  /\ recv = "submit" => todo \subseteq Messages
  /\ recv \in {"write", "ack"} => current \in Messages
  /\ created \subseteq Messages
  /\ pool \subseteq Messages
  /\ worker \in [Workers -> [pc : Stages, msg : Messages, resp : Response \cup {Nothing}]
                             \cup {Idle}]
  /\ \A w \in Workers : worker[w].pc \in {"open", "save", "unbox", "send", "clear"}
                          => worker[w].resp \in Response /\ worker[w].resp.msg = worker[w].msg
  /\ result \in Messages \cup {Nothing}
  /\ handed \subseteq Response
  /\ received \subseteq handed
  /\ faults \in 0..MaxFaults

Init ==
  /\ broker = [m \in Messages |-> "unposted"]
  /\ link = "broken"
  /\ inbox = [m \in Messages |-> "absent"]
  /\ outbox = [j \in Jobs |-> NoFile]
  /\ recv = "off"
  /\ todo = {}
  /\ current = Nothing
  /\ created = {}
  /\ pool = {}
  /\ worker = [w \in Workers |-> Idle]
  /\ result = Nothing
  /\ handed = {}
  /\ received = {}
  /\ faults = 0

-----------------------------------------------------------------------------
(* The connection (stomp.py's transport and the broker, seen from the      *)
(* client).  send() returns when the frame is in the socket buffer: on a   *)
(* connection that broke unnoticed it may vanish (if SilentLoss) or raise  *)
(* a StompException; once on_disconnected has run it always raises.        *)

Delivers == Connected /\ link = "up"
Vanishes == Connected /\ link = "broken" /\ SilentLoss
Raises   == ~Connected \/ link = "broken"

(* The transport accepts response r. *)
Transmit(r) ==
  /\ handed' = handed \cup {r}
  /\ \/ Delivers /\ received' = received \cup {r}
     \/ Vanishes /\ UNCHANGED received

(* Unacknowledged messages of a lost subscription are delivered again. *)
Requeued == [m \in Messages |-> IF broker[m] = "delivered" THEN "queued" ELSE broker[m]]

(* A client sends a command message to JOBS. *)
Post(m) ==
  /\ broker[m] = "unposted"
  /\ broker' = [broker EXCEPT ![m] = "queued"]
  /\ UNCHANGED <<link, faults, disk, receiver, tasks, sent>>

(* The network or the broker drops the connection, or an operator asks the *)
(* daemon to stop; the receiver has not noticed yet.                       *)
LoseLink ==
  /\ Connected /\ link = "up" /\ faults < MaxFaults
  /\ link' = "broken"
  /\ broker' = Requeued
  /\ faults' = faults + 1
  /\ UNCHANGED <<disk, receiver, tasks, sent>>

-----------------------------------------------------------------------------
(* The receiver thread: CommandListener. *)

(* on_disconnected, or an exception that ends stomp.py's receiver loop:    *)
(* the watcher is stopped and the STOMPDaemon thread released.             *)
StopReceiver ==
  /\ recv' = "stopped"
  /\ created' = {}
  /\ todo' = {}
  /\ current' = Nothing
  /\ UNCHANGED <<pool, worker, result>>

(* The outbox directory's listing. *)
OutboxForgotten == {}
OutboxFiles == {j \in Jobs : outbox[j] # NoFile}

(* The daemon is started (by an operator or a supervisor) and connects;    *)
(* on_connected lists the outbox.                                          *)
Start ==
  /\ recv = "off"
  /\ recv' = "resend"
  /\ link' = "up"
  /\ todo' = OutboxFiles
  /\ UNCHANGED <<broker, faults, disk, current, tasks, sent>>

(* Send a message found in the outbox. *)
Resend(j) ==
  /\ recv = "resend" /\ j \in todo
  /\ outbox[j] \in Response
  /\ \/ /\ Transmit(outbox[j])
        /\ recv' = "resent"
        /\ current' = j
        /\ UNCHANGED <<todo, tasks>>
     \/ /\ Raises
        /\ StopReceiver
        /\ UNCHANGED sent
  /\ UNCHANGED <<net, disk>>

HeaderlessResent(j) ==
  /\ recv = "resend" /\ j \in todo
  /\ outbox[j] = Torn
  /\ recv' = "resent"
  /\ UNCHANGED <<net, disk, todo, current, tasks, sent>>

(* An outbox file that was opened and never written has no headers: its    *)
(* message has no job id, so outbox.remove(None) raises after an empty     *)
(* message was sent, and on_connected is left.                             *)
ResendTorn(j) ==
  /\ recv = "resend" /\ j \in todo
  /\ outbox[j] = Torn
  /\ StopReceiver
  /\ UNCHANGED <<net, disk, sent>>

(* Remove the message that was sent again from the outbox. *)
ResendDone ==
  /\ recv = "resent"
  /\ outbox' = [outbox EXCEPT ![current] = NoFile]
  /\ todo' = todo \ {current}
  /\ recv' = "resend"
  /\ current' = Nothing
  /\ UNCHANGED <<net, inbox, tasks, sent>>

(* The outbox is done: list the inbox. *)
ListInbox ==
  /\ recv = "resend" /\ todo = {}
  /\ recv' = "submit"
  /\ todo' = {m \in Messages : inbox[m] # "absent"}
  /\ UNCHANGED <<net, disk, current, tasks, sent>>

(* process_message: submit message m, read from its file, to the executor. *)
(* A file that is still empty reads as a message with no headers: its task *)
(* raises because there is no job id, and then its callback raises because *)
(* outbox.add(None) does, so it leaves no trace at all.                    *)
Submitted(m) == IF inbox[m] = "full" THEN pool \cup {m} ELSE pool

Submit(m) ==
  /\ recv = "submit" /\ m \in todo
  /\ pool' = Submitted(m)
  /\ todo' = todo \ {m}
  /\ UNCHANGED <<net, disk, recv, current, created, worker, result, sent>>

(* Subscribe to JOBS and start the inbox watcher. *)
Subscribe ==
  /\ recv = "submit" /\ todo = {}
  /\ \/ /\ Delivers \/ Vanishes
        /\ recv' = "listening"
        /\ UNCHANGED <<todo, current, tasks>>
     \/ Raises /\ StopReceiver
  /\ UNCHANGED <<net, disk, sent>>

(* The watcher's event for opening m's file: the file is new.  (It used to *)
(* react to modified files too, see inbox_watcher.py:14.)                  *)
NotifyModified(m) == created \cup {m}
Notify(m) == IF inbox[m] = "absent" THEN created \cup {m} ELSE created

(* on_message, first step: the broker delivers m and MessageBox.add opens  *)
(* its file, which truncates it; only a new file triggers the watcher.     *)
OnMessage(m) ==
  /\ recv = "listening" /\ link = "up" /\ broker[m] = "queued"
  /\ broker' = [broker EXCEPT ![m] = "delivered"]
  /\ inbox' = [inbox EXCEPT ![m] = "torn"]
  /\ created' = Notify(m)
  /\ recv' = "write"
  /\ current' = m
  /\ UNCHANGED <<link, faults, outbox, todo, pool, worker, result, sent>>

(* on_message, second step: the file is written and closed.  A file that a *)
(* worker removed in the meantime stays removed.                           *)
WriteInbox ==
  /\ recv = "write"
  /\ inbox' = [inbox EXCEPT ![current] = IF @ = "absent" THEN "absent" ELSE "full"]
  /\ recv' = "ack"
  /\ UNCHANGED <<net, outbox, todo, current, tasks, sent>>

(* on_message, last step: acknowledge. *)
Ack ==
  /\ recv = "ack"
  /\ \/ /\ Delivers
        /\ broker' = [broker EXCEPT ![current] = "acked"]
        /\ recv' = "listening"
        /\ current' = Nothing
        /\ UNCHANGED <<todo, tasks>>
     \/ /\ Vanishes
        /\ recv' = "listening"
        /\ current' = Nothing
        /\ UNCHANGED <<broker, todo, tasks>>
     \/ Raises /\ StopReceiver /\ UNCHANGED broker
  /\ UNCHANGED <<link, faults, disk, sent>>

(* The receiver notices that the connection is gone. *)
OnDisconnected ==
  /\ recv = "listening" /\ link = "broken"
  /\ StopReceiver
  /\ UNCHANGED <<net, disk, sent>>

(* The interpreter exits once the executor has run everything submitted. *)
Exit ==
  /\ recv = "stopped" /\ pool = {}
  /\ \A w \in Workers : worker[w] = Idle
  /\ recv' = "off"
  /\ link' = "broken"
  /\ broker' = Requeued
  /\ result' = Nothing
  /\ UNCHANGED <<faults, disk, todo, current, created, pool, worker, sent>>

(* The process is killed; what is on disk and at the broker survives. *)
Crash ==
  /\ Running /\ faults < MaxFaults
  /\ recv' = "off"
  /\ link' = "broken"
  /\ broker' = Requeued
  /\ todo' = {} /\ current' = Nothing
  /\ created' = {} /\ pool' = {}
  /\ worker' = [w \in Workers |-> Idle]
  /\ result' = Nothing
  /\ faults' = faults + 1
  /\ UNCHANGED <<disk, sent>>

-----------------------------------------------------------------------------
(* The inbox watcher. *)

(* on_created: read the new file, as it is now, and submit the message. *)
OnCreated(m) ==
  /\ m \in created
  /\ created' = created \ {m}
  /\ pool' = Submitted(m)
  /\ UNCHANGED <<net, disk, receiver, worker, result, sent>>

-----------------------------------------------------------------------------
(* The executor's threads. *)

(* Worker w goes from stage `from' to stage `to'. *)
Step(w, from, to) ==
  /\ worker[w].pc = from
  /\ worker' = [worker EXCEPT ![w].pc = to]

Respond(w, from, r) ==
  /\ worker[w].pc = from
  /\ LET m == worker[w].msg IN
       worker' = [worker EXCEPT ![w] =
                    [pc |-> "open", msg |-> m, resp |-> [msg |-> m, of |-> r]]]

Take(w, m) ==
  /\ worker[w].pc = "idle" /\ m \in pool
  /\ pool' = pool \ {m}
  /\ worker' = [worker EXCEPT ![w] = [pc |-> "run", msg |-> m, resp |-> Nothing]]
  /\ UNCHANGED <<net, disk, receiver, created, result, sent>>

(* The command fails, or a progress message cannot be sent: the exception  *)
(* ends the task and get_response builds a PlastronErrorMessage.           *)
CommandRaises(w) ==
  /\ Respond(w, "run", Error)
  /\ UNCHANGED <<net, disk, receiver, created, pool, result, sent>>

(* The command's generator returns: _run stores its value in self.result. *)
CommandReturns(w) ==
  /\ Step(w, "run", "respond")
  /\ result' = worker[w].msg
  /\ UNCHANGED <<net, disk, receiver, created, pool, sent>>

(* message.response(...) reads self.result. *)
BuildResponse(w) ==
  /\ Respond(w, "respond", result)
  /\ UNCHANGED <<net, disk, receiver, created, pool, result, sent>>

RemovedBeforeSaved(w) ==
  /\ Step(w, "open", "save")
  /\ outbox' = [outbox EXCEPT ![JobOf[worker[w].msg]] = Torn]
  /\ inbox' = [inbox EXCEPT ![worker[w].msg] = "absent"]
  /\ UNCHANGED <<net, receiver, created, pool, result, sent>>

(* outbox.add opens (and truncates) the file named for the job ... *)
SaveOpen(w) ==
  /\ Step(w, "open", "save")
  /\ outbox' = [outbox EXCEPT ![JobOf[worker[w].msg]] = Torn]
  /\ UNCHANGED <<net, inbox, receiver, created, pool, result, sent>>

(* ... and writes it; a file removed in between stays removed. *)
SaveWrite(w) ==
  /\ Step(w, "save", "unbox")
  /\ outbox' = [outbox EXCEPT ![JobOf[worker[w].msg]] =
                  IF @ = NoFile THEN NoFile ELSE worker[w].resp]
  /\ UNCHANGED <<net, inbox, receiver, created, pool, result, sent>>

(* Remove the message from the inbox; if it is not there, the callback     *)
(* raises and the saved response waits for the next start.                 *)
RemoveInbox(w) ==
  /\ worker[w].pc = "unbox"
  /\ LET m == worker[w].msg IN
       /\ inbox' = [inbox EXCEPT ![m] = "absent"]
       /\ worker' = [worker EXCEPT ![w] =
                       IF inbox[m] = "absent" THEN Idle ELSE [@ EXCEPT !.pc = "send"]]
  /\ UNCHANGED <<net, outbox, receiver, created, pool, result, sent>>

ClearedUnsent(w) ==
  /\ Step(w, "send", "clear")
  /\ \/ Transmit(worker[w].resp)
     \/ Raises /\ UNCHANGED sent
  /\ UNCHANGED <<net, disk, receiver, created, pool, result>>

(* Send the response; a StompException leaves it in the outbox. *)
Send(w) ==
  /\ \/ Step(w, "send", "clear") /\ Transmit(worker[w].resp)
     \/ /\ worker[w].pc = "send" /\ Raises
        /\ worker' = [worker EXCEPT ![w] = Idle]
        /\ UNCHANGED sent
  /\ UNCHANGED <<net, disk, receiver, created, pool, result>>

(* Remove the response from the outbox now that sending has completed. *)
ClearOutbox(w) ==
  /\ worker[w].pc = "clear"
  /\ outbox' = [outbox EXCEPT ![JobOf[worker[w].msg]] = NoFile]
  /\ worker' = [worker EXCEPT ![w] = Idle]
  /\ UNCHANGED <<net, inbox, receiver, created, pool, result, sent>>

-----------------------------------------------------------------------------
Receiver ==
  \/ Start \/ ResendDone \/ ListInbox \/ Subscribe \/ WriteInbox \/ Ack
  \/ OnDisconnected \/ Exit
  \/ \E j \in Jobs : Resend(j) \/ ResendTorn(j)
  \/ \E m \in Messages : Submit(m)

Work(w) ==
  \/ CommandRaises(w) \/ CommandReturns(w) \/ BuildResponse(w) \/ SaveOpen(w)
  \/ SaveWrite(w) \/ RemoveInbox(w) \/ Send(w) \/ ClearOutbox(w)

Next ==
  \/ Receiver
  \/ LoseLink \/ Crash
  \/ \E m \in Messages : Post(m) \/ OnMessage(m) \/ OnCreated(m)
  \/ \E w \in Workers : Work(w) \/ \E m \in Messages : Take(w, m)

Spec == Init /\ [][Next]_vars

(* Every thread that can step does, the broker delivers what is queued,    *)
(* commands end, and a daemon that has exited is started again.  Clients   *)
(* need not post and nothing has to fail.                                  *)
Fairness ==
  /\ WF_vars(Receiver)
  /\ \A m \in Messages : WF_vars(OnMessage(m)) /\ WF_vars(OnCreated(m))
                         /\ WF_vars(\E w \in Workers : Take(w, m))
  /\ \A w \in Workers : WF_vars(Work(w))

FairSpec == Spec /\ Fairness

-----------------------------------------------------------------------------
(* Properties. *)

Holds(j, m) == outbox[j] \in Response /\ outbox[j].msg = m
Answered(m) == \E r \in handed : r.msg = m

(* Message m can still be answered from disk, or it has been answered. *)
Safe(m) == inbox[m] = "full" \/ Holds(JobOf[m], m) \/ Answered(m)

(* No job is lost: once the broker has seen the acknowledgement of a       *)
(* command (and will never deliver it again), the command is in a complete *)
(* inbox file, or its response is in the outbox, or it was sent, whatever  *)
(* crashes and broken connections come between the steps of on_message and *)
(* of the response handler.                                                *)
AckedIsSafe == \A m \in Messages : broker[m] = "acked" => Safe(m)

(* ----- The inductive invariant behind AckedIsSafe, OneTaskPerFile and    *)
(* LedgerSpec, in named parts. *)

Busy(w, m) == worker[w].pc # "idle" /\ worker[w].msg = m
Owns(w, m) == worker[w].pc \in Owning /\ worker[w].msg = m
Owned(m) == \E w \in Workers : Owns(w, m)
Kept(m) == Holds(JobOf[m], m) \/ Answered(m)

(* m is written, or is being overwritten by its own redelivery. *)
Overwriting(m) == inbox[m] = "torn" /\ recv = "write" /\ current = m
Stored(m) == inbox[m] = "full" \/ Overwriting(m)

(* No thread works before on_connected submits, none is notified after the *)
(* watcher was stopped.                                                    *)
Quiet ==
  /\ recv \notin {"listening", "write", "ack"} => created = {}
  /\ recv \in {"off", "resend", "resent"} =>
       pool = {} /\ \A w \in Workers : worker[w] = Idle

(* A message is reported, queued or run at most once at a time, and while  *)
(* it is, its file is in the inbox.                                        *)
Exclusive ==
  /\ \A m \in created : inbox[m] # "absent" /\ m \notin pool /\ ~Owned(m)
  /\ \A m \in pool : Stored(m) /\ ~Owned(m)
  /\ \A m \in Messages, w \in Workers : Owns(w, m) =>
       Stored(m) /\ \A v \in Workers : Owns(v, m) => v = w
  /\ recv = "submit" => \A m \in todo : m \notin pool /\ \A w \in Workers : ~Busy(w, m)

(* What on_message, the response handler and on_connected rely on between  *)
(* their steps.                                                            *)
ReceiverHolds ==
  /\ recv \in {"write", "ack"} => broker[current] \in {"queued", "delivered"}
  /\ recv = "write" /\ inbox[current] = "absent" => Kept(current)
  /\ recv = "ack" => Safe(current)
  /\ recv = "resent" => outbox[current] \in handed

HoldsFor(w) ==
  LET m == worker[w].msg IN
    /\ worker[w].pc = "save" => outbox[JobOf[m]] # NoFile \/ Answered(m)
    /\ worker[w].pc = "unbox" => Kept(m)
    /\ worker[w].pc = "send" =>
         Kept(m) \/ \E v \in Workers : worker[v].pc = "save" /\ worker[v].msg = m
    /\ worker[w].pc = "clear" => Answered(m)

WorkerHolds == \A w \in Workers : HoldsFor(w)

(* A second task for a message that is being answered stems from its only  *)
(* redelivery on this connection.                                          *)
SecondTask ==
  \A w \in Workers : LET m == worker[w].msg IN
    worker[w].pc = "send" =>
      /\ m \in created \cup pool \/ Owned(m) => link = "broken" \/ broker[m] # "queued"
      /\ m \in pool \/ Owned(m) => inbox[m] = "full"

Unposted == \A m \in Messages : broker[m] = "unposted" => inbox[m] = "absent"

OutboxKeyed == \A j \in Jobs : outbox[j] \in Response => JobOf[outbox[j].msg] = j

DaemonInv ==
  /\ TypeOK /\ AckedIsSafe
  /\ Quiet /\ Exclusive /\ ReceiverHolds /\ WorkerHolds /\ SecondTask
  /\ Unposted /\ OutboxKeyed

(* Each inbox file is processed by one task at a time: a message that is   *)
(* redelivered, found again by on_connected or reported by the watcher is  *)
(* never queued or run while an earlier task for it still owns the file.   *)
OneTaskPerFile ==
  /\ created \cap pool = {}
  /\ \A w \in Workers : worker[w].pc \in Owning =>
        /\ worker[w].msg \notin created \cup pool
        /\ inbox[worker[w].msg] # "absent"
        /\ \A v \in Workers \ {w} :
              worker[v].pc \in Owning => worker[v].msg # worker[w].msg
  /\ \A m \in created \cup pool : inbox[m] # "absent"

(* Without a crash or a lost connection a command is run once: when it has *)
(* been answered, nothing is left that would run it again.                 *)
NoRepeatWithoutFault ==
  faults = 0 => \A m \in Messages : Answered(m) =>
     /\ inbox[m] = "absent" /\ broker[m] # "queued"
     /\ \A w \in Workers : worker[w].msg = m => worker[w].pc = "clear"

(* No command is run more often than the faults explain: two tasks never   *)
(* work on one file, and an answered command is not run again.             *)
SingleTask == OneTaskPerFile /\ NoRepeatWithoutFault

(* A completion message carries the result of the job it names: the        *)
(* response to m never has the state and body another command returned.    *)
(* (Only with one worker: the result is kept in the shared processor.)     *)
OwnBody(r) == r.of \in {r.msg, Error}
OwnResult == \A r \in handed : OwnBody(r)

(* The inductive invariant behind it: between the return of its command    *)
(* and the response, the one worker's result is the one that is kept.      *)
ResultKept ==
  /\ \A w \in Workers :
       /\ worker[w].pc = "respond" => result = worker[w].msg
       /\ worker[w].pc \in {"open", "save", "unbox", "send", "clear"} => OwnBody(worker[w].resp)
  /\ \A j \in Jobs : outbox[j] \in Response => OwnBody(outbox[j])
  /\ OwnResult

(* The whole daemon is an implementation of the promise in JobMessaging.   *)
Owed == {m \in Messages : broker[m] \in {"queued", "delivered"}}
OnDisk == {m \in Messages : inbox[m] = "full" \/ Holds(JobOf[m], m)}
AnsweredSet == {m \in Messages : Answered(m)}
Ledger == INSTANCE JobMessaging WITH owed <- Owed, stored <- OnDisk, answered <- AnsweredSet
LedgerSpec == Ledger!Spec

(* A file nobody will look at until the daemon is started again: on_created *)
(* read it before it was written, or its created event fired in an earlier *)
(* run that died with the file half written.                               *)
Stranded(m) ==
  /\ recv = "listening" /\ inbox[m] # "absent"
  /\ m \notin created \cup pool
  /\ \A w \in Workers : worker[w].pc \in Owning => worker[w].msg # m

(* A half-written outbox file whose writer is gone. *)
Poisoned ==
  \E j \in Jobs : /\ outbox[j] = Torn
                  /\ \A w \in Workers : worker[w].pc = "save" => JobOf[worker[w].msg] # j

(* Every posted command is answered in the end, unless its inbox file is   *)
(* stranded or a torn outbox file stops on_connected.                      *)
AnsweredOrStuck ==
  \A m \in Messages : broker[m] # "unposted" ~> Answered(m) \/ Stranded(m) \/ Poisoned

(* Does not hold; see "Disagreements" in the README.                       *)
(* listeners.py:66 says that processing occurs via the InboxWatcher, which *)
(* responds to the file on_message puts in the inbox.                      *)
Processed == \A m \in Messages : inbox[m] # "absent" ~> Answered(m)
=============================================================================

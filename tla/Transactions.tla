---------------------------- MODULE Transactions ----------------------------
(***************************************************************************)
(* A Fedora transaction as plastron.client.transactions runs it: the main  *)
(* thread executes the body of `with transaction(client)' and then commits *)
(* or rolls back, while a TransactionKeepAlive thread sends maintenance    *)
(* requests; the two share the flags stopped, failed and active.           *)
(***************************************************************************)
EXTENDS Integers

CONSTANTS BodySize,       \* requests the body of the with statement sends
          MaxErrors,      \* bound on errors of the network and the server
          CommitsItself   \* does the body commit or roll back (load.py)?

ASSUME TxAssumption ==
  /\ BodySize \in Nat
  /\ MaxErrors \in Nat
  /\ CommitsItself \in BOOLEAN

VARIABLES main,     \* the main thread
          op,       \* the request it ends the transaction with
          inner,    \* was that request made by the body itself?
          exc,      \* the exception that is propagating, or "none"
          sent,     \* requests of the body that succeeded
          ka,       \* the keep-alive thread
          stopped, failed,   \* its flags
          active,   \* Transaction.active
          server,   \* the transaction on the repository server
          errors

mainVars == <<main, op, inner, exc, sent>>
txVars == <<mainVars, ka, stopped, failed, active, server, errors>>

Exceptions == {"ClientError", "TransactionError",
               "ConnectionRuntimeError",  \* Client.request wraps ConnectionError
               "KeepAliveRuntimeError",   \* TransactionClient.request, failed is set
               "Other"}

MainStages == {"start", "body", "check", "stop", "deactivate", "post", "wire", "finally", "done"}
KeepAliveStages == {"none", "waiting", "woken", "posting", "failing", "setting", "ended", "dead"}
ServerStates == {"none", "open", "committed", "rolledback", "expired"}

TxTypeOK ==
  /\ main \in MainStages
  /\ op \in {"none", "commit", "rollback"}
  /\ inner \in BOOLEAN
  /\ exc \in Exceptions \cup {"none"}
  /\ sent \in 0..BodySize
  /\ ka \in KeepAliveStages
  /\ stopped \in BOOLEAN /\ failed \in BOOLEAN /\ active \in BOOLEAN
  /\ server \in ServerStates
  /\ errors \in 0..MaxErrors

TxInit ==
  /\ main = "start" /\ op = "none" /\ inner = FALSE /\ exc = "none" /\ sent = 0
  /\ ka = "none" /\ stopped = FALSE /\ failed = FALSE /\ active = FALSE
  /\ server = "none" /\ errors = 0

Error == errors < MaxErrors /\ errors' = errors + 1

Goto(pc) == main' = pc /\ UNCHANGED <<op, inner, exc, sent>>

(* Exception e leaves the with statement: its finally clause is next. *)
Raise(e) == main' = "finally" /\ exc' = e /\ UNCHANGED <<op, inner, sent>>

-----------------------------------------------------------------------------
(* The main thread. *)

(* POST to the transaction endpoint; on 201 Created the keep-alive thread  *)
(* is started, otherwise a TransactionError or a RuntimeError is raised    *)
(* before there is anything to stop.                                       *)
CreateTransaction ==
  /\ main = "start"
  /\ \/ /\ server' = "open" /\ active' = TRUE /\ ka' = "waiting"
        /\ Goto("body") /\ UNCHANGED errors
     \/ /\ Error /\ main' = "done"
        /\ exc' \in {"TransactionError", "ConnectionRuntimeError"}
        /\ UNCHANGED <<op, inner, sent, server, active, ka>>
  /\ UNCHANGED <<stopped, failed>>

SentTwice ==
  /\ main = "body" /\ ~failed /\ server = "open"
  /\ sent' = sent + 1
  /\ UNCHANGED <<main, op, inner, exc, ka, stopped, failed, active, server, errors>>

(* A request of the body succeeds. *)
BodyRequest ==
  /\ main = "body" /\ ~failed /\ server = "open" /\ sent < BodySize
  /\ sent' = sent + 1
  /\ UNCHANGED <<main, op, inner, exc, ka, stopped, failed, active, server, errors>>

(* transaction() leaves the body with end request o; a body that commits   *)
(* itself catches the ClientError, so the context manager never sees it.   *)
End(o, e) ==
  /\ main' = "check" /\ op' = o /\ inner' = CommitsItself
  /\ exc' = IF CommitsItself THEN "none" ELSE e
  /\ UNCHANGED sent

(* The server answers a request with an error status. *)
RequestFails ==
  /\ main = "body" /\ ~failed
  /\ IF server = "open" THEN Error ELSE UNCHANGED errors
  /\ End("rollback", "ClientError")
  /\ UNCHANGED <<ka, stopped, failed, active, server>>

(* The keep-alive thread has failed, the connection fails or the body      *)
(* raises something else: not a ClientError, so nothing is rolled back.    *)
BodyRaises ==
  /\ main = "body"
  /\ \/ failed /\ Raise("KeepAliveRuntimeError") /\ UNCHANGED errors
     \/ ~failed /\ Error /\ Raise("ConnectionRuntimeError")
     \/ Error /\ Raise("Other")
  /\ UNCHANGED <<ka, stopped, failed, active, server>>

BodyEnds ==
  /\ main = "body" /\ sent = BodySize
  /\ End("commit", "none")
  /\ UNCHANGED <<ka, stopped, failed, active, server, errors>>

(* commit() or rollback(): refuse an inactive transaction ... *)
CheckActive ==
  /\ main = "check"
  /\ IF active THEN Goto("stop") ELSE Raise("TransactionError")
  /\ UNCHANGED <<ka, stopped, failed, active, server, errors>>

JoinedFirst ==
  /\ main = "stop" /\ ka = "ended" /\ Goto("deactivate")
  /\ stopped' = TRUE
  /\ UNCHANGED <<ka, failed, active, server, errors>>

(* ... Transaction.stop() sets the keep-alive's flag ... *)
StopKeepAlive ==
  /\ main = "stop" /\ Goto("deactivate")
  /\ stopped' = TRUE
  /\ UNCHANGED <<ka, failed, active, server, errors>>

(* ... and then active ... *)
Deactivate ==
  /\ main = "deactivate" /\ Goto("post")
  /\ active' = FALSE
  /\ UNCHANGED <<ka, stopped, failed, server, errors>>

(* ... TransactionClient.request() looks at the failed flag ... *)
Post ==
  /\ main = "post"
  /\ IF failed THEN Raise("KeepAliveRuntimeError") ELSE Goto("wire")
  /\ UNCHANGED <<ka, stopped, failed, active, server, errors>>

Closed == IF op = "commit" THEN "committed" ELSE "rolledback"

(* Control goes on after a successful commit() or rollback(): to the end   *)
(* of transaction(), or, when the body made the request, to the end of the *)
(* body and then to transaction()'s own commit.                            *)
Resume ==
  IF inner THEN main' = "check" /\ op' = "commit" /\ inner' = FALSE /\ UNCHANGED <<exc, sent>>
  ELSE Goto("finally")

(* ... and the request is sent: done, refused, or the connection fails     *)
(* before or after the server has executed it.                             *)
StatusIgnored ==
  /\ main = "wire"
  /\ server' = IF server = "open" THEN Closed ELSE server
  /\ Resume
  /\ UNCHANGED <<ka, stopped, failed, active, errors>>
Wire ==
  /\ main = "wire"
  /\ \/ /\ server = "open" /\ server' = Closed
        /\ Resume /\ UNCHANGED errors
     \/ /\ IF server = "open" THEN Error ELSE UNCHANGED errors
        /\ Raise("TransactionError") /\ UNCHANGED server
     \/ /\ Error /\ Raise("ConnectionRuntimeError")
        /\ \/ UNCHANGED server
           \/ server = "open" /\ server' = Closed
  /\ UNCHANGED <<ka, stopped, failed, active>>

(* The finally clause: tx.stop(), and the exception goes on. *)
Finally ==
  /\ main = "finally" /\ Goto("done")
  /\ stopped' = TRUE /\ active' = FALSE
  /\ UNCHANGED <<ka, failed, server, errors>>

-----------------------------------------------------------------------------
(* The keep-alive thread. *)

(* wait(interval) returns: the flag was set, or the interval is over. *)
Wake ==
  /\ ka = "waiting"
  /\ ka' = IF stopped THEN "ended" ELSE "woken"
  /\ UNCHANGED <<mainVars, stopped, failed, active, server, errors>>

(* maintain() raises a TransactionError for an inactive transaction. *)
Maintain ==
  /\ ka = "woken"
  /\ ka' = IF active THEN "posting" ELSE "failing"
  /\ UNCHANGED <<mainVars, stopped, failed, active, server, errors>>

(* The maintenance request: 204, another status (a TransactionError), or a *)
(* connection error, a RuntimeError that run() does not catch.             *)
MaintainPost ==
  /\ ka = "posting"
  /\ \/ server = "open" /\ ka' = "waiting" /\ UNCHANGED errors
     \/ /\ ka' = "failing"
        /\ IF server = "open" THEN Error ELSE UNCHANGED errors
     \/ ka' = "dead" /\ Error
  /\ UNCHANGED <<mainVars, stopped, failed, active, server>>

(* except TransactionError: stop, then set failed. *)
StopFailed ==
  /\ ka = "failing" /\ ka' = "setting"
  /\ stopped' = TRUE
  /\ UNCHANGED <<mainVars, failed, active, server, errors>>

SetFailed ==
  /\ ka = "setting" /\ ka' = "ended"
  /\ failed' = TRUE
  /\ UNCHANGED <<mainVars, stopped, active, server, errors>>

(* The server drops a transaction that nobody keeps alive: while the body  *)
(* goes on, after it was left, or (a fault) in the short time commit takes. *)
Expire ==
  /\ server = "open" /\ ka \in {"ended", "dead"}
  /\ IF main \in {"body", "done"} THEN UNCHANGED errors ELSE Error
  /\ server' = "expired"
  /\ UNCHANGED <<mainVars, ka, stopped, failed, active>>

Main ==
  \/ CreateTransaction \/ BodyRequest \/ RequestFails \/ BodyRaises \/ BodyEnds \/ CheckActive
  \/ StopKeepAlive \/ Deactivate \/ Post \/ Wire \/ Finally

KeepAlive == Wake \/ Maintain \/ MaintainPost \/ StopFailed \/ SetFailed

TxNext == Main \/ KeepAlive \/ Expire

TxSpec == TxInit /\ [][TxNext]_txVars

(* Both threads are scheduled, and requests get an answer or an error. *)
FairTxSpec == TxSpec /\ WF_txVars(Main) /\ WF_txVars(KeepAlive)

-----------------------------------------------------------------------------
(* Properties. *)

(* No half-done body is ever committed, whatever the keep-alive thread and *)
(* the server do between the body's requests and the commit.               *)
OnlyWholeBodiesCommitted == server = "committed" => sent = BodySize

(* A with statement that ends without an exception has been committed. *)
SuccessMeansCommitted == main = "done" /\ exc = "none" => server = "committed"

(* A ClientError leaves the with statement only after the rollback of its  *)
(* writes was confirmed; if the rollback fails, another exception leaves.  *)
ClientErrorMeansRolledBack ==
  main = "done" /\ exc = "ClientError" => server = "rolledback"

(* An exception other than a ClientError never ends in a commit, except    *)
(* when the answer to the commit request itself was lost.                  *)
FailureMeansNotCommitted ==
  main = "done" /\ exc \notin {"none", "ConnectionRuntimeError"} => server # "committed"

(* How the with statement is left tells what the server did.               *)
EndTellsTheTruth ==
  /\ OnlyWholeBodiesCommitted /\ SuccessMeansCommitted
  /\ ClientErrorMeansRolledBack /\ FailureMeansNotCommitted

(* However the with statement is left, the keep-alive thread ends. *)
KeepAliveEnds == main = "done" ~> ka \in {"none", "ended", "dead"}

(* The with statement is always left: the two threads never wait for each  *)
(* other.                                                                  *)
MainEnds == <>(main = "done")

(* Both threads of a transaction come to their end. *)
ThreadsEnd == KeepAliveEnds /\ MainEnds

(* ----- The inductive invariant behind the four properties above: what    *)
(* each stage of ending the transaction may rely on. *)

Ending == {"check", "stop", "deactivate", "post", "wire"}

(* A commit is on its way only for a whole body, or it will be refused     *)
(* because the transaction is not active any more.                         *)
CommitIsWhole ==
  /\ main \in Ending /\ op = "commit" => sent = BodySize \/ (main = "check" /\ ~active)
  /\ main \in {"post", "wire"} => ~active

(* transaction() itself rolls back only for a ClientError, which is the    *)
(* only exception that may be propagating before the with statement ends.  *)
RollbackForClientError ==
  /\ main \in {"start", "body"} => exc = "none" /\ ~inner
  /\ main \in Ending => op # "none" /\ exc \in {"none", "ClientError"}
  /\ main \in Ending /\ ~inner => (op = "rollback" <=> exc = "ClientError")
  /\ inner => exc # "ClientError"

(* How the with statement is left agrees with the server. *)
LeftAsEnded ==
  /\ main \in {"finally", "done"} /\ exc = "none" => server = "committed"
  /\ main \in {"finally", "done"} /\ exc = "ClientError" => server = "rolledback"
  /\ server = "committed" => sent = BodySize
  /\ ~CommitsItself /\ server = "committed" =>
       main \in {"finally", "done"} /\ exc \in {"none", "ConnectionRuntimeError"}
  /\ ~CommitsItself => ~inner

TxInv == TxTypeOK /\ CommitIsWhole /\ RollbackForClientError /\ LeftAsEnded

(* Does not hold; see "Disagreements" in the README.                       *)
(* transactions.py:72 says that stop(), which ends the keep-alive thread   *)
(* and clears active, should always be called before committing: so a      *)
(* transaction no request of which has failed is committed.                *)
HealthyIsCommitted ==
  main = "done" /\ errors = 0 => exc = "none"

(* Does not hold; see "Disagreements" in the README.                       *)
(* load.py:265 ("failures here ... should trigger a system exit") and :269 *)
(* ("Transaction rolled back. Continuing load."): after a confirmed        *)
(* rollback the load goes on, no TransactionError leaves the block.        *)
LoadGoesOn ==
  main = "done" /\ server = "rolledback" => exc # "TransactionError"
=============================================================================

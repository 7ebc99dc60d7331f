------------------------------ MODULE UpdateJob ------------------------------
(***************************************************************************)
(* An update job: it walks the resources below each URI and applies one    *)
(* SPARQL Update to every resource, each URI in a transaction if asked to, *)
(* and records the updated resources in a log that a later run of the same *)
(* command reads.  Runs may fail or be killed at any point.                *)
(***************************************************************************)
EXTENDS Integers, Sequences, FiniteSets

CONSTANTS Resources,
          Uris,       \* the resources the command names
          Children,   \* per resource: those its traversed predicates lead to
          Gone,       \* resources that do not exist
          Invalid,    \* resources the update makes invalid for the model
          Options,    \* ways to call it: with transactions, a completed log,
                      \* as a dry run, with a model to validate against
          MaxRuns,    \* bound on the runs of the command
          MaxFaults   \* bound on errors of the network and the server, and on kills

ASSUME UpdateAssumption ==
  /\ Uris \subseteq Resources /\ Gone \subseteq Resources /\ Invalid \subseteq Resources
  /\ Children \in [Resources -> Seq(Resources)]
  /\ Options \subseteq [tx : BOOLEAN, log : BOOLEAN, dry : BOOLEAN, model : BOOLEAN]
  /\ MaxRuns \in Nat /\ MaxFaults \in Nat

VARIABLES
  opts,       \* how the command was called
  applied,    \* per resource: how often the update is in the repository
  pending,    \* per resource: how often it is in the open transaction
  completed,  \* the keys in the completed log
  pc, left,   \* the run: its next step, the URIs it has not begun,
  stack,      \* the resources walk() has yet to visit for this URI
  bad,        \* does its stats have errors or invalid resources?
  seen, skipped,   \* resources walk() came to, and those it reported as not found
  outcome, runs, faults

walk == <<left, stack, seen, skipped>>
vars == <<opts, applied, pending, completed, pc, walk, bad, outcome, runs, faults>>

Nothing == [r \in Resources |-> 0]
RangeOf(s) == {s[n] : n \in 1..Len(s)}

TypeOK ==
  /\ opts \in Options
  /\ applied \in [Resources -> Nat] /\ pending \in [Resources -> Nat]
  /\ completed \subseteq Resources
  /\ pc \in {"idle", "next", "walk", "patch", "log"}
  /\ left \subseteq Uris /\ stack \in Seq(Resources)
  /\ pc \in {"patch", "log"} => stack # <<>>
  /\ bad \in BOOLEAN
  /\ seen \subseteq Resources /\ skipped \subseteq seen
  /\ outcome \in {"none", "running", "aborted", "update_complete", "update_incomplete"}
  /\ runs \in 0..MaxRuns /\ faults \in 0..MaxFaults

Init ==
  /\ opts \in Options
  /\ applied = Nothing /\ pending = Nothing /\ completed = {}
  /\ pc = "idle" /\ left = {} /\ stack = <<>> /\ bad = FALSE
  /\ seen = {} /\ skipped = {}
  /\ outcome = "none" /\ runs = 0 /\ faults = 0

InTransaction == opts.tx /\ ~opts.dry
Here == Head(stack)
Fault == faults < MaxFaults /\ faults' = faults + 1

-----------------------------------------------------------------------------
(* An exception leaves run(): nothing is rolled back, but what was not     *)
(* committed is gone when the transaction expires.                         *)
Abort ==
  /\ pc' = "idle" /\ outcome' = "aborted"
  /\ pending' = Nothing

Start ==
  /\ pc = "idle" /\ runs < MaxRuns /\ runs' = runs + 1
  /\ pc' = "next" /\ left' = Uris /\ stack' = <<>> /\ bad' = FALSE
  /\ seen' = {} /\ skipped' = {} /\ outcome' = "running"
  /\ UNCHANGED <<opts, applied, pending, completed, faults>>

(* The next URI, in a transaction of its own. *)
Enter ==
  /\ pc = "next"
  /\ \E u \in left : left' = left \ {u} /\ stack' = <<u>>
  /\ \/ /\ pc' = "walk" /\ UNCHANGED <<outcome, pending, faults>>
     \/ /\ InTransaction /\ Fault /\ Abort
  /\ UNCHANGED <<opts, applied, completed, seen, skipped, bad, runs>>

YieldOnly == stack' = Tail(stack)

(* walk() goes on below the resource it has yielded. *)
Descend == stack' = Children[Here] \o Tail(stack)

NotSkipped ==
  /\ pc = "walk" /\ stack # <<>>
  /\ IF Here \in Gone THEN UNCHANGED faults ELSE Fault
  /\ seen' = seen \cup {Here} /\ skipped' = skipped \cup {Here}
  /\ UNCHANGED <<opts, applied, pending, completed, pc, left, stack, bad, outcome, runs>>

(* HEAD: any error status counts as not found, which is only logged. *)
NotFound ==
  /\ pc = "walk" /\ stack # <<>>
  /\ IF Here \in Gone THEN UNCHANGED faults ELSE Fault
  /\ seen' = seen \cup {Here} /\ skipped' = skipped \cup {Here}
  /\ stack' = Tail(stack)
  /\ UNCHANGED <<opts, applied, pending, completed, pc, left, bad, outcome, runs>>

(* A resource that is read and needs no request: it is in the log, invalid *)
(* or the run is a dry run.                                                *)
LoggedByUri == opts.log /\ Here \in completed /\ Here \in Uris
Logged == opts.log /\ Here \in completed
Rejected == opts.model /\ Here \in Invalid

Pass ==
  /\ pc = "walk" /\ stack # <<>> /\ Here \notin Gone
  /\ Logged \/ Rejected \/ opts.dry
  /\ bad' = (bad \/ (~Logged /\ Rejected))
  /\ seen' = seen \cup {Here}
  /\ Descend
  /\ UNCHANGED <<opts, applied, pending, completed, pc, left, skipped, outcome, runs, faults>>

VisitAndPop ==
  /\ pc = "walk" /\ stack # <<>> /\ Here \notin Gone
  /\ ~Logged /\ ~Rejected /\ ~opts.dry
  /\ pc' = "patch" /\ stack' = Tail(stack)
  /\ UNCHANGED <<opts, applied, pending, completed, left, seen, skipped, bad, outcome,
                 runs, faults>>

(* Or it is read and has to be updated. *)
Visit ==
  /\ pc = "walk" /\ stack # <<>> /\ Here \notin Gone
  /\ ~Logged /\ ~Rejected /\ ~opts.dry
  /\ seen' = seen \cup {Here}
  /\ pc' = "patch"
  /\ UNCHANGED <<opts, applied, pending, completed, left, stack, skipped, bad, outcome,
                 runs, faults>>

(* GET raises a RepositoryError. *)
ReadFails ==
  /\ pc = "walk" /\ stack # <<>>
  /\ Fault /\ Abort
  /\ UNCHANGED <<opts, applied, completed, walk, bad, runs>>

Once(f) == [f EXCEPT ![Here] = @ + 1]

(* The PATCH: done, refused (an UpdateError), or the connection fails      *)
(* before or after the server has applied it.                              *)
Patch ==
  /\ pc = "patch"
  /\ \/ /\ pc' = "log"
        /\ IF opts.tx THEN pending' = Once(pending) /\ UNCHANGED applied
                      ELSE applied' = Once(applied) /\ UNCHANGED pending
        /\ UNCHANGED <<stack, bad, outcome, faults>>
     \/ /\ pc' = "walk" /\ Fault /\ bad' = TRUE /\ Descend
        /\ UNCHANGED <<applied, pending, outcome>>
     \/ /\ Fault /\ Abort
        /\ \/ UNCHANGED applied
           \/ ~opts.tx /\ applied' = Once(applied)
        /\ UNCHANGED <<stack, bad>>
  /\ UNCHANGED <<opts, completed, left, seen, skipped, runs>>

Record ==
  /\ pc = "log" /\ pc' = "walk"
  /\ completed' = IF opts.log THEN completed \cup {Here} ELSE completed
  /\ Descend
  /\ UNCHANGED <<opts, applied, pending, left, seen, skipped, bad, outcome, runs, faults>>

CommitPending ==
  /\ applied' = [r \in Resources |-> applied[r] + pending[r]]
  /\ pending' = Nothing

(* The end of the with statement: the commit succeeds, is refused, or its  *)
(* connection fails before or after it.                                    *)
Leave ==
  /\ pc = "walk" /\ stack = <<>>
  /\ \/ /\ IF InTransaction THEN CommitPending ELSE UNCHANGED <<applied, pending>>
        /\ pc' = "next" /\ UNCHANGED <<outcome, faults>>
     \/ /\ InTransaction /\ Fault /\ Abort
        /\ \/ UNCHANGED applied
           \/ applied' = [r \in Resources |-> applied[r] + pending[r]]
  /\ UNCHANGED <<opts, completed, walk, bad, runs>>

Finish ==
  /\ pc = "next" /\ left = {}
  /\ pc' = "idle"
  /\ outcome' = IF bad THEN "update_incomplete" ELSE "update_complete"
  /\ UNCHANGED <<opts, applied, pending, completed, walk, bad, runs, faults>>

(* The process is killed, or nobody takes the next message of the run. *)
Crash ==
  /\ pc # "idle" /\ Fault /\ Abort
  /\ UNCHANGED <<opts, applied, completed, walk, bad, runs>>

Step ==
  \/ Enter \/ NotFound \/ Pass \/ Visit \/ ReadFails \/ Patch \/ Record \/ Leave \/ Finish

Next == Start \/ Step \/ Crash

Spec == Init /\ [][Next]_vars

(* A run goes on until it ends; nobody has to start another. *)
FairSpec == Spec /\ WF_vars(Step)

-----------------------------------------------------------------------------
(* Properties. *)

Updated == {r \in Resources : applied[r] > 0}

(* Does not hold; see "Disagreements" in the README.                       *)
(* The help text of --completed, "file recording the URIs of updated       *)
(* resources" (update.py:55), when no run is going on.                     *)
LogIsTrue == pc = "idle" => completed \subseteq Updated

(* What a URI leads to: the resources that are in every set which holds the *)
(* URI and what its members lead to.                                       *)
Below ==
  [u \in Uris |->
     {r \in Resources :
        \A S \in SUBSET Resources :
          u \in S /\ (\A q \in S : RangeOf(Children[q]) \subseteq S) => r \in S}]

Sent(r) == applied[r] + pending[r] > 0

(* A set of URIs, at most one per fault, whose transactions were lost.     *)
LostUris == {L \in SUBSET Uris : IsFiniteSet(L) /\ Cardinality(L) <= faults}

(* How far the log can be from the truth, because a resource is logged     *)
(* before its transaction is committed: each fault makes at most one       *)
(* URI's transaction disappear, and what is logged and was never updated   *)
(* is below such a URI.  Without transactions the log is true at every     *)
(* moment.                                                                 *)
LogIsTrueUnlessLost ==
  \E L \in LostUris :
    \A r \in completed : Sent(r) \/ (opts.tx /\ \E u \in L : r \in Below[u])

(* With a log no resource is updated twice, although it may be below two   *)
(* URIs and the command is run again, but for one time per fault: a PATCH  *)
(* whose answer or log entry was lost.                                     *)
AppliedOnce ==
  opts.log => \A r \in Resources : applied[r] + pending[r] <= 1 + faults

(* The log and the number of updates agree up to the faults.               *)
LogMatchesUpdates == LogIsTrueUnlessLost /\ AppliedOnce

(* update_complete means that the walk came to everything below the URIs   *)
(* and that all it found is updated, now or in an earlier run; with        *)
(* transactions, what an earlier run has logged is believed.               *)
CompleteMeansUpdated ==
  outcome = "update_complete" /\ ~opts.dry =>
    /\ Uris \subseteq seen
    /\ \A r \in seen \ skipped :
         /\ RangeOf(Children[r]) \subseteq seen
         /\ r \in Updated \/ (opts.log /\ opts.tx /\ r \in completed)

(* ----- The inductive invariant behind the three properties above. *)

(* Only an open transaction holds anything back. *)
PendingOnlyInside ==
  /\ pc \in {"idle", "next"} \/ ~InTransaction => \A r \in Resources : pending[r] = 0
  /\ pc \in {"patch", "log"} => ~opts.dry

(* What is about to be logged has been sent. *)
SentBeforeLogged ==
  /\ LogIsTrueUnlessLost
  /\ pc = "log" => Sent(Here)

(* What is on the stack and in the transaction is below a single URI. *)
OneUri ==
  \/ pc \in {"idle", "next"}
  \/ \E u \in Uris : /\ RangeOf(stack) \subseteq Below[u]
                    /\ \A r \in Resources : pending[r] > 0 => r \in Below[u]

(* A resource that is neither in the log nor about to be has been updated  *)
(* only as often as something failed.                                      *)
UpdatesPaid ==
  opts.log =>
    /\ pc = "patch" => Here \notin completed
    /\ \A r \in Resources :
         /\ applied[r] + pending[r] <= 1 + faults
         /\ r \notin completed /\ ~(pc = "log" /\ r = Here) => applied[r] + pending[r] <= faults

(* Of a run that goes on or is complete: what walk() owes is in left, on   *)
(* the stack or the resource in hand.                                      *)
InHand(r) == pc \in {"patch", "log"} /\ r = Here
Settled(r) == Sent(r) \/ (opts.log /\ opts.tx /\ r \in completed)

WalkCovers ==
  outcome \in {"running", "update_complete"} =>
    /\ Uris \subseteq seen \cup left \cup RangeOf(stack)
    /\ \A r \in seen \ skipped : RangeOf(Children[r]) \subseteq seen \cup RangeOf(stack)
                              \/ InHand(r)
    /\ ~bad /\ ~opts.dry => \A r \in seen \ skipped : Settled(r) \/ InHand(r)

RunShape ==
  /\ pc # "idle" <=> outcome = "running"
  /\ pc = "next" => stack = <<>>
  /\ pc \in {"patch", "log"} => Here \in seen
  /\ outcome = "update_complete" => left = {} /\ stack = <<>> /\ ~bad

UpdateInv ==
  TypeOK /\ PendingOnlyInside /\ OneUri /\ SentBeforeLogged /\ UpdatesPaid /\ WalkCovers /\ RunShape

(* A run ends, if no resource is below itself. *)
RunEnds == pc # "idle" ~> pc = "idle"
=============================================================================

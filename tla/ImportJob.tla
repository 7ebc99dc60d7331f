------------------------------ MODULE ImportJob ------------------------------
(***************************************************************************)
(* An import job: a job directory that outlives its runs (config.yml,      *)
(* source.csv, completed.log.csv), the runs that are started on it one     *)
(* after the other, and the repository the rows are loaded into.           *)
(*                                                                         *)
(* A row is represented by its identifier.  Rows with a URI update an      *)
(* item that exists, the others create a new one.  Files that list the     *)
(* same item are taken to agree about its metadata.                        *)
(***************************************************************************)
EXTENDS Integers, Sequences, FiniteSets

CONSTANTS Ids,        \* identifiers of items
          HasUri,     \* those whose row has a value in the URI column
          Files,      \* CSV files a user may submit: sequences of identifiers
          Percents,   \* values of --percent; 0 stands for no percentage
          Limits,     \* values of --limit
          Publish,    \* values of --publish
          MaxRuns,    \* bound on the runs of the job
          MaxFaults,  \* bound on crashes and lost answers
          Empty       \* a source.csv that was opened and not written

ASSUME ImportAssumption ==
  /\ IsFiniteSet(Ids)
  /\ HasUri \subseteq Ids
  /\ Files \subseteq Seq(Ids)
  /\ Percents \subseteq 0..100
  /\ Limits \subseteq Nat
  /\ Publish \subseteq BOOLEAN
  /\ MaxRuns \in Nat /\ MaxFaults \in Nat
  /\ Empty \notin Seq(Ids)

VARIABLES
  dir,        \* the job directory: "none", "bare" (no config.yml), "ready"
  source,     \* source.csv
  completed,  \* completed.log.csv
  copies,     \* per new item: resources created for it
  dirty,      \* existing items that differ from the spreadsheet
  published,  \* items that have been published
  pc, opts, input,   \* the run: its next step, its arguments, its import_file
  row, selected,     \* the row it is at, the identifiers it should load
  failed, invalid,   \* rows in the run's dropped-failed and dropped-invalid logs
  outcome,    \* how the latest run ended
  runs, faults

job == <<dir, source, completed>>
repo == <<copies, dirty, published>>
drops == <<failed, invalid>>
run == <<opts, input, selected>>
vars == <<job, repo, pc, run, row, drops, outcome, runs, faults>>

Options == [validate : BOOLEAN, publish : Publish, percent : Percents, limit : Limits]
Outcomes == {"none", "running", "crashed", "aborted", "validate_success",
             "validate_failed", "import_complete", "import_incomplete"}

Stages == {"idle", "save", "store", "write", "open", "row", "read", "validate", "load",
           "publish", "log"}
OnRow == {"read", "validate", "load", "publish", "log"}

JobOK ==
  /\ dir \in {"none", "bare", "ready"}
  /\ source \in Files \cup {Empty}
  /\ completed \subseteq Ids

RepoOK ==
  /\ copies \in [Ids \ HasUri -> Nat]
  /\ dirty \subseteq HasUri
  /\ published \subseteq Ids

RunOK ==
  /\ opts \in Options
  /\ input \in Files \cup {Empty}
  /\ selected \subseteq Ids
  /\ failed \subseteq Nat /\ invalid \subseteq Nat
  /\ outcome \in Outcomes
  /\ runs \in 0..MaxRuns
  /\ faults \in 0..MaxFaults

(* A run only works on rows that its source.csv has. *)
RowOK ==
  /\ pc \in Stages
  /\ row \in Nat
  /\ pc \in OnRow \cup {"row"} => source \in Files /\ row >= 1
  /\ pc \in OnRow => row <= Len(source)

TypeOK == JobOK /\ RepoOK /\ RunOK /\ RowOK

Init ==
  /\ dir = "none" /\ source = Empty /\ completed = {}
  /\ copies = [i \in Ids \ HasUri |-> 0]
  /\ dirty \in SUBSET HasUri
  /\ published = {}
  /\ pc = "idle" /\ opts \in Options /\ input = Empty
  /\ row = 0 /\ selected = {}
  /\ failed = {} /\ invalid = {}
  /\ outcome = "none" /\ runs = 0 /\ faults = 0

Item == source[row]
Fault == faults < MaxFaults /\ faults' = faults + 1

-----------------------------------------------------------------------------
(* Starting a run. *)

Begin(o, f) ==
  /\ pc = "idle" /\ runs < MaxRuns
  /\ runs' = runs + 1
  /\ opts' = o /\ input' = f
  /\ row' = 0 /\ selected' = {} /\ failed' = {} /\ invalid' = {}
  /\ outcome' = "running"
  /\ UNCHANGED <<source, completed, repo, faults>>

(* create_job refuses a job id whose directory exists. *)
NewJob(o, f) ==
  /\ dir = "none" /\ f # Empty
  /\ Begin(o, f)
  /\ dir' = "bare" /\ pc' = "save"

SaveConfig ==
  /\ pc = "save" /\ pc' = "store"
  /\ dir' = "ready"
  /\ UNCHANGED <<source, completed, repo, run, row, drops, outcome, runs, faults>>

(* get_job and load_config need the directory and its config.yml; a resumed *)
(* job may be given a new CSV file.  Without one (Empty), the command line *)
(* passes no file; the STOMP command always passes its message's body.     *)
Resume(o, f) ==
  /\ dir = "ready"
  /\ Begin(o, f)
  /\ \/ pc' = "store"
     \/ f = Empty /\ pc' = "open"
  /\ UNCHANGED dir

(* store_metadata_file truncates source.csv and then copies the input. *)
StoreOpen ==
  /\ pc = "store" /\ pc' = "write"
  /\ source' = Empty
  /\ UNCHANGED <<dir, completed, repo, run, row, drops, outcome, runs, faults>>

StoreWrite ==
  /\ pc = "write" /\ pc' = "open"
  /\ source' = input
  /\ UNCHANGED <<dir, completed, repo, run, row, drops, outcome, runs, faults>>

-----------------------------------------------------------------------------
(* Which rows a run loads: MetadataSpreadsheet.rows(). *)

Total == Len(source)
Listed == {source[k] : k \in 1..Total}
Remaining == {k \in 1..Total : source[k] \notin completed}
Target(p) == (p * Total) \div 100

(* int(100 * (1 - len(completed) / total) / percentage), which truncates. *)
StepSize(p) ==
  IF Cardinality(Remaining) <= Target(p) THEN 1
  ELSE LET left == Total - Cardinality(completed)
       IN IF left >= 0 THEN (100 * left) \div (Total * p)
                       ELSE -((100 * (-left)) \div (Total * p))

(* identifiers[::step], where identifiers are those of the remaining rows; *)
(* a negative step counts from the end.                                    *)
Strided(step) ==
  LET before(k) == Cardinality({r \in Remaining : r < k})
      after(k)  == Cardinality({r \in Remaining : r > k})
  IN {source[k] : k \in {r \in Remaining : IF step > 0 THEN before(r) % step = 0
                                                     ELSE after(r) % (-step) = 0}}

Selected(p) ==
  IF p = 0 THEN Listed ELSE IF Remaining = {} THEN {} ELSE Strided(StepSize(p))

-----------------------------------------------------------------------------
(* The rows. *)

(* An exception that run() does not catch ends the run. *)
Abort ==
  /\ pc' = "idle" /\ outcome' = "aborted"
  /\ UNCHANGED <<row, drops>>

SameRowAgain == pc' = "row" /\ UNCHANGED row
NextRow == pc' = "row" /\ row' = row + 1

IdentifierDropped ==
  failed' = failed \cup {Item} /\ NextRow /\ UNCHANGED <<invalid, outcome>>

(* Append the row to one of the run's drop logs and go on with the next.   *)
DropFailed == failed' = failed \cup {row} /\ NextRow /\ UNCHANGED <<invalid, outcome>>
DropInvalid == invalid' = invalid \cup {row} /\ NextRow /\ UNCHANGED <<failed, outcome>>
Goto(step) == pc' = step /\ UNCHANGED <<row, drops, outcome>>

(* Open source.csv and select the rows.  An unwritten file has no header,  *)
(* a file without rows makes progress_message divide by zero, and a step   *)
(* of zero is refused by the slice: each ends the run.                     *)
Unreadable(p) ==
  \/ source \in {Empty, <<>>}
  \/ p # 0 /\ Remaining # {} /\ StepSize(p) = 0

OpenSource ==
  /\ pc = "open"
  /\ IF Unreadable(opts.percent)
     THEN Abort /\ UNCHANGED selected
     ELSE /\ selected' = Selected(opts.percent)
          /\ pc' = "row" /\ row' = 1
          /\ UNCHANGED <<drops, outcome>>
  /\ UNCHANGED <<job, repo, opts, input, runs, faults>>

(* The spreadsheet has another row, and the limit allows it. *)
AtRow == pc = "row" /\ row <= Total /\ row <= opts.limit

(* The next row: not selected, malformed, already completed, or to be      *)
(* loaded.                                                                 *)
TakeRow ==
  /\ AtRow
  /\ IF Item \notin selected THEN NextRow /\ UNCHANGED <<drops, outcome>>
     ELSE \/ DropInvalid
          \/ /\ Item \in completed
             /\ NextRow /\ UNCHANGED <<drops, outcome>>
          \/ Item \notin completed /\ Goto("read")
  /\ UNCHANGED <<job, repo, run, runs, faults>>

(* ImportRow(...) reads an existing item, unless it only validates; errors *)
(* of the read or of the unflattening are not caught.                      *)
ReadItem ==
  /\ pc = "read"
  /\ Goto("validate") \/ Abort
  /\ UNCHANGED <<job, repo, run, runs, faults>>

(* validate_item() raises a RuntimeError, finds the item invalid, or valid. *)
Validate ==
  /\ pc = "validate"
  /\ \/ DropFailed \/ DropInvalid
     \/ IF opts.validate THEN NextRow /\ UNCHANGED <<drops, outcome>> ELSE Goto("load")
  /\ UNCHANGED <<job, repo, run, runs, faults>>

(* create_resource(): one transaction that creates and publishes.  It is   *)
(* rolled back on a ClientError (a JobError, the item is dropped); any     *)
(* other exception leaves the run, with nothing committed or, if only the  *)
(* answer to the commit was lost, with everything committed.               *)
Created ==
  /\ copies' = [copies EXCEPT ![Item] = @ + 1]
  /\ published' = IF opts.publish THEN published \cup {Item} ELSE published
  /\ UNCHANGED dirty

CreateItem ==
  /\ pc = "load" /\ Item \notin HasUri
  /\ \/ Created /\ Goto("log") /\ UNCHANGED faults
     \/ Created /\ Abort /\ Fault
     \/ (DropFailed \/ Abort) /\ UNCHANGED <<repo, faults>>
  /\ UNCHANGED <<job, run, runs>>

(* The update of an existing item with changes: a RepositoryError drops    *)
(* the item, other exceptions leave the run (with or without the PATCH).   *)
UpdateItem ==
  /\ pc = "load" /\ Item \in dirty
  /\ \/ /\ dirty' = dirty \ {Item}
        /\ \/ Goto(IF opts.publish THEN "publish" ELSE "log") /\ UNCHANGED faults
           \/ Abort /\ Fault
     \/ (DropFailed \/ Abort) /\ UNCHANGED <<dirty, faults>>
  /\ UNCHANGED <<job, copies, published, run, runs>>

(* ... and its publication. *)
PublishItem ==
  /\ pc = "publish"
  /\ \/ /\ published' = published \cup {Item}
        /\ \/ Goto("log") /\ UNCHANGED faults
           \/ Abort /\ Fault
     \/ (DropFailed \/ Abort) /\ UNCHANGED <<published, faults>>
  /\ UNCHANGED <<job, copies, dirty, run, runs>>

(* An existing item without changes is left alone. *)
SkipUnchanged ==
  /\ pc = "load" /\ Item \in HasUri \ dirty
  /\ Goto("log")
  /\ UNCHANGED <<job, repo, run, runs, faults>>

LogForgotten ==
  /\ pc = "log"
  /\ NextRow
  /\ UNCHANGED <<job, repo, run, drops, outcome, runs, faults>>

(* complete(): append the item to completed.log.csv. *)
LogCompleted ==
  /\ pc = "log"
  /\ completed' = completed \cup {Item}
  /\ NextRow
  /\ UNCHANGED <<dir, source, repo, run, drops, outcome, runs, faults>>

DroppedCounted ==
  IF opts.validate
  THEN IF invalid = {} /\ failed = {} THEN "validate_success" ELSE "validate_failed"
  ELSE IF Cardinality(completed) + Cardinality(failed) = Total
       THEN "import_complete" ELSE "import_incomplete"

(* The state of a run that has reached the end of the rows. *)
FinalState ==
  IF opts.validate
  THEN IF invalid = {} /\ failed = {} THEN "validate_success" ELSE "validate_failed"
  ELSE IF Cardinality(completed) = Total THEN "import_complete" ELSE "import_incomplete"

Finish ==
  /\ pc = "row" /\ ~AtRow
  /\ pc' = "idle" /\ outcome' = FinalState
  /\ UNCHANGED <<job, repo, run, row, drops, runs, faults>>

(* The process is killed, or the generator is closed at a yield. *)
Crash ==
  /\ pc # "idle" /\ Fault
  /\ pc' = "idle" /\ outcome' = "crashed"
  /\ UNCHANGED <<job, repo, run, row, drops, runs>>

Step ==
  \/ SaveConfig \/ StoreOpen \/ StoreWrite \/ OpenSource \/ TakeRow \/ ReadItem
  \/ Validate \/ CreateItem \/ UpdateItem \/ PublishItem \/ SkipUnchanged
  \/ LogCompleted \/ Finish

Next ==
  \/ Step \/ Crash
  \/ \E o \in Options, f \in Files \cup {Empty} : NewJob(o, f) \/ Resume(o, f)

Spec == Init /\ [][Next]_vars

(* A run in progress goes on; users need not start another. *)
FairSpec == Spec /\ WF_vars(Step)

-----------------------------------------------------------------------------
(* Properties. *)

Rows == {r \in 1..Total : r <= opts.limit /\ source[r] \in selected}

Loaded(i) == IF i \in HasUri THEN i \notin dirty ELSE copies[i] >= 1

(* The completed log never promises too much: an item recorded there has   *)
(* been created, or has the metadata of the spreadsheet, whatever crashes  *)
(* and errors hit the run that logged it.  (Resuming skips it for good.)   *)
CompletedIsLoaded ==
  \A i \in completed : Loaded(i)

(* A new item is created once, plus at most once more for every crash and  *)
(* every lost answer, over all the runs of the job, even if the CSV file   *)
(* lists it twice.                                                         *)
DuplicatesBounded == \A i \in Ids \ HasUri : copies[i] <= 1 + faults

(* "import_complete" is reported only when every item of the file has been *)
(* completed; the code only compares two numbers.  (This needs the log to  *)
(* hold no item of an earlier, different file.)                            *)
CompleteMeansAll ==
  outcome = "import_complete" /\ completed \subseteq Listed
    => Listed \subseteq completed

(* A run that ends by itself has dealt with every row it selected: the     *)
(* item is completed, or the row is in one of the drop logs.               *)
EndedRunAccounts ==
  outcome \in {"import_complete", "import_incomplete"} =>
    \A r \in Rows : source[r] \in completed \/ r \in failed \cup invalid

(* The completed log and the repository agree: what is logged was loaded,  *)
(* and nothing was loaded more often than the faults explain.              *)
LogMatchesRepository == CompletedIsLoaded /\ DuplicatesBounded

(* What a run reports of itself, by comparing two counts, is true.         *)
VerdictIsTrue == CompleteMeansAll /\ EndedRunAccounts

(* Validation only never changes the repository or the completed log. *)
ValidationIsReadOnly ==
  [][opts.validate /\ pc # "idle" => UNCHANGED <<repo, completed>>]_vars

(* A completed item is never loaded again by a later run of the job. *)
CompletedIsFinal ==
  [][\A i \in completed \ HasUri : copies'[i] = copies[i]]_vars

(* ----- The inductive invariant behind CompletedIsLoaded,                *)
(* DuplicatesBounded and CompletedIsFinal. *)

(* A row is only worked on while its item is not in the completed log; it  *)
(* is loaded when it is about to be logged.                                *)
RowInHand ==
  /\ pc \in OnRow => Item \notin completed
  /\ pc \in {"publish", "log"} => Loaded(Item)
  /\ pc = "publish" => Item \in HasUri

(* Every resource created for an item beyond those that the log accounts   *)
(* for, or is about to, was paid for by a fault.                           *)
CopiesPaid ==
  \A i \in Ids \ HasUri :
    copies[i] <= faults + IF i \in completed \/ (pc = "log" /\ Item = i) THEN 1 ELSE 0

ImportInv == TypeOK /\ CompletedIsLoaded /\ RowInHand /\ CopiesPaid

(* ----- The inductive invariant behind EndedRunAccounts, CompleteMeansAll *)
(* and ValidationIsReadOnly. *)

Ended == outcome \in {"import_complete", "import_incomplete"}
DealtWith(r) == source[r] \in completed \/ r \in failed \cup invalid

(* The rows before the current one have been dealt with. *)
RowsBehind ==
  pc \in OnRow \cup {"row"} /\ ~opts.validate =>
    \A r \in Rows : r < row => DealtWith(r)

(* A run that only validates has no load stage. *)
LoadsIfAsked == pc \in {"load", "publish", "log"} => ~opts.validate

(* The verdict on a run stands until the next one begins. *)
Verdict ==
  Ended => /\ pc = "idle" /\ source \in Files /\ EndedRunAccounts
           /\ outcome = "import_complete" => Cardinality(completed) = Total

RunInv == TypeOK /\ RowsBehind /\ LoadsIfAsked /\ Verdict

(* Every run ends. *)
RunEnds == pc # "idle" ~> pc = "idle"

(* Does not hold; see "Disagreements" in the README.                       *)
(* importcommand.py:178 says that --publish automatically publishes all    *)
(* items in the import: after a complete run with it, they are published.  *)
AllPublished ==
  outcome = "import_complete" /\ opts.publish => Listed \subseteq published
=============================================================================

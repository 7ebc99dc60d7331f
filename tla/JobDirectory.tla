---------------------------- MODULE JobDirectory ----------------------------
(***************************************************************************)
(* The directory of one import job and the processes that meet in it: an   *)
(* import command creates the job (from a file, or by converting an NDNP   *)
(* batch) or resumes it, a command delivered twice does so twice, and the  *)
(* web service shows the job.  Nothing locks the directory: config.yml,    *)
(* source.csv and completed.log.csv are opened, truncated and written in   *)
(* separate steps, and each process keeps its own set of completed items.  *)
(***************************************************************************)
EXTENDS Naturals, Sequences, FiniteSets, SequencesExt

CONSTANTS Items,      \* identifiers of rows, all of them new
          Procs,      \* processes: commands and web requests
          Requests,   \* what they are asked: sets of [Procs -> Kinds \X files]
          MaxFaults,  \* bound on crashes and failing requests
          Absent, Empty,  \* a file that is not there; one without a byte
          Header, Junk    \* the first line of the log; half of an overwritten line

Sources == Seq(Items) \cup {Absent, Empty}
Kinds == {"create", "convert", "resume", "show"}

(* "file" is what the command brings: the rows of the import file (Empty:  *)
(* a message without a body), the issues of the batch to convert, or, when *)
(* it resumes a job or only shows it, nothing (Absent).                    *)
ASSUME RequestAssumption ==
  /\ IsFiniteSet(Procs) /\ MaxFaults \in Nat /\ Header \notin Items /\ Junk \notin Items \cup {Header}
  /\ Absent # Empty /\ {Absent, Empty} \cap (Procs \cup Seq(Items \cup {Header, Junk})) = {}
  /\ Requests \subseteq [Procs -> [kind : Kinds, file : Sources]]
  /\ \A r \in Requests, p \in Procs :
       /\ r[p].kind = "convert" => r[p].file \in Seq(Items)
       /\ r[p].kind = "create" => r[p].file # Absent

VARIABLES
  asked,      \* per process: its request
  dir,        \* does the job's directory exist?
  config,     \* config.yml: Absent, Empty, or whose it is
  source,     \* source.csv: Absent, Empty, or its rows
  log,        \* completed.log.csv: Absent or its lines
  copies,     \* per item: how often it was created in the repository
  proc,       \* per process: its step, the keys it has in memory, the total, the
              \* rows and its place in them, and how it ended
  overlapped, \* have two commands been at work in the directory at once?
  faults

vars == <<asked, dir, config, source, log, copies, proc, overlapped, faults>>

Results == {"", "refused", "not_found", "no_config", "bad_log", "no_source", "bad_source",
            "unread", "complete", "incomplete", "shown", "crashed"}
Steps == {"start", "mkdir", "config_open", "config_write", "construct", "load_config",
          "convert_open", "convert", "store_open", "store_write", "open", "rewind", "row",
          "load", "append", "log_open", "log_header", "log_row", "end"}

Loaded == {i \in Items : copies[i] > 0}
File(p) == asked[p].file
Kind(p) == asked[p].kind
Active(p) == proc[p].pc \notin {"start", "end"}

Init ==
  /\ asked \in Requests
  /\ dir = FALSE /\ config = Absent /\ source = Absent /\ log = Absent
  /\ copies = [i \in Items |-> 0]
  /\ proc = [p \in Procs |-> [pc |-> "start", keys |-> {}, rows |-> <<>>, at |-> 1, total |-> 0, result |-> ""]]
  /\ overlapped = FALSE /\ faults = 0

Fault == faults < MaxFaults /\ faults' = faults + 1
At(p, pc) == proc[p].pc = pc
Go(p, pc) == proc' = [proc EXCEPT ![p].pc = pc]
End(p, result) == proc' = [proc EXCEPT ![p].pc = "end", ![p].result = result]
Files == <<config, source, log>>
Rest == <<asked, overlapped, faults>>

-----------------------------------------------------------------------------
(* Jobs.create_job() and get_job().                                        *)

(* job_dir.exists() *)
Look(p) ==
  /\ At(p, "start")
  /\ LET creates == Kind(p) \in {"create", "convert"} IN
     CASE creates /\ dir -> End(p, "refused") /\ UNCHANGED overlapped
       [] ~ creates /\ ~ dir -> End(p, "not_found") /\ UNCHANGED overlapped
       [] OTHER ->
            /\ Go(p, IF creates THEN "mkdir" ELSE "construct")
            /\ overlapped' = \/ overlapped
                             \/ /\ Kind(p) # "show"
                                /\ \E q \in Procs \ {p} : Active(q) /\ Kind(q) # "show"
  /\ UNCHANGED <<asked, dir, Files, copies, faults>>

(* exist_ok=True: another command may have made the directory meanwhile.   *)
MakeDir(p) ==
  /\ At(p, "mkdir") /\ Go(p, "config_open") /\ dir' = TRUE
  /\ UNCHANGED <<Files, copies, Rest>>

(* JobConfig.save(): the file is truncated, then written.                  *)
OpenConfig(p) ==
  /\ At(p, "config_open") /\ Go(p, "config_write") /\ config' = Empty
  /\ UNCHANGED <<dir, source, log, copies, Rest>>

WriteConfig(p) ==
  /\ At(p, "config_write") /\ Go(p, "construct") /\ config' = p
  /\ UNCHANGED <<dir, source, log, copies, Rest>>

(* _load_keys(): the first line names the columns, whatever it is; without *)
(* the real header the lines below it have no "id".                        *)
LinesWithHeader(file) == IF file = Absent THEN <<>> ELSE file  \* mutant: all of them are items

Lines(file) == IF file \in {Absent, <<>>} THEN <<>> ELSE Tail(file)
Unkeyed(file) == Lines(file) # <<>> /\ file[1] # Header

ReadKeys(p) ==
  proc' = [proc EXCEPT ![p].pc = "load_config",
                       ![p].keys = {Lines(log)[k] : k \in DOMAIN Lines(log)}]

(* Job.__init__() *)
Construct(p) ==
  /\ At(p, "construct")
  /\ IF Unkeyed(log) THEN End(p, "bad_log") ELSE ReadKeys(p)
  /\ UNCHANGED <<dir, Files, copies, Rest>>

(* mutant: the import file is not stored *)
LoadConfigOnly(p) ==
  /\ At(p, "load_config")
  /\ IF config \in {Absent, Empty} THEN End(p, "no_config") ELSE Go(p, "open")
  /\ UNCHANGED <<dir, Files, copies, Rest>>

(* from_file(): a missing or an empty file is a JobConfigError.            *)
LoadConfig(p) ==
  /\ At(p, "load_config")
  /\ IF config \in {Absent, Empty}
     THEN End(p, "no_config")
     ELSE Go(p, CASE Kind(p) = "convert" -> "convert_open"
                  [] Kind(p) = "show" \/ File(p) = Absent -> "open"
                  [] OTHER -> "store_open")
  /\ UNCHANGED <<dir, Files, copies, Rest>>

-----------------------------------------------------------------------------
(* source.csv *)

(* write_import_csv(): the header, then a row for every issue whose METS   *)
(* can be read; one that cannot ends the command.  What is written reaches *)
(* the file when a buffer is full, or with the end of the command.         *)
OpenConverted(p) ==
  /\ At(p, "convert_open") /\ Go(p, "convert") /\ source' = Empty
  /\ UNCHANGED <<dir, config, log, copies, Rest>>

Convert(p) ==
  /\ At(p, "convert")
  /\ LET done == proc[p].rows  k == Len(done) + 1 IN
     \/ /\ k <= Len(File(p)) /\ UNCHANGED faults
        /\ proc' = [proc EXCEPT ![p].rows = Append(done, File(p)[k])]
        /\ source' \in {source, done}
     \/ /\ k > Len(File(p)) /\ source' = done /\ UNCHANGED faults
        /\ proc' = [proc EXCEPT ![p].pc = "open", ![p].rows = <<>>]
     \/ k <= Len(File(p)) /\ Fault /\ End(p, "unread") /\ source' = done
  /\ UNCHANGED <<asked, dir, config, log, copies, overlapped>>

(* store_metadata_file() *)
OpenStore(p) ==
  /\ At(p, "store_open") /\ Go(p, "store_write") /\ source' = Empty
  /\ UNCHANGED <<dir, config, log, copies, Rest>>

WriteStore(p) ==
  /\ At(p, "store_write") /\ Go(p, "open") /\ source' = File(p)
  /\ UNCHANGED <<dir, config, log, copies, Rest>>

(* MetadataSpreadsheet(): the rows are counted, then the file is rewound.  *)
(* Without rows the first progress message divides by zero; the web        *)
(* service only wants the total.                                           *)
OpenSource(p) ==
  /\ At(p, "open")
  /\ CASE source = Absent -> End(p, "no_source")
       [] source = Empty -> End(p, "bad_source")
       [] Kind(p) = "show" -> End(p, "shown")
       [] source = <<>> -> End(p, "bad_source")
       [] OTHER -> proc' = [proc EXCEPT ![p].pc = "rewind", ![p].total = Len(source)]
  /\ UNCHANGED <<dir, Files, copies, Rest>>

Rewind(p) ==
  /\ At(p, "rewind")
  /\ proc' = [proc EXCEPT ![p].pc = "row", ![p].rows = IF source = Empty THEN <<>> ELSE source]
  /\ UNCHANGED <<dir, Files, copies, Rest>>

-----------------------------------------------------------------------------
(* ImportRun.run() and ImportJob.complete().                               *)

Row(p) == proc[p].rows[proc[p].at]

(* len(completed_log) == total *)
Completed(p) == Cardinality(proc[p].keys) = proc[p].total

TakeRow(p) ==
  /\ At(p, "row")
  /\ IF proc[p].at > Len(proc[p].rows)
     THEN End(p, IF Completed(p) THEN "complete" ELSE "incomplete")
     ELSE IF Row(p) \in proc[p].keys
          THEN proc' = [proc EXCEPT ![p].at = @ + 1]
          ELSE Go(p, "load")
  /\ UNCHANGED <<dir, Files, copies, Rest>>

(* mutant: an item that failed is completed too *)
CompleteAnyway(p) ==
  LET created == [copies EXCEPT ![Row(p)] = @ + 1] IN
  /\ At(p, "load") /\ Go(p, "append")
  /\ \/ copies' = created /\ UNCHANGED faults
     \/ Fault /\ copies' \in {copies, created}
  /\ UNCHANGED <<asked, dir, Files, overlapped>>

(* The item is created, or dropped when a request fails, which the server  *)
(* may have carried out.                                                   *)
LoadItem(p) ==
  LET created == [copies EXCEPT ![Row(p)] = @ + 1] IN
  /\ At(p, "load")
  /\ \/ Go(p, "append") /\ copies' = created /\ UNCHANGED faults
     \/ /\ Fault /\ copies' \in {copies, created}
        /\ proc' = [proc EXCEPT ![p].pc = "row", ![p].at = @ + 1]
  /\ UNCHANGED <<asked, dir, Files, overlapped>>

(* ItemLog.append(): the log is made when it is not there ...              *)
LookForLog(p) ==
  /\ At(p, "append")
  /\ Go(p, IF log = Absent THEN "log_open" ELSE "log_row")
  /\ UNCHANGED <<dir, Files, copies, Rest>>

(* ... which truncates it if somebody else has made it since, ...          *)
OpenLog(p) ==
  /\ At(p, "log_open") /\ Go(p, "log_header") /\ log' = <<>>
  /\ UNCHANGED <<dir, config, source, copies, Rest>>

(* mutant: no header is written *)
NoHeader(p) ==
  /\ At(p, "log_header") /\ Go(p, "log_row")
  /\ UNCHANGED <<dir, Files, copies, Rest>>

(* ... and puts the header over whatever has been appended since.          *)
WriteHeader(p) ==
  /\ At(p, "log_header") /\ Go(p, "log_row")
  /\ \/ log \in {Absent, <<>>} /\ log' = <<Header>>
     \/ log \notin {Absent, <<>>} /\ log[1] = Header /\ log' = log
     \/ /\ log \notin {Absent, <<>>} /\ log[1] # Header
        /\ log' \in {<<Header, Junk>> \o Tail(log), <<Header>> \o Tail(log)}
  /\ UNCHANGED <<dir, config, source, copies, Rest>>

(* mutant: the item is only remembered *)
KeyForgotten(p) ==
  /\ At(p, "log_row")
  /\ proc' = [proc EXCEPT ![p].pc = "row", ![p].at = @ + 1, ![p].keys = @ \cup {Row(p)}]
  /\ UNCHANGED <<dir, Files, copies, Rest>>

(* The line is appended at the end of the file as it is then.              *)
AppendRow(p) ==
  /\ At(p, "log_row") /\ log' = Append(log, Row(p))
  /\ proc' = [proc EXCEPT ![p].pc = "row", ![p].at = @ + 1, ![p].keys = @ \cup {Row(p)}]
  /\ UNCHANGED <<dir, config, source, copies, Rest>>

Crash(p) ==
  /\ Active(p) /\ Fault /\ End(p, "crashed")
  /\ UNCHANGED <<asked, dir, Files, copies, overlapped>>

-----------------------------------------------------------------------------
Step(p) ==
  \/ Look(p) \/ MakeDir(p) \/ OpenConfig(p) \/ WriteConfig(p) \/ Construct(p) \/ LoadConfig(p)
  \/ OpenConverted(p) \/ Convert(p) \/ OpenStore(p) \/ WriteStore(p) \/ OpenSource(p) \/ Rewind(p)
  \/ TakeRow(p) \/ LoadItem(p) \/ LookForLog(p) \/ OpenLog(p) \/ WriteHeader(p) \/ AppendRow(p)

Next == \E p \in Procs : Step(p) \/ Crash(p)

Spec == Init /\ [][Next]_vars
FairSpec == Spec /\ \A p \in Procs : WF_vars(Step(p))
-----------------------------------------------------------------------------
(* Properties. *)

TypeOK ==
  /\ asked \in Requests /\ dir \in BOOLEAN
  /\ config \in Procs \cup {Absent, Empty}
  /\ source \in Sources
  /\ log \in Seq(Items \cup {Header, Junk}) \cup {Absent}
  /\ log # Absent => \A k \in DOMAIN log : log[k] = Header => k = 1
  /\ copies \in [Items -> Nat]
  /\ proc \in [Procs -> [pc : Steps, keys : SUBSET (Items \cup {Junk}), rows : Seq(Items),
                         at : Nat \ {0}, total : Nat, result : Results]]
  /\ \A p \in Procs :
       proc[p].pc \in {"load", "append", "log_open", "log_header", "log_row"} =>
         proc[p].at \in DOMAIN proc[p].rows
  /\ overlapped \in BOOLEAN /\ faults \in 0..MaxFaults

Ended(p, results) == proc[p].result \in results

(* While no two commands are at work at once, an item is created once, and *)
(* once more for every crash or lost answer: the set of completed items in *)
(* memory and the log on disk make up for each other (logs.py:44-113).     *)
(* Only a crash between creating the log and writing its header costs      *)
(* more: the first line appended to it later is read as the header, so its *)
(* item is created again although it was logged.  Commands that do overlap *)
(* each create an item once, and once more for what fails.                 *)
HeaderLost == log \notin {Absent, <<>>} /\ log[1] # Header
DuplicatesNeedCause ==
  \A i \in Items :
    copies[i] <= faults + IF overlapped THEN Cardinality({p \in Procs : Kind(p) # "show"})
                          ELSE IF HeaderLost THEN 2 ELSE 1

(* Whoever reads the log, even while it is truncated and written by others *)
(* (logs.py:60-66), takes for completed only what is in the repository;    *)
(* and a complete verdict of a command, or of one that resumes after it,   *)
(* means that the whole of its file or batch is there, unless the log has  *)
(* items of another file or the conversion was cut short.                  *)
VerdictIsTrue ==
  /\ \A p \in Procs : proc[p].keys \cap Items \subseteq Loaded
  /\ \A p \in Procs : Ended(p, {"complete"}) /\ ~ overlapped /\ proc[p].keys \subseteq Range(proc[p].rows) =>
       /\ Range(proc[p].rows) \subseteq Loaded
       /\ File(p) \notin {Absent, Empty} => Range(File(p)) \subseteq Loaded
       /\ \A q \in Procs :
            /\ Kind(q) = "convert" /\ Ended(q, {"complete", "incomplete"})
            /\ File(p) = Absent /\ \A r \in Procs : Kind(r) = "resume" => File(r) = Absent
            => Range(File(q)) \subseteq Loaded

(* A job whose directory is there can be resumed: only a crash makes its   *)
(* log unreadable or its configuration useless, and only a crash, a        *)
(* conversion that failed or a command whose file has no rows its stored   *)
(* file; or else two commands that were at work at once                    *)
(* (jobs/__init__.py:39-42, logs.py:60-75, importjob/__init__.py:351-354). *)
Emptied == \E p \in Procs : File(p) \in {Empty, <<>>}
JobCanResume ==
  \A p \in Procs : Kind(p) = "resume" =>
    /\ Ended(p, {"no_config", "bad_log"}) => overlapped \/ \E q \in Procs : Ended(q, {"crashed"})
    /\ Ended(p, {"no_source", "bad_source"}) =>
         overlapped \/ Emptied \/ \E q \in Procs : Ended(q, {"crashed", "unread"})
    /\ File(p) # Absent => ~ Ended(p, {"no_source"})

(* A create command that is refused because the directory exists, as one   *)
(* delivered twice is, has been carried out all the same: the other one    *)
(* ends with a verdict, unless something fails (jobs/__init__.py:118).     *)
RefusedMeansDone ==
  \A p \in Procs : Ended(p, {"refused"}) ~>
    \/ overlapped \/ faults > 0
    \/ \E q \in Procs : Kind(q) \in {"create", "convert"} /\ Ended(q, {"complete", "incomplete"})
=============================================================================

------------------------- MODULE JobDirectoryProofs -------------------------
(***************************************************************************)
(* Proofs about JobDirectory, for any commands and faults: the types, how  *)
(* often an item is created by commands that meet in one directory, what a *)
(* complete verdict says, and when a job can be resumed.                   *)
(***************************************************************************)
EXTENDS JobDirectory, FiniteSetTheorems, TLAPS

InHandSteps == {"append", "log_open", "log_header", "log_row"}
Lines0 == Seq(Items \cup {Header, Junk})

Processes ==
  [pc : Steps, keys : SUBSET (Items \cup {Junk}), rows : Seq(Items),
   at : Nat \ {0}, total : Nat, result : Results]

(* What a step of a process says about its request, its row and the files. *)
Shape(p) ==
  /\ proc[p].pc \in {"store_open", "store_write"} => File(p) # Absent
  /\ proc[p].pc \in {"convert_open", "convert"} => Kind(p) = "convert"
  /\ proc[p].pc = "rewind" => source # Absent
  /\ proc[p].pc \in {"log_header", "log_row"} => log # Absent
  /\ proc[p].pc \notin {"start", "construct", "load_config", "open", "end"} => Kind(p) # "show"
  /\ proc[p].pc \in {"start", "mkdir", "config_open", "config_write", "construct"} =>
       proc[p].keys = {}
  /\ proc[p].pc = "load" => Row(p) \notin proc[p].keys
Shapes == \A p \in Procs : Shape(p)

JobInv == TypeOK /\ Shapes

(* An item that was created is in the keys of the process that created it, *)
(* or in its hand, or something has failed.                                *)
InHand(p, i) == proc[p].pc \in InHandSteps /\ Row(p) = i
Made(i) == {p \in Procs : Kind(p) # "show" /\ (i \in proc[p].keys \/ InHand(p, i))}
PaidTogether == \A i \in Items : copies[i] <= faults + Cardinality(Made(i))

(* As long as commands come one after the other: the one at work knows     *)
(* what is in the log, finds it as it saw it, and what was created is in   *)
(* the log, as an item or as its header, or in hand, or something failed.  *)
Working(p) == Active(p) /\ Kind(p) # "show"
Logged == {Lines(log)[k] : k \in DOMAIN Lines(log)}
HeadItem(i) == log \notin {Absent, <<>>} /\ log[1] = i
Kept(i) == i \in Logged \/ \E p \in Procs : InHand(p, i)

OneCommand == \A p, q \in Procs : Working(p) /\ Working(q) => p = q
KnowsLog(p) ==
  proc[p].pc \notin {"mkdir", "config_open", "config_write", "construct"} => Logged \subseteq proc[p].keys
LogAsSeen(p) ==
  (proc[p].pc = "log_open" => log = Absent) /\ (proc[p].pc = "log_header" => log = <<>>)
CopiesPaid ==
  \A i \in Items :
    copies[i] <= faults + (IF HeadItem(i) THEN 1 ELSE 0) + (IF Kept(i) THEN 1 ELSE 0)
Alone ==
  ~ overlapped =>
    /\ OneCommand /\ CopiesPaid
    /\ \A p \in Procs : Working(p) => KnowsLog(p) /\ LogAsSeen(p)

CountInv == JobInv /\ PaidTogether /\ Alone

-----------------------------------------------------------------------------
LEMMA FileTypes ==
  ASSUME TypeOK, NEW p \in Procs
  PROVE  /\ File(p) \in Sources /\ Kind(p) \in Kinds
         /\ Kind(p) = "convert" => File(p) \in Seq(Items)
BY RequestAssumption DEF TypeOK, File, Kind

LEMMA ProcFacts ==
  ASSUME TypeOK, NEW p \in Procs
  PROVE  proc[p] \in Processes /\ proc \in [Procs -> Processes]
BY DEF TypeOK, Processes

(* A process comes to a new state, and nothing else changes but files. *)
LEMMA Typed ==
  ASSUME TypeOK, NEW p \in Procs, NEW st \in Processes, proc' = [proc EXCEPT ![p] = st],
         st.pc \in {"load"} \cup InHandSteps => st.at \in DOMAIN st.rows,
         asked' = asked, dir' \in BOOLEAN, overlapped' \in BOOLEAN, faults' \in 0..MaxFaults,
         config' \in Procs \cup {Absent, Empty}, source' \in Sources,
         log' \in Seq(Items \cup {Header, Junk}) \cup {Absent},
         log' # Absent => \A k \in DOMAIN log' : log'[k] = Header => k = 1,
         copies' \in [Items -> Nat]
  PROVE  TypeOK'
<1>1. proc' \in [Procs -> Processes]
  BY ProcFacts
<1>2. ASSUME NEW q \in Procs, proc'[q].pc \in {"load", "append", "log_open", "log_header", "log_row"}
      PROVE  proc'[q].at \in DOMAIN proc'[q].rows
  <2>1. CASE q = p
    BY <1>2, <2>1 DEF TypeOK, InHandSteps
  <2>2. CASE q # p
    <3>1. proc'[q] = proc[q]
      BY <2>2 DEF TypeOK
    <3> QED BY <1>2, <3>1 DEF TypeOK
  <2> QED BY <2>1, <2>2
<1>3. asked' \in Requests
  BY DEF TypeOK
<1> QED BY <1>1, <1>2, <1>3 DEF TypeOK, Processes

LEMMA FaultTypes == ASSUME TypeOK, Fault PROVE faults' \in 0..MaxFaults /\ faults' = faults + 1
BY RequestAssumption DEF TypeOK, Fault

LEMMA GoState ==
  ASSUME TypeOK, NEW p \in Procs, NEW pc \in Steps, Go(p, pc)
  PROVE  /\ proc' = [proc EXCEPT ![p] = [proc[p] EXCEPT !.pc = pc]]
         /\ [proc[p] EXCEPT !.pc = pc] \in Processes
BY ProcFacts DEF Go, Processes

LEMMA EndState ==
  ASSUME TypeOK, NEW p \in Procs, NEW result \in Results, End(p, result)
  PROVE  /\ proc' = [proc EXCEPT ![p] = [proc[p] EXCEPT !.pc = "end", !.result = result]]
         /\ [proc[p] EXCEPT !.pc = "end", !.result = result] \in Processes
<1>1. "end" \in Steps
  BY DEF Steps
<1> QED BY <1>1, ProcFacts DEF End, Processes

(* A step that ends the process or goes on to another that needs no row.   *)
LEMMA GoTypes ==
  ASSUME TypeOK, NEW p \in Procs,
         NEW pc \in Steps, pc \notin {"load"} \cup InHandSteps, Go(p, pc),
         asked' = asked, dir' \in BOOLEAN, overlapped' \in BOOLEAN, faults' \in 0..MaxFaults,
         config' \in Procs \cup {Absent, Empty}, source' \in Sources,
         log' = log, copies' = copies
  PROVE  TypeOK'
<1> DEFINE st == [proc[p] EXCEPT !.pc = pc]
<1>1. proc' = [proc EXCEPT ![p] = st] /\ st \in Processes /\ st.pc = pc
  BY GoState, ProcFacts DEF Processes
<1> HIDE DEF st
<1> QED BY <1>1, Typed DEF TypeOK

LEMMA EndTypes ==
  ASSUME TypeOK, NEW p \in Procs,
         NEW result \in Results, End(p, result),
         asked' = asked, dir' \in BOOLEAN, overlapped' \in BOOLEAN, faults' \in 0..MaxFaults,
         config' \in Procs \cup {Absent, Empty}, source' \in Sources,
         log' = log, copies' = copies
  PROVE  TypeOK'
<1> DEFINE st == [proc[p] EXCEPT !.pc = "end", !.result = result]
<1>1. proc' = [proc EXCEPT ![p] = st] /\ st \in Processes /\ st.pc = "end"
  BY EndState, ProcFacts DEF Processes
<1> HIDE DEF st
<1> QED BY <1>1, Typed DEF TypeOK, InHandSteps

-----------------------------------------------------------------------------
LEMMA LookTypes == ASSUME TypeOK, NEW p \in Procs, Look(p) PROVE TypeOK'
<1>1. /\ asked' = asked /\ dir' = dir /\ config' = config /\ source' = source /\ log' = log
      /\ copies' = copies /\ faults' = faults /\ overlapped' \in BOOLEAN
  BY DEF Look, Files, TypeOK
<1>2. \/ End(p, "refused") \/ End(p, "not_found") \/ Go(p, "mkdir") \/ Go(p, "construct")
  BY DEF Look
<1>3. /\ "refused" \in Results /\ "not_found" \in Results
      /\ {"mkdir", "construct"} \subseteq Steps \ ({"load"} \cup InHandSteps)
  BY DEF Results, Steps, InHandSteps
<1> QED BY <1>1, <1>2, <1>3, GoTypes, EndTypes DEF TypeOK

LEMMA MakeDirTypes == ASSUME TypeOK, NEW p \in Procs, MakeDir(p) PROVE TypeOK'
<1>1. "config_open" \in Steps \ ({"load"} \cup InHandSteps)
  BY DEF Steps, InHandSteps
<1> QED BY <1>1, GoTypes DEF MakeDir, Files, Rest, TypeOK

LEMMA ConfigTypes ==
  ASSUME TypeOK, NEW p \in Procs, OpenConfig(p) \/ WriteConfig(p) PROVE TypeOK'
<1>1. {"config_write", "construct"} \subseteq Steps \ ({"load"} \cup InHandSteps)
  BY DEF Steps, InHandSteps
<1> QED BY <1>1, GoTypes DEF OpenConfig, WriteConfig, Rest, TypeOK

(* The lines below the first are items or halves of lines. *)
LEMMA LinesTypes ==
  ASSUME TypeOK, NEW k \in DOMAIN Lines(log)
  PROVE  /\ Lines(log)[k] \in Items \cup {Junk}
         /\ log # Absent /\ k + 1 \in DOMAIN log /\ k \in Nat \ {0} /\ Lines(log)[k] = log[k + 1]
<1>1. log \notin {Absent, <<>>} /\ log \in Seq(Items \cup {Header, Junk}) /\ Lines(log) = Tail(log)
  BY DEF Lines, TypeOK
<1>2. k \in 1..Len(log) - 1 /\ Tail(log)[k] = log[k + 1] /\ k + 1 \in DOMAIN log
  BY <1>1
<1>3. log[k + 1] # Header /\ log[k + 1] \in Items \cup {Header, Junk}
  BY <1>1, <1>2 DEF TypeOK
<1> QED BY <1>1, <1>2, <1>3

LEMMA ReadKeysState ==
  ASSUME TypeOK, NEW p \in Procs, ReadKeys(p)
  PROVE  \E keys \in SUBSET (Items \cup {Junk}) :
           /\ keys = {Lines(log)[k] : k \in DOMAIN Lines(log)}
           /\ proc' = [proc EXCEPT ![p] = [proc[p] EXCEPT !.pc = "load_config", !.keys = keys]]
           /\ [proc[p] EXCEPT !.pc = "load_config", !.keys = keys] \in Processes
<1> DEFINE keys == {Lines(log)[k] : k \in DOMAIN Lines(log)}
<1>1. keys \in SUBSET (Items \cup {Junk})
  BY LinesTypes
<1>2. proc' = [proc EXCEPT ![p].pc = "load_config", ![p].keys = keys]
  BY DEF ReadKeys
<1>3. "load_config" \in Steps
  BY DEF Steps
<1> HIDE DEF keys
<1>4. proc' = [proc EXCEPT ![p] = [proc[p] EXCEPT !.pc = "load_config", !.keys = keys]]
  BY <1>2, ProcFacts
<1>5. [proc[p] EXCEPT !.pc = "load_config", !.keys = keys] \in Processes
  BY <1>1, <1>3, ProcFacts DEF Processes
<1> QED BY <1>1, <1>4, <1>5 DEF keys

LEMMA ConstructTypes == ASSUME TypeOK, NEW p \in Procs, Construct(p) PROVE TypeOK'
<1>1. CASE End(p, "bad_log")
  <2>1. "bad_log" \in Results
    BY DEF Results
  <2> QED BY <1>1, <2>1, EndTypes DEF Construct, Files, Rest, TypeOK
<1>2. CASE ReadKeys(p)
  <2>1. PICK keys \in SUBSET (Items \cup {Junk}) :
           /\ proc' = [proc EXCEPT ![p] = [proc[p] EXCEPT !.pc = "load_config", !.keys = keys]]
           /\ [proc[p] EXCEPT !.pc = "load_config", !.keys = keys] \in Processes
    BY <1>2, ReadKeysState
  <2> DEFINE st == [proc[p] EXCEPT !.pc = "load_config", !.keys = keys]
  <2>2. st \in Processes /\ st.pc = "load_config" /\ proc' = [proc EXCEPT ![p] = st]
    BY <2>1, ProcFacts DEF Processes
  <2> HIDE DEF st
  <2> QED BY <2>2, Typed DEF Construct, Files, Rest, TypeOK, InHandSteps
<1> QED BY <1>1, <1>2 DEF Construct

LEMMA LoadConfigTypes == ASSUME TypeOK, NEW p \in Procs, LoadConfig(p) PROVE TypeOK'
<1>1. "no_config" \in Results /\ {"convert_open", "open", "store_open"} \subseteq Steps \ ({"load"} \cup InHandSteps)
  BY DEF Results, Steps, InHandSteps
<1>2. End(p, "no_config") \/ Go(p, "convert_open") \/ Go(p, "open") \/ Go(p, "store_open")
  BY DEF LoadConfig
<1> QED BY <1>1, <1>2, GoTypes, EndTypes DEF LoadConfig, Files, Rest, TypeOK

LEMMA EmptyTypes ==
  TypeOK => /\ Absent # Empty /\ Absent \in Sources /\ Empty \in Sources
            /\ Seq(Items) \subseteq Sources /\ Seq(Items) \subseteq Seq(Items \cup {Header, Junk})
            /\ Absent \notin Seq(Items) /\ Empty \notin Seq(Items) /\ <<>> # Absent
<1>1. Seq(Items) \subseteq Seq(Items \cup {Header, Junk})
  OBVIOUS
<1>2. <<>> \in Seq(Items)
  OBVIOUS
<1> QED BY <1>1, <1>2, RequestAssumption DEF Sources

LEMMA OpenFileTypes ==
  ASSUME TypeOK, NEW p \in Procs, OpenConverted(p) \/ OpenStore(p) PROVE TypeOK'
<1>1. {"convert", "store_write"} \subseteq Steps \ ({"load"} \cup InHandSteps)
  BY DEF Steps, InHandSteps
<1> QED BY <1>1, GoTypes, EmptyTypes DEF OpenConverted, OpenStore, Rest, TypeOK

LEMMA WriteStoreTypes ==
  ASSUME TypeOK, NEW p \in Procs, WriteStore(p) PROVE TypeOK'
<1>1. "open" \in Steps \ ({"load"} \cup InHandSteps)
  BY DEF Steps, InHandSteps
<1> QED BY <1>1, GoTypes, FileTypes DEF WriteStore, Rest, TypeOK

LEMMA ConvertTypes ==
  ASSUME TypeOK, NEW p \in Procs, Shape(p), Convert(p) PROVE TypeOK'
<1> DEFINE done == proc[p].rows
           k == Len(done) + 1
<1>1. proc[p] \in Processes /\ done \in Seq(Items) /\ k \in Nat \ {0} /\ proc[p].pc = "convert"
  BY ProcFacts DEF Processes, Convert, At
<1>2. File(p) \in Seq(Items)
  BY <1>1, FileTypes DEF Shape
<1>3. done \in Sources /\ <<>> \in Seq(Items)
  BY <1>1, EmptyTypes
<1>4. UNCHANGED <<asked, dir, config, log, copies, overlapped>>
  BY DEF Convert
<1>5. CASE /\ k <= Len(File(p)) /\ UNCHANGED faults
           /\ proc' = [proc EXCEPT ![p].rows = Append(done, File(p)[k])]
           /\ source' \in {source, done}
  <2>1. Append(done, File(p)[k]) \in Seq(Items)
    BY <1>1, <1>2, <1>5
  <2> DEFINE st == [proc[p] EXCEPT !.rows = Append(done, File(p)[k])]
  <2>2. proc' = [proc EXCEPT ![p] = st]
    BY <1>5, ProcFacts
  <2>3. st \in Processes /\ st.pc = "convert"
    BY <1>1, <2>1 DEF Processes
  <2> HIDE DEF st
  <2> QED BY <1>3, <1>4, <1>5, <2>2, <2>3, Typed DEF TypeOK, InHandSteps
<1>6. CASE /\ k > Len(File(p)) /\ source' = done /\ UNCHANGED faults
           /\ proc' = [proc EXCEPT ![p].pc = "open", ![p].rows = <<>>]
  <2>1. "open" \in Steps
    BY DEF Steps
  <2> DEFINE st == [proc[p] EXCEPT !.pc = "open", !.rows = <<>>]
  <2>2. proc' = [proc EXCEPT ![p] = st]
    BY <1>6, ProcFacts
  <2>3. st \in Processes /\ st.pc = "open"
    BY <1>1, <1>3, <2>1 DEF Processes
  <2> HIDE DEF st
  <2> QED BY <1>3, <1>4, <1>6, <2>2, <2>3, Typed DEF TypeOK, InHandSteps
<1>7. CASE Fault /\ End(p, "unread") /\ source' = done
  <2>1. "unread" \in Results
    BY DEF Results
  <2> QED BY <1>3, <1>4, <1>7, <2>1, EndTypes, FaultTypes DEF TypeOK
<1> QED BY <1>5, <1>6, <1>7 DEF Convert

LEMMA OpenSourceTypes ==
  ASSUME TypeOK, NEW p \in Procs, OpenSource(p) PROVE TypeOK'
<1>1. {"no_source", "bad_source", "shown"} \subseteq Results /\ "rewind" \in Steps
  BY DEF Results, Steps
<1>2. CASE End(p, "no_source") \/ End(p, "bad_source") \/ End(p, "shown")
  BY <1>1, <1>2, EndTypes DEF OpenSource, Files, Rest, TypeOK
<1>3. CASE /\ source \notin {Absent, Empty}
           /\ proc' = [proc EXCEPT ![p].pc = "rewind", ![p].total = Len(source)]
  <2>1. Len(source) \in Nat
    BY <1>3 DEF TypeOK, Sources
  <2> DEFINE st == [proc[p] EXCEPT !.pc = "rewind", !.total = Len(source)]
  <2>2. proc' = [proc EXCEPT ![p] = st]
    BY <1>3, ProcFacts
  <2>3. st \in Processes /\ st.pc = "rewind"
    BY <1>1, <2>1, ProcFacts DEF Processes
  <2> HIDE DEF st
  <2> QED BY <2>2, <2>3, Typed DEF OpenSource, Files, Rest, TypeOK, InHandSteps
<1> QED BY <1>2, <1>3 DEF OpenSource

LEMMA RewindTypes ==
  ASSUME TypeOK, NEW p \in Procs, Shape(p), Rewind(p) PROVE TypeOK'
<1> DEFINE rows == IF source = Empty THEN <<>> ELSE source
           st == [proc[p] EXCEPT !.pc = "row", !.rows = rows]
<1>1. rows \in Seq(Items)
  BY DEF Shape, Rewind, At, TypeOK, Sources
<1>2. proc' = [proc EXCEPT ![p] = st]
  BY ProcFacts DEF Rewind
<1>3. "row" \in Steps
  BY DEF Steps
<1> HIDE DEF rows
<1>4. st \in Processes /\ st.pc = "row"
  BY <1>1, <1>3, ProcFacts DEF Processes
<1> HIDE DEF st
<1> QED BY <1>2, <1>4, Typed DEF Rewind, Files, Rest, TypeOK, InHandSteps

LEMMA TakeRowTypes ==
  ASSUME TypeOK, NEW p \in Procs, TakeRow(p) PROVE TypeOK'
<1>1. {"complete", "incomplete"} \subseteq Results /\ "load" \in Steps
  BY DEF Results, Steps
<1>2. proc[p] \in Processes /\ proc[p].pc = "row" /\ proc[p].at \in Nat \ {0}
      /\ UNCHANGED <<asked, dir, overlapped, faults, config, source, log, copies>>
  BY ProcFacts DEF TakeRow, At, Files, Rest, Processes
<1>3. CASE End(p, "complete") \/ End(p, "incomplete")
  BY <1>1, <1>2, <1>3, EndTypes DEF TypeOK
<1>4. CASE proc' = [proc EXCEPT ![p].at = @ + 1]
  <2> DEFINE st == [proc[p] EXCEPT !.at = @ + 1]
  <2>1. proc' = [proc EXCEPT ![p] = st]
    BY <1>4, ProcFacts
  <2>2. st \in Processes /\ st.pc = "row"
    BY <1>2 DEF Processes
  <2> HIDE DEF st
  <2> QED BY <1>2, <2>1, <2>2, Typed DEF TypeOK, InHandSteps
<1>5. CASE proc[p].at <= Len(proc[p].rows) /\ Go(p, "load")
  <2> DEFINE st == [proc[p] EXCEPT !.pc = "load"]
  <2>1. proc' = [proc EXCEPT ![p] = st] /\ st \in Processes
    BY <1>1, <1>5, GoState
  <2>2. st.at \in DOMAIN st.rows
    BY <1>2, <1>5 DEF Processes
  <2> HIDE DEF st
  <2> QED BY <1>2, <2>1, <2>2, Typed DEF TypeOK, InHandSteps
<1>6. proc[p].at \in Nat /\ Len(proc[p].rows) \in Nat
  BY <1>2 DEF Processes
<1> QED BY <1>3, <1>4, <1>5, <1>6 DEF TakeRow

(* A step with a row in hand, to the next step or the next row. *)
LEMMA RowFacts ==
  ASSUME TypeOK, NEW p \in Procs, proc[p].pc \in {"load"} \cup InHandSteps
  PROVE  /\ proc[p] \in Processes /\ proc[p].at \in DOMAIN proc[p].rows
         /\ Row(p) \in Items
BY ProcFacts DEF TypeOK, InHandSteps, Processes, Row

LEMMA HandTypes ==
  ASSUME TypeOK, NEW p \in Procs, proc[p].pc \in {"load"} \cup InHandSteps,
         NEW pc \in Steps, Go(p, pc),
         asked' = asked, dir' = dir, overlapped' = overlapped, faults' \in 0..MaxFaults,
         config' = config, source' = source, copies' \in [Items -> Nat],
         log' \in Seq(Items \cup {Header, Junk}) \cup {Absent},
         log' # Absent => \A k \in DOMAIN log' : log'[k] = Header => k = 1
  PROVE  TypeOK'
<1> DEFINE st == [proc[p] EXCEPT !.pc = pc]
<1>1. proc' = [proc EXCEPT ![p] = st] /\ st \in Processes
  BY GoState
<1>2. st.at \in DOMAIN st.rows
  BY RowFacts DEF Processes
<1> HIDE DEF st
<1> QED BY <1>1, <1>2, Typed DEF TypeOK

LEMMA NextRowTypes ==
  ASSUME TypeOK, NEW p \in Procs, NEW keys \in SUBSET (Items \cup {Junk}),
         proc' = [proc EXCEPT ![p].pc = "row", ![p].at = @ + 1, ![p].keys = keys],
         asked' = asked, dir' = dir, overlapped' = overlapped, faults' \in 0..MaxFaults,
         config' = config, source' = source, copies' \in [Items -> Nat],
         log' \in Seq(Items \cup {Header, Junk}) \cup {Absent},
         log' # Absent => \A k \in DOMAIN log' : log'[k] = Header => k = 1
  PROVE  TypeOK'
<1> DEFINE st == [proc[p] EXCEPT !.pc = "row", !.at = @ + 1, !.keys = keys]
<1>1. proc' = [proc EXCEPT ![p] = st]
  BY ProcFacts
<1>2. "row" \in Steps
  BY DEF Steps
<1>3. st \in Processes /\ st.pc = "row"
  BY <1>2, ProcFacts DEF Processes
<1> HIDE DEF st
<1> QED BY <1>1, <1>3, Typed DEF TypeOK, InHandSteps

(* What LoadItem may do to the number of copies. *)
LEMMA LoadItemCases ==
  ASSUME TypeOK, NEW p \in Procs, LoadItem(p)
  PROVE  LET created == [copies EXCEPT ![Row(p)] = @ + 1] IN
         /\ proc[p].pc = "load" /\ created \in [Items -> Nat]
         /\ UNCHANGED <<asked, dir, config, source, log, overlapped>>
         /\ \/ Go(p, "append") /\ copies' = created /\ faults' = faults
            \/ /\ Fault /\ copies' \in {copies, created}
               /\ proc' = [proc EXCEPT ![p].pc = "row", ![p].at = @ + 1]
<1>1. proc[p].pc = "load" /\ Row(p) \in Items
  BY RowFacts DEF LoadItem, At
<1>2. [copies EXCEPT ![Row(p)] = @ + 1] \in [Items -> Nat]
  BY <1>1 DEF TypeOK
<1> QED BY <1>1, <1>2 DEF LoadItem, Files

LEMMA LoadItemTypes == ASSUME TypeOK, NEW p \in Procs, LoadItem(p) PROVE TypeOK'
<1> DEFINE created == [copies EXCEPT ![Row(p)] = @ + 1]
<1>1. /\ proc[p].pc = "load" /\ created \in [Items -> Nat]
      /\ UNCHANGED <<asked, dir, config, source, log, overlapped>>
      /\ \/ Go(p, "append") /\ copies' = created /\ faults' = faults
         \/ /\ Fault /\ copies' \in {copies, created}
            /\ proc' = [proc EXCEPT ![p].pc = "row", ![p].at = @ + 1]
  BY LoadItemCases
<1> HIDE DEF created
<1>2. CASE Go(p, "append") /\ copies' = created /\ faults' = faults
  <2>1. "append" \in Steps
    BY DEF Steps
  <2> QED BY <1>1, <1>2, <2>1, HandTypes DEF TypeOK
<1>3. CASE /\ Fault /\ copies' \in {copies, created}
           /\ proc' = [proc EXCEPT ![p].pc = "row", ![p].at = @ + 1]
  <2>1. proc' = [proc EXCEPT ![p].pc = "row", ![p].at = @ + 1, ![p].keys = proc[p].keys]
    <3>1. proc \in [Procs -> Processes] /\ proc[p] \in Processes
      BY ProcFacts
    <3> QED BY <1>3, <3>1 DEF Processes
  <2>2. proc[p].keys \in SUBSET (Items \cup {Junk})
    BY ProcFacts DEF Processes
  <2>3. /\ faults' \in 0..MaxFaults /\ copies' \in [Items -> Nat]
        /\ log \in Seq(Items \cup {Header, Junk}) \cup {Absent}
        /\ log # Absent => \A k \in DOMAIN log : log[k] = Header => k = 1
    BY <1>1, <1>3, FaultTypes DEF TypeOK
  <2> QED BY <1>1, <2>1, <2>2, <2>3, NextRowTypes
<1> QED BY <1>1, <1>2, <1>3

LEMMA LogFileTypes ==
  ASSUME TypeOK, NEW p \in Procs, LookForLog(p) \/ OpenLog(p) PROVE TypeOK'
<1>1. {"log_open", "log_header", "log_row"} \subseteq Steps
  BY DEF Steps
<1>2. <<>> \in Seq(Items \cup {Header, Junk}) /\ DOMAIN <<>> = {}
  OBVIOUS
<1>3. proc[p].pc \in InHandSteps /\ UNCHANGED <<asked, dir, config, source, copies, overlapped, faults>>
  BY DEF LookForLog, OpenLog, At, InHandSteps, Files, Rest
<1>4. CASE LookForLog(p)
  BY <1>1, <1>3, <1>4, HandTypes DEF LookForLog, Files, TypeOK
<1>5. CASE OpenLog(p)
  BY <1>1, <1>2, <1>3, <1>5, HandTypes DEF OpenLog, TypeOK
<1> QED BY <1>4, <1>5

(* Only the first line may be the header. *)
HeaderFirst(file) == \A k \in DOMAIN file : file[k] = Header => k = 1

LEMMA HeaderTypes ==
  ASSUME TypeOK, NEW p \in Procs, WriteHeader(p)
  PROVE  log' \in Seq(Items \cup {Header, Junk}) /\ HeaderFirst(log')
<1> DEFINE Line == Items \cup {Header, Junk}
<1>1. CASE log \in {Absent, <<>>}
  <2>1. log' = <<Header>>
    BY <1>1 DEF WriteHeader
  <2> QED BY <2>1 DEF HeaderFirst
<1>2. CASE log \notin {Absent, <<>>} /\ log[1] = Header
  <2>1. log' = log
    BY <1>2 DEF WriteHeader
  <2> QED BY <1>2, <2>1 DEF TypeOK, HeaderFirst
<1>3. CASE log \notin {Absent, <<>>} /\ log[1] # Header
  <2>1. log \in Seq(Line) /\ log # <<>> /\ HeaderFirst(log)
    BY <1>3 DEF TypeOK, HeaderFirst
  <2>2. Tail(log) \in Seq(Line) /\ \A k \in DOMAIN Tail(log) : Tail(log)[k] # Header
    <3>1. ASSUME NEW k \in DOMAIN Tail(log) PROVE Tail(log)[k] # Header
      <4>1. k \in 1..Len(log) - 1 /\ Tail(log)[k] = log[k + 1] /\ k + 1 \in DOMAIN log
        BY <2>1
      <4> QED BY <2>1, <4>1 DEF HeaderFirst
    <3> QED BY <2>1, <3>1
  <2> DEFINE t == Tail(log)
  <2>3. t \in Seq(Line) /\ \A k \in DOMAIN t : t[k] # Header
    BY <2>2
  <2>4. log' \in {<<Header, Junk>> \o t, <<Header>> \o t}
    BY <1>3 DEF WriteHeader
  <2> HIDE DEF t
  <2>5. ASSUME NEW first \in {<<Header, Junk>>, <<Header>>}, log' = first \o t
        PROVE  log' \in Seq(Line) /\ HeaderFirst(log')
    <3>1. first \in Seq(Line) /\ \A k \in 1..Len(first) : first[k] = Header => k = 1
      <4>1. CASE first = <<Header, Junk>>
        BY <4>1, RequestAssumption
      <4>2. CASE first = <<Header>>
        BY <4>2
      <4> QED BY <2>5, <4>1, <4>2
    <3>2. log' \in Seq(Line)
      BY <2>3, <2>5, <3>1
    <3>3. ASSUME NEW k \in DOMAIN log', log'[k] = Header PROVE k = 1
      <4>1. CASE k <= Len(first)
        <5>1. log'[k] = first[k] /\ k \in 1..Len(first)
          BY <2>3, <2>5, <3>1, <3>3, <4>1
        <5> QED BY <3>1, <3>3, <5>1
      <4>2. CASE ~ (k <= Len(first))
        <5>1. log'[k] = t[k - Len(first)] /\ k - Len(first) \in DOMAIN t
          BY <2>3, <2>5, <3>1, <3>3, <4>2
        <5> QED BY <2>3, <3>3, <5>1
      <4> QED BY <4>1, <4>2
    <3> QED BY <3>2, <3>3 DEF HeaderFirst
  <2> QED BY <2>4, <2>5
<1> QED BY <1>1, <1>2, <1>3

LEMMA WriteHeaderTypes == ASSUME TypeOK, NEW p \in Procs, WriteHeader(p) PROVE TypeOK'
<1>1. "log_row" \in Steps /\ proc[p].pc \in InHandSteps
  BY DEF Steps, WriteHeader, At, InHandSteps
<1> QED BY <1>1, HeaderTypes, HandTypes DEF WriteHeader, Rest, HeaderFirst, TypeOK

LEMMA AppendRowFacts ==
  ASSUME TypeOK, NEW p \in Procs, Shape(p), AppendRow(p)
  PROVE  /\ Row(p) \in Items /\ log \in Seq(Items \cup {Header, Junk})
         /\ log' = Append(log, Row(p))
         /\ log' \in Seq(Items \cup {Header, Junk}) /\ HeaderFirst(log')
<1>1. proc[p].pc = "log_row" /\ log' = Append(log, Row(p))
  BY DEF AppendRow, At
<1>2. Row(p) \in Items /\ log \in Seq(Items \cup {Header, Junk}) /\ HeaderFirst(log)
  BY <1>1, RowFacts DEF InHandSteps, Shape, TypeOK, HeaderFirst
<1>3. log' \in Seq(Items \cup {Header, Junk})
  BY <1>1, <1>2
<1>4. ASSUME NEW k \in DOMAIN log', log'[k] = Header PROVE k = 1
  <2>1. CASE k \in DOMAIN log
    BY <1>1, <1>2, <1>4, <2>1 DEF HeaderFirst
  <2>2. CASE k \notin DOMAIN log
    <3>1. log'[k] = Row(p)
      BY <1>1, <1>2, <1>4, <2>2
    <3> QED BY <1>2, <1>4, <3>1, RequestAssumption
  <2> QED BY <2>1, <2>2
<1> QED BY <1>1, <1>2, <1>3, <1>4 DEF HeaderFirst

LEMMA AppendRowTypes == ASSUME TypeOK, NEW p \in Procs, Shape(p), AppendRow(p) PROVE TypeOK'
<1> DEFINE keys == proc[p].keys \cup {Row(p)}
<1>1. Row(p) \in Items /\ log' \in Seq(Items \cup {Header, Junk}) /\ HeaderFirst(log')
  BY AppendRowFacts
<1>2. keys \in SUBSET (Items \cup {Junk})
  BY <1>1, ProcFacts DEF Processes
<1>3. proc' = [proc EXCEPT ![p].pc = "row", ![p].at = @ + 1, ![p].keys = keys]
  BY ProcFacts DEF AppendRow
<1> HIDE DEF keys
<1> QED BY <1>1, <1>2, <1>3, NextRowTypes DEF AppendRow, Rest, HeaderFirst, TypeOK

LEMMA CrashTypes == ASSUME TypeOK, NEW p \in Procs, Crash(p) PROVE TypeOK'
<1>1. "crashed" \in Results
  BY DEF Results
<1> QED BY <1>1, EndTypes, FaultTypes DEF Crash, Files, TypeOK

LEMMA StepTypes ==
  ASSUME JobInv, NEW p \in Procs, Step(p) \/ Crash(p) PROVE TypeOK'
<1>1. TypeOK /\ Shape(p)
  BY DEF JobInv, Shapes
<1> QED BY <1>1, LookTypes, MakeDirTypes, ConfigTypes, ConstructTypes, LoadConfigTypes,
  OpenFileTypes, WriteStoreTypes, ConvertTypes, OpenSourceTypes, RewindTypes, TakeRowTypes,
  LoadItemTypes, LogFileTypes, WriteHeaderTypes, AppendRowTypes, CrashTypes DEF Step

-----------------------------------------------------------------------------
(* Shapes.  A process is changed by its own steps only, and a file that is *)
(* there stays there.                                                      *)
LEMMA ProcAfter ==
  ASSUME TypeOK, NEW p \in Procs
  PROVE  /\ \A pc : Go(p, pc) => proc'[p] = [proc[p] EXCEPT !.pc = pc]
         /\ \A result : End(p, result) =>
              proc'[p] = [proc[p] EXCEPT !.pc = "end", !.result = result]
         /\ \A pc : Go(p, pc) => \A q \in Procs \ {p} : proc'[q] = proc[q]
         /\ \A result : End(p, result) => \A q \in Procs \ {p} : proc'[q] = proc[q]
BY ProcFacts DEF Go, End

LEMMA Others ==
  ASSUME JobInv, NEW p \in Procs, Step(p) \/ Crash(p)
  PROVE  /\ asked' = asked /\ \A q \in Procs \ {p} : proc'[q] = proc[q]
         /\ source # Absent => source' # Absent
         /\ log # Absent => log' # Absent
<1>0. TypeOK /\ Shape(p) /\ proc \in [Procs -> Processes]
  BY ProcFacts DEF JobInv, Shapes
<1>1. asked' = asked
  BY DEF Step, Crash, Look, MakeDir, OpenConfig, WriteConfig, Construct, LoadConfig,
     OpenConverted, Convert, OpenStore, WriteStore, OpenSource, Rewind, TakeRow, LoadItem,
     LookForLog, OpenLog, WriteHeader, AppendRow, Rest
<1>2. \A q \in Procs \ {p} : proc'[q] = proc[q]
  BY <1>0, ProcAfter DEF Step, Crash, Look, MakeDir, OpenConfig, WriteConfig, Construct, ReadKeys,
     LoadConfig, OpenConverted, Convert, OpenStore, WriteStore, OpenSource, Rewind, TakeRow,
     LoadItem, LookForLog, OpenLog, WriteHeader, AppendRow
<1>3. source # Absent => source' # Absent
  <2>1. CASE Convert(p)
    <3>1. source' \in {source, proc[p].rows}
      BY <2>1 DEF Convert
    <3> QED BY <1>0, <3>1, EmptyTypes DEF Processes
  <2>2. CASE WriteStore(p)
    BY <1>0, <2>2 DEF WriteStore, At, Shape
  <2>3. CASE OpenConverted(p) \/ OpenStore(p)
    BY <2>3, RequestAssumption DEF OpenConverted, OpenStore
  <2>4. CASE source' = source
    BY <2>4
  <2> QED
    BY <2>1, <2>2, <2>3, <2>4 DEF Step, Crash, Look, MakeDir, OpenConfig, WriteConfig, Construct,
       LoadConfig, OpenSource, Rewind, TakeRow, LoadItem, LookForLog, OpenLog, WriteHeader,
       AppendRow, Files
<1>4. log # Absent => log' # Absent
  <2>1. Absent \notin Seq(Items \cup {Header, Junk})
    BY RequestAssumption
  <2>2. CASE OpenLog(p)
    BY <1>0, <2>2, EmptyTypes DEF OpenLog
  <2>3. CASE WriteHeader(p)
    BY <1>0, <2>1, <2>3, HeaderTypes
  <2>4. CASE AppendRow(p)
    BY <1>0, <2>1, <2>4, AppendRowFacts
  <2>5. CASE log' = log
    BY <2>5
  <2> QED
    BY <2>2, <2>3, <2>4, <2>5 DEF Step, Crash, Look, MakeDir, OpenConfig, WriteConfig, Construct,
       LoadConfig, OpenConverted, Convert, OpenStore, WriteStore, OpenSource, Rewind, TakeRow,
       LoadItem, LookForLog, Files
<1> QED BY <1>1, <1>2, <1>3, <1>4

LEMMA GoAfter ==
  ASSUME TypeOK, NEW p \in Procs, NEW pc, Go(p, pc)
  PROVE  /\ proc'[p].pc = pc /\ proc'[p].keys = proc[p].keys /\ proc'[p].rows = proc[p].rows
         /\ proc'[p].at = proc[p].at /\ Row(p)' = Row(p)
BY ProcFacts DEF Go, Processes, Row

LEMMA EndAfter ==
  ASSUME TypeOK, NEW p \in Procs, NEW result, End(p, result)
  PROVE  proc'[p].pc = "end" /\ proc'[p].keys = proc[p].keys
BY ProcFacts DEF End, Processes

LEMMA SkipAfter ==
  ASSUME TypeOK, NEW p \in Procs, proc' = [proc EXCEPT ![p].at = @ + 1]
  PROVE  proc'[p].pc = proc[p].pc /\ proc'[p].keys = proc[p].keys
BY ProcFacts DEF Processes

LEMMA StepShape ==
  ASSUME JobInv, NEW p \in Procs, Step(p) \/ Crash(p) PROVE Shape(p)'
<1>0. /\ TypeOK /\ Shape(p) /\ proc \in [Procs -> Processes] /\ Kind(p)' = Kind(p) /\ File(p)' = File(p)
      /\ log # Absent => log' # Absent
  BY ProcFacts, Others DEF JobInv, Shapes, Kind, File
<1>1. CASE proc'[p].pc \in {"load_config", "open", "end"}
  BY <1>0, <1>1 DEF Shape
<1>2. CASE Look(p)
  <2>1. CASE End(p, "refused") \/ End(p, "not_found")
    BY <1>0, <1>1, <2>1, EndAfter
  <2> DEFINE creates == Kind(p) \in {"create", "convert"}
  <2>2. CASE creates /\ ~ dir
    <3>1. proc[p].pc = "start" /\ Kind(p) # "show" /\ Go(p, "mkdir")
      BY <1>2, <2>2 DEF Look, At
    <3> QED BY <1>0, <3>1, GoAfter DEF Shape
  <2>3. CASE ~ creates /\ dir
    <3>1. proc[p].pc = "start" /\ Go(p, "construct")
      BY <1>2, <2>3 DEF Look, At
    <3> QED BY <1>0, <3>1, GoAfter DEF Shape
  <2> QED BY <1>2, <2>1, <2>2, <2>3 DEF Look
<1>3. CASE MakeDir(p) \/ OpenConfig(p) \/ WriteConfig(p)
  <2>1. /\ proc'[p].pc \in {"config_open", "config_write", "construct"}
        /\ proc'[p].keys = proc[p].keys
        /\ proc[p].pc \in {"mkdir", "config_open", "config_write"}
    BY <1>0, <1>3, GoAfter DEF MakeDir, OpenConfig, WriteConfig, At
  <2> QED BY <1>0, <2>1 DEF Shape
<1>4. CASE Construct(p)
  <2>1. CASE ReadKeys(p)
    <3>1. PICK keys : proc' = [proc EXCEPT ![p] = [proc[p] EXCEPT !.pc = "load_config", !.keys = keys]]
      BY <1>0, <2>1, ReadKeysState
    <3>2. proc'[p].pc = "load_config"
      BY <1>0, <3>1 DEF Processes
    <3> QED BY <1>1, <3>2
  <2>2. CASE End(p, "bad_log")
    BY <1>0, <1>1, <2>2 DEF End, Processes
  <2> QED BY <1>4, <2>1, <2>2 DEF Construct
<1>5. CASE LoadConfig(p)
  BY <1>0, <1>5 DEF Go, End, LoadConfig, At, Shape, Processes
<1>6. CASE OpenConverted(p) \/ OpenStore(p) \/ WriteStore(p)
  BY <1>0, <1>6 DEF Go, End, OpenConverted, OpenStore, WriteStore, At, Shape, Processes
<1>7. CASE Convert(p)
  BY <1>0, <1>7 DEF Go, End, Convert, At, Shape, Processes
<1>8. CASE OpenSource(p)
  BY <1>0, <1>8 DEF Go, End, OpenSource, At, Shape, Processes, Files
<1>9. CASE Rewind(p)
  BY <1>0, <1>9 DEF Go, End, Rewind, At, Shape, Processes, Files
<1>10. CASE TakeRow(p)
  <2>1. CASE End(p, "complete") \/ End(p, "incomplete")
    BY <1>0, <1>1, <2>1, EndAfter
  <2>2. CASE proc' = [proc EXCEPT ![p].at = @ + 1]
    <3>1. proc'[p].pc = "row" /\ proc[p].pc = "row"
      BY <1>0, <1>10, <2>2 DEF TakeRow, At, Processes
    <3> QED BY <1>0, <3>1 DEF Shape
  <2>3. CASE Row(p) \notin proc[p].keys /\ Go(p, "load")
    <3>1. proc[p].pc = "row"
      BY <1>10 DEF TakeRow, At
    <3>2. proc'[p].pc = "load" /\ Row(p)' = Row(p) /\ proc'[p].keys = proc[p].keys
      BY <1>0, <2>3, GoAfter
    <3> QED BY <1>0, <2>3, <3>1, <3>2 DEF Shape
  <2>4. \/ End(p, "complete") \/ End(p, "incomplete")
        \/ proc' = [proc EXCEPT ![p].at = @ + 1]
        \/ Row(p) \notin proc[p].keys /\ Go(p, "load")
    BY <1>10 DEF TakeRow
  <2> QED BY <2>1, <2>2, <2>3, <2>4
<1>11. CASE LoadItem(p)
  <2>1. proc[p].pc = "load"
    BY <1>11 DEF LoadItem, At
  <2>2. CASE Go(p, "append")
    BY <1>0, <2>1, <2>2, GoAfter DEF Shape
  <2>3. CASE proc' = [proc EXCEPT ![p].pc = "row", ![p].at = @ + 1]
    <3>1. proc'[p].pc = "row"
      BY <1>0, <2>3 DEF Processes
    <3> QED BY <1>0, <2>1, <3>1 DEF Shape
  <2> QED BY <1>11, <2>2, <2>3 DEF LoadItem
<1>12. CASE LookForLog(p)
  BY <1>0, <1>12 DEF Go, End, LookForLog, At, Shape, Processes, Files
<1>13. CASE OpenLog(p)
  <2>1. <<>> # Absent
    BY EmptyTypes, <1>0
  <2>2. log' # Absent
    BY <1>13, <2>1 DEF OpenLog
  <2> QED BY <1>0, <1>13, <2>2 DEF Go, OpenLog, At, Shape, Processes
<1>14. CASE WriteHeader(p)
  BY <1>0, <1>14 DEF Go, End, WriteHeader, At, Shape, Processes
<1>15. CASE AppendRow(p)
  BY <1>0, <1>15 DEF Go, End, AppendRow, At, Shape, Processes
<1>16. CASE Crash(p)
  BY <1>0, <1>1, <1>16 DEF Crash, End, Processes
<1> QED BY <1>2, <1>3, <1>4, <1>5, <1>6, <1>7, <1>8, <1>9, <1>10, <1>11, <1>12, <1>13, <1>14,
           <1>15, <1>16 DEF Step

LEMMA JobStep ==
  ASSUME JobInv, NEW p \in Procs, Step(p) \/ Crash(p) PROVE JobInv'
<1>1. TypeOK'
  BY StepTypes
<1>2. ASSUME NEW q \in Procs PROVE Shape(q)'
  <2>1. CASE q = p
    BY <2>1, StepShape
  <2>2. CASE q # p
    <3>1. /\ proc'[q] = proc[q] /\ Shape(q) /\ Kind(q)' = Kind(q) /\ File(q)' = File(q)
          /\ source # Absent => source' # Absent
          /\ log # Absent => log' # Absent
      BY <2>2, Others DEF JobInv, Shapes, Kind, File
    <3> QED BY <3>1 DEF Shape, Row
  <2> QED BY <2>1, <2>2
<1> QED BY <1>1, <1>2 DEF JobInv, Shapes

-----------------------------------------------------------------------------
LEMMA JobInit == Init => JobInv
<1> SUFFICES ASSUME Init PROVE JobInv
  OBVIOUS
<1>1. proc \in [Procs -> Processes]
  <2> DEFINE st == [pc |-> "start", keys |-> {}, rows |-> <<>>, at |-> 1, total |-> 0, result |-> ""]
  <2>1. "start" \in Steps /\ "" \in Results
    BY DEF Steps, Results
  <2>2. <<>> \in Seq(Items) /\ {} \in SUBSET (Items \cup {Junk})
    OBVIOUS
  <2>3. ASSUME NEW pc \in Steps, NEW keys \in SUBSET (Items \cup {Junk}), NEW rows \in Seq(Items),
               NEW result \in Results
        PROVE  [pc |-> pc, keys |-> keys, rows |-> rows, at |-> 1, total |-> 0, result |-> result]
                 \in Processes
    BY DEF Processes
  <2>4. st \in Processes
    BY <2>1, <2>2, <2>3
  <2>5. proc = [p \in Procs |-> st]
    BY Zenon DEF Init
  <2> HIDE DEF st
  <2> QED BY <2>4, <2>5
<1>1a. \A p \in Procs : proc[p].pc = "start" /\ proc[p].keys = {}
  BY DEF Init
<1>2. /\ asked \in Requests /\ config = Absent /\ source = Absent /\ log = Absent
  BY DEF Init
<1>2a. dir \in BOOLEAN /\ overlapped \in BOOLEAN
  BY DEF Init
<1>2b. faults = 0 /\ faults \in 0..MaxFaults
  <2>1. MaxFaults \in Nat
    BY RequestAssumption
  <2>2. faults = 0
    BY DEF Init
  <2> QED BY <2>1, <2>2
<1>2c. copies \in [Items -> Nat]
  BY DEF Init
<1>3. TypeOK
  BY <1>1, <1>1a, <1>2, <1>2a, <1>2b, <1>2c DEF TypeOK, Processes, Sources
<1>4. Shapes
  BY <1>1a DEF Shapes, Shape
<1> QED BY <1>3, <1>4 DEF JobInv

(* The variables keep their types: in particular no process works on a row *)
(* its file does not have, and only the first line of the log is a header. *)
THEOREM DirectoryTypes == Spec => []TypeOK
<1>1. JobInv /\ [Next]_vars => JobInv'
  <2> SUFFICES ASSUME JobInv, [Next]_vars PROVE JobInv'
    OBVIOUS
  <2>1. CASE Next
    BY <2>1, JobStep DEF Next
  <2>2. CASE UNCHANGED vars
    BY <2>2 DEF vars, JobInv, TypeOK, Shapes, Shape, Kind, File, Row
  <2> QED BY <2>1, <2>2
<1>2. JobInv => TypeOK
  BY DEF JobInv
<1> QED BY <1>1, <1>2, JobInit, PTL DEF Spec

-----------------------------------------------------------------------------
(* Who has made an item is still said to have made it, but when it crashes. *)
LEMMA MadeFacts ==
  ASSUME NEW i
  PROVE  IsFiniteSet(Made(i)) /\ Cardinality(Made(i)) \in Nat
BY RequestAssumption, FS_Subset, FS_CardinalityType DEF Made

(* What a step says of keys and rows in hand. *)
LEMMA KeysGrow ==
  ASSUME JobInv, NEW p \in Procs, Step(p)
  PROVE  /\ proc[p].keys \subseteq proc'[p].keys
         /\ \A i : InHand(p, i) => InHand(p, i)' \/ i \in proc'[p].keys
<1>0. /\ TypeOK /\ Shape(p) /\ proc \in [Procs -> Processes] /\ proc[p] \in Processes
  BY ProcFacts DEF JobInv, Shapes
<1>1. CASE Look(p) \/ MakeDir(p) \/ OpenConfig(p) \/ WriteConfig(p) \/ LoadConfig(p) \/ OpenConverted(p)
           \/ OpenStore(p) \/ WriteStore(p) \/ TakeRow(p)
  <2>1. proc[p].pc \notin InHandSteps
    BY <1>1 DEF Look, MakeDir, OpenConfig, WriteConfig, LoadConfig, OpenConverted, OpenStore,
       WriteStore, TakeRow, At, InHandSteps
  <2>2. \/ \E pc : Go(p, pc)
        \/ \E result : End(p, result)
        \/ proc' = [proc EXCEPT ![p].at = @ + 1]
    <3>1. CASE Look(p) \/ LoadConfig(p) \/ TakeRow(p)
      BY <3>1 DEF Look, LoadConfig, TakeRow
    <3>2. CASE ~(Look(p) \/ LoadConfig(p) \/ TakeRow(p))
      BY <1>1, <3>2 DEF MakeDir, OpenConfig, WriteConfig, OpenConverted, OpenStore, WriteStore
    <3> QED BY <3>1, <3>2
  <2>3. proc'[p].keys = proc[p].keys
    BY <1>0, <2>2, GoAfter, EndAfter, SkipAfter
  <2> QED BY <2>1, <2>3 DEF InHand
<1>2. CASE Construct(p)
  <2>1. proc[p].pc = "construct" /\ proc[p].keys = {}
    BY <1>0, <1>2 DEF Construct, At, Shape
  <2> QED BY <2>1 DEF InHand, InHandSteps
<1>3. CASE Convert(p) \/ OpenSource(p) \/ Rewind(p) \/ LoadItem(p)
  <2>1. proc[p].pc \notin InHandSteps
    BY <1>3 DEF Convert, OpenSource, Rewind, LoadItem, At, InHandSteps
  <2>2. proc'[p].keys = proc[p].keys
    BY <1>0, <1>3, GoAfter, EndAfter DEF Convert, OpenSource, Rewind, LoadItem, Processes
  <2> QED BY <2>1, <2>2 DEF InHand
<1>4. CASE LookForLog(p) \/ OpenLog(p) \/ WriteHeader(p)
  <2>1. /\ proc'[p].keys = proc[p].keys /\ Row(p)' = Row(p)
        /\ proc'[p].pc \in InHandSteps
    BY <1>0, <1>4, GoAfter DEF LookForLog, OpenLog, WriteHeader, InHandSteps
  <2> QED BY <2>1 DEF InHand
<1>5. CASE AppendRow(p)
  <2>1. proc'[p].keys = proc[p].keys \cup {Row(p)}
    BY <1>0, <1>5 DEF AppendRow, Processes
  <2> QED BY <2>1 DEF InHand
<1> QED BY <1>1, <1>2, <1>3, <1>4, <1>5 DEF Step

(* Another process keeps what it has, and its row. *)
LEMMA OthersHand ==
  ASSUME JobInv, NEW p \in Procs, Step(p) \/ Crash(p), NEW q \in Procs \ {p}
  PROVE  /\ Kind(q)' = Kind(q) /\ proc'[q] = proc[q] /\ Row(q)' = Row(q)
         /\ \A i : InHand(q, i)' <=> InHand(q, i)
BY Others DEF Kind, Row, InHand

LEMMA KindKept ==
  ASSUME JobInv, NEW p \in Procs, Step(p) \/ Crash(p), NEW q \in Procs PROVE Kind(q)' = Kind(q)
BY Others DEF Kind

LEMMA MadeGrows ==
  ASSUME JobInv, NEW p \in Procs, Step(p), NEW i
  PROVE  Made(i) \subseteq Made(i)'
<1> SUFFICES ASSUME NEW q \in Made(i) PROVE q \in Made(i)'
  OBVIOUS
<1>1. q \in Procs /\ Kind(q) # "show" /\ (i \in proc[q].keys \/ InHand(q, i))
  BY DEF Made
<1>2. CASE q = p
  BY <1>1, <1>2, KeysGrow, KindKept DEF Made
<1>3. CASE q # p
  <2>1. /\ Kind(q)' = Kind(q) /\ proc'[q] = proc[q] /\ (InHand(q, i)' <=> InHand(q, i))
    BY <1>1, <1>3, OthersHand
  <2> QED BY <1>1, <2>1 DEF Made
<1> QED BY <1>2, <1>3

LEMMA MadeAfterCrash ==
  ASSUME JobInv, NEW p \in Procs, Crash(p), NEW i
  PROVE  Made(i) \subseteq Made(i)' \cup {p}
<1> SUFFICES ASSUME NEW q \in Made(i), q # p PROVE q \in Made(i)'
  OBVIOUS
<1>1. q \in Procs /\ Kind(q) # "show" /\ (i \in proc[q].keys \/ InHand(q, i))
  BY DEF Made
<1>2. /\ Kind(q)' = Kind(q) /\ proc'[q] = proc[q] /\ (InHand(q, i)' <=> InHand(q, i))
  BY <1>1, OthersHand
<1> QED BY <1>1, <1>2 DEF Made

(* The creation of a resource, with and without a failure. *)
LEMMA LoadCounts ==
  ASSUME JobInv, NEW p \in Procs, LoadItem(p), NEW i \in Items
  PROVE  /\ Row(p) \in Items /\ Row(p) \notin proc[p].keys /\ ~ InHand(p, i) /\ Kind(p) # "show"
         /\ log' = log /\ overlapped' = overlapped /\ proc'[p].keys = proc[p].keys
         /\ \/ /\ faults' = faults /\ copies'[i] = copies[i] + (IF i = Row(p) THEN 1 ELSE 0)
               /\ i = Row(p) => InHand(p, i)'
            \/ faults' = faults + 1 /\ copies'[i] \in {copies[i], copies[i] + 1}
<1>0. /\ TypeOK /\ Shape(p) /\ proc \in [Procs -> Processes] /\ proc[p].pc = "load"
      /\ copies \in [Items -> Nat]
  BY ProcFacts DEF JobInv, Shapes, LoadItem, At, TypeOK
<1>1. Row(p) \in Items /\ Row(p) \notin proc[p].keys /\ ~ InHand(p, i) /\ Kind(p) # "show"
  BY <1>0, RowFacts DEF Shape, InHand, InHandSteps
<1> DEFINE r == Row(p)
           created == [copies EXCEPT ![r] = @ + 1]
<1> HIDE DEF r
<1>2. created[i] = copies[i] + (IF i = r THEN 1 ELSE 0) /\ copies[i] \in Nat
  BY <1>0, <1>1 DEF r
<1>3. /\ log' = log /\ overlapped' = overlapped
      /\ \/ Go(p, "append") /\ copies' = created /\ faults' = faults
         \/ /\ Fault /\ copies' \in {copies, created}
            /\ proc' = [proc EXCEPT ![p].pc = "row", ![p].at = @ + 1]
  BY <1>0, LoadItemCases DEF LoadItem, Files, r
<1> HIDE DEF created
<1>4. CASE Go(p, "append") /\ copies' = created /\ faults' = faults
  <2>1. proc'[p].pc = "append" /\ Row(p)' = Row(p) /\ proc'[p].keys = proc[p].keys
    BY <1>0, <1>4, GoAfter
  <2>2. i = Row(p) => InHand(p, i)'
    BY <2>1 DEF InHand, InHandSteps
  <2> QED BY <1>1, <1>2, <1>3, <1>4, <2>1, <2>2 DEF r
<1>5. CASE /\ Fault /\ copies' \in {copies, created}
           /\ proc' = [proc EXCEPT ![p].pc = "row", ![p].at = @ + 1]
  <2>1. proc'[p].keys = proc[p].keys
    BY <1>0, <1>5 DEF Processes
  <2>2. copies'[i] \in {copies[i], copies[i] + 1} /\ faults' = faults + 1
    BY <1>2, <1>5 DEF Fault
  <2> QED BY <1>1, <1>3, <2>1, <2>2 DEF r
<1> QED BY <1>3, <1>4, <1>5

(* Steps that create nothing. *)
LEMMA NothingCreated ==
  ASSUME JobInv, NEW p \in Procs, Step(p) \/ Crash(p), ~ LoadItem(p)
  PROVE  copies' = copies /\ (faults' = faults \/ faults' = faults + 1)
<1>1. CASE Look(p) \/ MakeDir(p) \/ OpenConfig(p) \/ WriteConfig(p) \/ Construct(p)
           \/ LoadConfig(p) \/ TakeRow(p) \/ LookForLog(p)
  BY <1>1 DEF Look, MakeDir, OpenConfig, WriteConfig, Construct, LoadConfig, TakeRow,
     LookForLog, Rest
<1>2. CASE OpenConverted(p) \/ Convert(p) \/ OpenStore(p) \/ WriteStore(p) \/ OpenSource(p)
           \/ Rewind(p)
  BY <1>2 DEF OpenConverted, Convert, OpenStore, WriteStore, OpenSource, Rewind, Fault, Rest
<1>3. CASE OpenLog(p) \/ WriteHeader(p) \/ AppendRow(p) \/ Crash(p)
  BY <1>3 DEF OpenLog, WriteHeader, AppendRow, Crash, Fault, Rest
<1> QED BY <1>1, <1>2, <1>3 DEF Step

LEMMA PaidStep ==
  ASSUME JobInv, PaidTogether, NEW p \in Procs, Step(p) \/ Crash(p) PROVE PaidTogether'
<1>a. TypeOK /\ TypeOK'
  BY StepTypes DEF JobInv
<1>b. faults \in 0..MaxFaults /\ copies \in [Items -> Nat]
  BY <1>a DEF TypeOK
<1>0. faults \in Nat /\ copies \in [Items -> Nat] /\ TypeOK'
  BY <1>a, <1>b
<1> SUFFICES ASSUME NEW i \in Items PROVE copies'[i] <= faults' + Cardinality(Made(i)')
  BY DEF PaidTogether
<1>1. /\ copies[i] <= faults + Cardinality(Made(i)) /\ copies[i] \in Nat
      /\ IsFiniteSet(Made(i)) /\ Cardinality(Made(i)) \in Nat
  BY <1>0, MadeFacts DEF PaidTogether
<1>2. IsFiniteSet(Made(i)') /\ Cardinality(Made(i)') \in Nat
  <2>1. Made(i)' \subseteq Procs
    BY DEF Made
  <2> QED BY <2>1, RequestAssumption, FS_Subset, FS_CardinalityType
<1> DEFINE M == Made(i)
           N == Made(i)'
<1>3. IsFiniteSet(M) /\ IsFiniteSet(N) /\ Cardinality(M) \in Nat /\ Cardinality(N) \in Nat
  BY <1>1, <1>2
<1>4. CASE Crash(p)
  <2>1. M \subseteq N \cup {p} /\ faults' = faults + 1 /\ copies' = copies
    BY <1>4, MadeAfterCrash DEF Crash, Fault
  <2> HIDE DEF M, N
  <2>2. IsFiniteSet(N \cup {p}) /\ Cardinality(N \cup {p}) <= Cardinality(N) + 1
        /\ Cardinality(N \cup {p}) \in Nat
    <3>1. /\ IsFiniteSet(N \cup {p})
          /\ Cardinality(N \cup {p}) = IF p \in N THEN Cardinality(N) ELSE Cardinality(N) + 1
      BY <1>3, FS_AddElement
    <3> QED BY <1>3, <3>1
  <2>3. Cardinality(M) <= Cardinality(N \cup {p})
    BY <2>1, <2>2, FS_Subset
  <2> QED BY <1>0, <1>1, <1>3, <2>1, <2>2, <2>3 DEF M, N
<1>5. CASE Step(p)
  <2>1. M \subseteq N
    BY <1>5, MadeGrows
  <2>2. Cardinality(M) <= Cardinality(N)
    BY <1>3, <2>1, FS_Subset
  <2>3. CASE copies'[i] <= copies[i] + (faults' - faults)
    <3>1. faults' \in Nat /\ copies'[i] \in Nat /\ copies[i] <= faults + Cardinality(M)
      BY <1>0, <1>1 DEF TypeOK
    <3> HIDE DEF M, N
    <3>2. copies'[i] <= faults' + Cardinality(N)
      BY <1>0, <1>1, <1>3, <2>2, <2>3, <3>1
    <3> QED BY <3>2 DEF N
  <2>4. CASE ~ LoadItem(p)
    BY <1>0, <1>1, <2>3, <2>4, NothingCreated
  <2>5. CASE LoadItem(p)
    <3>1. CASE faults' = faults /\ i = Row(p) /\ copies'[i] = copies[i] + 1 /\ InHand(p, i)'
      <4>0. Kind(p) # "show" /\ i \notin proc[p].keys /\ ~ InHand(p, i) /\ Kind(p)' = Kind(p)
        BY <1>5, <2>5, <3>1, LoadCounts, KindKept
      <4>1. p \notin M /\ p \in N
        BY <3>1, <4>0 DEF Made
      <4> HIDE DEF M, N
      <4>2. Cardinality(M \cup {p}) = Cardinality(M) + 1 /\ IsFiniteSet(M \cup {p})
        BY <1>3, <4>1, FS_AddElement
      <4>3. Cardinality(M \cup {p}) <= Cardinality(N)
        BY <1>3, <2>1, <4>1, FS_Subset
      <4> QED BY <1>0, <1>1, <1>3, <3>1, <4>2, <4>3 DEF M, N
    <3>2. CASE faults' = faults /\ i # Row(p) /\ copies'[i] = copies[i]
      BY <1>0, <2>3, <3>2
    <3>3. CASE faults' = faults + 1 /\ copies'[i] \in {copies[i], copies[i] + 1}
      BY <1>0, <1>1, <2>3, <3>3
    <3> QED BY <1>1, <2>5, <3>1, <3>2, <3>3, LoadCounts
  <2> QED BY <2>4, <2>5
<1> QED BY <1>4, <1>5

-----------------------------------------------------------------------------
(* One command at a time. *)
LEMMA AtWork ==
  ASSUME JobInv, NEW p \in Procs, Step(p) \/ Crash(p), ~ Look(p)
  PROVE  Active(p)
BY DEF Active, Step, Crash, MakeDir, OpenConfig, WriteConfig, Construct, LoadConfig,
   OpenConverted, Convert, OpenStore, WriteStore, OpenSource, Rewind, TakeRow, LoadItem,
   LookForLog, OpenLog, WriteHeader, AppendRow, At

LEMMA LookChangesOnly ==
  ASSUME NEW p \in Procs, Look(p) PROVE log' = log /\ proc[p].pc = "start"
BY DEF Look, At, Files

LEMMA OverlappedStays ==
  ASSUME NEW p \in Procs, Step(p) \/ Crash(p), ~ overlapped'
  PROVE  ~ overlapped
BY DEF Step, Crash, Look, MakeDir, OpenConfig, WriteConfig, Construct, LoadConfig,
   OpenConverted, Convert, OpenStore, WriteStore, OpenSource, Rewind, TakeRow, LoadItem,
   LookForLog, OpenLog, WriteHeader, AppendRow, Rest

LEMMA WorkingAfter ==
  ASSUME JobInv, NEW p \in Procs, Step(p) \/ Crash(p), NEW q \in Procs, Working(q)', ~ overlapped'
  PROVE  \/ Working(q)
         \/ q = p /\ Look(p) /\ \A r \in Procs : ~ Working(r)
<1>1. CASE q # p
  BY <1>1, OthersHand DEF Working, Active
<1>2. CASE q = p /\ ~ Look(p)
  BY <1>2, AtWork, KindKept DEF Working
<1>3. CASE q = p /\ Look(p)
  <2>1. Kind(p) # "show" /\ proc[p].pc = "start" /\ TypeOK
    BY <1>3, KindKept DEF Working, Look, At, JobInv
  <2>2. proc'[p].pc # "end"
    BY <1>3 DEF Working, Active
  <2>3. ~ End(p, "refused") /\ ~ End(p, "not_found")
    BY <2>1, <2>2, EndAfter
  <2>4. overlapped' = (overlapped \/ (Kind(p) # "show" /\ \E r \in Procs \ {p} : Active(r) /\ Kind(r) # "show"))
    BY <1>3, <2>3 DEF Look
  <2>5. \A r \in Procs \ {p} : ~ Working(r)
    BY <2>1, <2>4 DEF Working
  <2>6. ~ Working(p)
    BY <2>1 DEF Working, Active
  <2> QED BY <1>3, <2>5, <2>6
<1> QED BY <1>1, <1>2, <1>3

LEMMA OneCommandStep ==
  ASSUME JobInv, OneCommand, NEW p \in Procs, Step(p) \/ Crash(p), ~ overlapped'
  PROVE  OneCommand'
<1> SUFFICES ASSUME NEW q \in Procs, NEW r \in Procs, Working(q)', Working(r)' PROVE q = r
  BY DEF OneCommand
<1> QED BY WorkingAfter DEF OneCommand

(* Lines of the log. *)
LEMMA LineFacts ==
  ASSUME NEW file \in Seq(Items \cup {Header, Junk}) \cup {Absent}
  PROVE  LET lines == {Lines(file)[k] : k \in DOMAIN Lines(file)} IN
         /\ file \in {Absent, <<>>} => lines = {}
         /\ file \notin {Absent, <<>>} =>
              /\ file \in Seq(Items \cup {Header, Junk}) /\ Len(file) \in Nat \ {0}
              /\ lines = {file[k] : k \in 2..Len(file)}
<1> DEFINE lines == {Lines(file)[k] : k \in DOMAIN Lines(file)}
<1>1. CASE file \in {Absent, <<>>}
  <2>1. Lines(file) = <<>>
    BY <1>1 DEF Lines
  <2> QED BY <1>1, <2>1
<1>2. CASE file \notin {Absent, <<>>}
  <2>1. Lines(file) = Tail(file) /\ file \in Seq(Items \cup {Header, Junk}) /\ Len(file) \in Nat \ {0}
    BY <1>2 DEF Lines
  <2>2. DOMAIN Tail(file) = 1..Len(file) - 1 /\ \A k \in 1..Len(file) - 1 : Tail(file)[k] = file[k + 1]
    BY <2>1, <1>2
  <2>3. lines = {Tail(file)[k] : k \in 1..Len(file) - 1}
    BY <2>1, <2>2
  <2>4. \A k \in 2..Len(file) : k - 1 \in 1..Len(file) - 1 /\ Tail(file)[k - 1] = file[k]
    BY <2>1, <2>2
  <2>5. \A k \in 1..Len(file) - 1 : k + 1 \in 2..Len(file) /\ Tail(file)[k] = file[k + 1]
    BY <2>1, <2>2
  <2>6. lines \subseteq {file[k] : k \in 2..Len(file)}
    BY <2>3, <2>5
  <2>7. {file[k] : k \in 2..Len(file)} \subseteq lines
    BY <2>3, <2>4
  <2> QED BY <1>2, <2>1, <2>6, <2>7
<1> QED BY <1>1, <1>2

LEMMA LoggedFacts ==
  ASSUME TypeOK
  PROVE  /\ log \in {Absent, <<>>} => Logged = {}
         /\ log \notin {Absent, <<>>} =>
              /\ log \in Seq(Items \cup {Header, Junk}) /\ Len(log) \in Nat \ {0}
              /\ Logged = {log[k] : k \in 2..Len(log)}
BY LineFacts DEF TypeOK, Logged

LEMMA LoggedAfter ==
  ASSUME TypeOK'
  PROVE  /\ log' \in {Absent, <<>>} => Logged' = {}
         /\ log' \notin {Absent, <<>>} =>
              /\ log' \in Seq(Items \cup {Header, Junk}) /\ Len(log') \in Nat \ {0}
              /\ Logged' = {log'[k] : k \in 2..Len(log')}
BY LineFacts DEF TypeOK, Logged

(* The line that is appended: the header of an empty log, or an item.      *)
LEMMA AppendLogged ==
  ASSUME TypeOK, TypeOK', NEW p \in Procs, Shape(p), AppendRow(p)
  PROVE  /\ log = <<>> => Logged' = Logged /\ \A i : i = Row(p) => HeadItem(i)'
         /\ log # <<>> => Logged' = Logged \cup {Row(p)} /\ \A i : HeadItem(i)' <=> HeadItem(i)
<1> DEFINE r == Row(p)
<1>1. /\ r \in Items /\ log \in Seq(Items \cup {Header, Junk}) /\ log' = Append(log, r)
      /\ log # Absent /\ log' \notin {Absent, <<>>}
  <2>1. log \in Seq(Items \cup {Header, Junk}) /\ log' = Append(log, r) /\ r \in Items
    BY AppendRowFacts
  <2>2. Absent \notin Seq(Items \cup {Header, Junk})
    BY RequestAssumption
  <2>3. log' \in Seq(Items \cup {Header, Junk}) /\ log' # <<>>
    BY <2>1
  <2> QED BY <2>1, <2>2, <2>3
<1> HIDE DEF r
<1>2. Logged' = {log'[k] : k \in 2..Len(log')} /\ Len(log') = Len(log) + 1 /\ Len(log) \in Nat
  BY <1>1, LoggedAfter
<1>3. /\ \A k \in 1..Len(log) : log'[k] = log[k]
      /\ log'[Len(log) + 1] = r
  BY <1>1
<1>4. CASE log = <<>>
  <2>1. Logged = {} /\ Len(log) = 0
    BY <1>4, LoggedFacts
  <2>2. Logged' = {}
    BY <1>2, <2>1
  <2> QED BY <1>1, <1>3, <1>4, <2>1, <2>2 DEF HeadItem, r
<1>5. CASE log # <<>>
  <2>1. Logged = {log[k] : k \in 2..Len(log)} /\ Len(log) \in Nat \ {0}
    BY <1>1, <1>5, LoggedFacts
  <2>2. Logged' \subseteq Logged \cup {r}
    BY <1>2, <1>3, <2>1
  <2>3. Logged \subseteq Logged'
    <3>1. \A k \in 2..Len(log) : k \in 2..Len(log') /\ log'[k] = log[k]
      BY <1>2, <1>3
    <3> QED BY <1>2, <2>1, <3>1
  <2>4. r \in Logged'
    <3>1. Len(log) + 1 \in 2..Len(log')
      BY <1>2, <2>1
    <3> QED BY <1>2, <1>3, <3>1
  <2>5. log'[1] = log[1]
    BY <1>3, <2>1
  <2> QED BY <1>1, <1>5, <2>2, <2>3, <2>4, <2>5 DEF HeadItem, r
<1> QED BY <1>4, <1>5

(* The first line that is written is the header when nobody else writes.   *)
LEMMA HeaderLogged ==
  ASSUME TypeOK', NEW p \in Procs, WriteHeader(p), log = <<>>
  PROVE  Logged' = {} /\ \A i \in Items : ~ HeadItem(i)'
<1>1. log' = <<Header>>
  BY DEF WriteHeader
<1>2. <<Header>> # <<>> /\ <<Header>>[1] = Header /\ Len(<<Header>>) = 1
  OBVIOUS
<1>3. Logged' = {}
  <2>1. CASE log' \in {Absent, <<>>}
    BY <2>1, LoggedAfter
  <2>2. CASE log' \notin {Absent, <<>>}
    BY <1>1, <1>2, <2>2, LoggedAfter
  <2> QED BY <2>1, <2>2
<1>4. \A i \in Items : ~ HeadItem(i)'
  BY <1>1, <1>2, RequestAssumption DEF HeadItem
<1> QED BY <1>3, <1>4

LEMMA LogSteps ==
  ASSUME NEW p \in Procs, Step(p) \/ Crash(p)
  PROVE  OpenLog(p) \/ WriteHeader(p) \/ AppendRow(p) \/ log' = log
BY DEF Step, Crash, Look, MakeDir, OpenConfig, WriteConfig, Construct, LoadConfig,
   OpenConverted, Convert, OpenStore, WriteStore, OpenSource, Rewind, TakeRow, LoadItem,
   LookForLog, Files

LEMMA LoggerWorks ==
  ASSUME JobInv, NEW p \in Procs, OpenLog(p) \/ WriteHeader(p) \/ AppendRow(p)
  PROVE  Working(p) /\ proc[p].pc \in InHandSteps /\ TypeOK /\ Shape(p)
BY DEF OpenLog, WriteHeader, AppendRow, At, Working, Active, Shape, Shapes, JobInv, InHandSteps

LEMMA LogKnownStep ==
  ASSUME JobInv, Alone, NEW p \in Procs, Step(p) \/ Crash(p), ~ overlapped',
         NEW q \in Procs, Working(q)'
  PROVE  KnowsLog(q)' /\ LogAsSeen(q)'
<1>1. ~ overlapped /\ OneCommand /\ \A r \in Procs : Working(r) => KnowsLog(r) /\ LogAsSeen(r)
  BY OverlappedStays DEF Alone
<1>2. CASE q # p
  <2>1. Working(q) /\ proc'[q] = proc[q]
    BY <1>2, WorkingAfter, OthersHand
  <2>2. ~ Working(p)
    BY <1>1, <1>2, <2>1 DEF OneCommand
  <2>3. log' = log
    BY <2>2, LogSteps, LoggerWorks
  <2>4. Logged' = Logged
    BY <2>3 DEF Logged
  <2> QED BY <1>1, <2>1, <2>3, <2>4 DEF KnowsLog, LogAsSeen
<1> SUFFICES ASSUME q = p PROVE KnowsLog(p)' /\ LogAsSeen(p)'
  BY <1>2
<1>3. TypeOK /\ TypeOK' /\ Shape(p) /\ proc \in [Procs -> Processes]
  BY StepTypes, ProcFacts DEF JobInv, Shapes
<1>4. proc'[p].pc # "end"
  BY DEF Working, Active
<1>5. CASE Look(p)
  <2>1. proc'[p].pc \in {"mkdir", "construct"}
    BY <1>3, <1>4, <1>5, GoAfter, EndAfter DEF Look
  <2> QED BY <2>1 DEF KnowsLog, LogAsSeen
<1>6. CASE MakeDir(p) \/ OpenConfig(p) \/ WriteConfig(p)
  <2>1. proc'[p].pc \in {"config_open", "config_write", "construct"}
    BY <1>3, <1>6, GoAfter DEF MakeDir, OpenConfig, WriteConfig
  <2> QED BY <2>1 DEF KnowsLog, LogAsSeen
<1>7. CASE Construct(p)
  <2>1. ~ End(p, "bad_log")
    BY <1>3, <1>4, EndAfter
  <2>2. ReadKeys(p) /\ log' = log
    BY <1>7, <2>1 DEF Construct, Files
  <2>3. PICK keys \in SUBSET (Items \cup {Junk}) :
           /\ keys = {Lines(log)[k] : k \in DOMAIN Lines(log)}
           /\ proc' = [proc EXCEPT ![p] = [proc[p] EXCEPT !.pc = "load_config", !.keys = keys]]
    BY <1>3, <2>2, ReadKeysState
  <2>4. proc'[p].pc = "load_config" /\ proc'[p].keys = Logged
    BY <1>3, <2>3 DEF Processes, Logged
  <2>5. Logged' = Logged
    BY <2>2 DEF Logged
  <2> QED BY <2>4, <2>5 DEF KnowsLog, LogAsSeen
<1> DEFINE Before == {"start", "mkdir", "config_open", "config_write", "construct", "end"}
<1>8. CASE /\ proc[p].pc \notin Before /\ proc'[p].pc \notin {"log_open", "log_header"}
           /\ Step(p) /\ log' = log
  <2>1. Working(p)
    BY <1>8, KindKept DEF Working, Active
  <2>2. Logged \subseteq proc[p].keys
    BY <1>1, <1>8, <2>1 DEF KnowsLog
  <2>3. Logged' = Logged /\ proc[p].keys \subseteq proc'[p].keys
    BY <1>8, KeysGrow DEF Logged
  <2> QED BY <1>8, <2>2, <2>3 DEF KnowsLog, LogAsSeen
<1>9. CASE LoadConfig(p) \/ OpenConverted(p) \/ OpenStore(p) \/ WriteStore(p) \/ TakeRow(p)
  <2>1. proc[p].pc \notin Before /\ log' = log
    BY <1>9 DEF LoadConfig, OpenConverted, OpenStore, WriteStore, TakeRow, At, Files
  <2>2. CASE LoadConfig(p)
    <3>1. End(p, "no_config") \/ Go(p, "convert_open") \/ Go(p, "open") \/ Go(p, "store_open")
      BY <2>2 DEF LoadConfig
    <3>2. proc'[p].pc \notin {"log_open", "log_header"}
      BY <1>3, <3>1, GoAfter, EndAfter
    <3> QED BY <1>8, <2>1, <2>2, <3>2 DEF Step
  <2>3. CASE OpenConverted(p) \/ OpenStore(p) \/ WriteStore(p)
    <3>1. proc'[p].pc \notin {"log_open", "log_header"}
      BY <1>3, <2>3, GoAfter DEF OpenConverted, OpenStore, WriteStore
    <3> QED BY <1>8, <2>1, <2>3, <3>1 DEF Step
  <2>4. CASE TakeRow(p)
    <3>1. /\ proc[p].pc = "row"
          /\ \/ End(p, "complete") \/ End(p, "incomplete") \/ Go(p, "load")
             \/ proc' = [proc EXCEPT ![p].at = @ + 1]
      BY <2>4 DEF TakeRow, At
    <3>2. proc'[p].pc \in {"row", "load", "end"}
      BY <1>3, <3>1, GoAfter, EndAfter, SkipAfter
    <3> QED BY <1>8, <2>1, <2>4, <3>2 DEF Step
  <2> QED BY <1>9, <2>2, <2>3, <2>4
<1>10. CASE Convert(p) \/ OpenSource(p) \/ Rewind(p) \/ LoadItem(p)
  <2>1. proc[p].pc \notin Before /\ proc'[p].pc \notin {"log_open", "log_header"} /\ log' = log
    BY <1>3, <1>10, GoAfter, EndAfter DEF Convert, OpenSource, Rewind, LoadItem, At, Files, Processes
  <2> QED BY <1>8, <1>10, <2>1 DEF Step
<1>11. CASE LookForLog(p)
  <2>1. /\ proc[p].pc = "append" /\ log' = log /\ proc'[p].keys = proc[p].keys
        /\ proc'[p].pc = IF log = Absent THEN "log_open" ELSE "log_row"
    BY <1>3, <1>11, GoAfter DEF LookForLog, At, Files
  <2>2. Logged \subseteq proc[p].keys
    BY <1>1, <2>1, <1>3 DEF KnowsLog, Working, Active, Shape
  <2>3. Logged' = Logged
    BY <2>1 DEF Logged
  <2> QED BY <2>1, <2>2, <2>3 DEF KnowsLog, LogAsSeen
<1>12. CASE OpenLog(p)
  <2>1. proc'[p].pc = "log_header" /\ log' = <<>>
    BY <1>3, <1>12, GoAfter DEF OpenLog
  <2>2. Logged' = {}
    BY <1>3, <2>1, LoggedAfter
  <2> QED BY <2>1, <2>2 DEF KnowsLog, LogAsSeen
<1>13. CASE WriteHeader(p)
  <2>1. log = <<>> /\ proc'[p].pc = "log_row"
    BY <1>1, <1>3, <1>13, LoggerWorks, GoAfter DEF LogAsSeen, WriteHeader, At
  <2>2. Logged' = {}
    BY <1>3, <1>13, <2>1, HeaderLogged
  <2> QED BY <2>1, <2>2 DEF KnowsLog, LogAsSeen
<1>14. CASE AppendRow(p)
  <2>1. proc'[p].pc = "row" /\ proc'[p].keys = proc[p].keys \cup {Row(p)}
    BY <1>3, <1>14 DEF AppendRow, Processes
  <2>2. proc[p].pc = "log_row"
    BY <1>14 DEF AppendRow, At
  <2>3. Logged \subseteq proc[p].keys
    BY <1>1, <1>14, <2>2, LoggerWorks DEF KnowsLog
  <2>4. Logged' \subseteq Logged \cup {Row(p)}
    BY <1>3, <1>14, AppendLogged
  <2> QED BY <2>1, <2>3, <2>4 DEF KnowsLog, LogAsSeen
<1>15. CASE Crash(p)
  BY <1>3, <1>4, <1>15, EndAfter DEF Crash
<1> QED BY <1>5, <1>6, <1>7, <1>9, <1>10, <1>11, <1>12, <1>13, <1>14, <1>15 DEF Step

(* A step that creates nothing and loses nothing of what was created. *)
LEMMA PaidKept ==
  ASSUME JobInv, CopiesPaid, copies' = copies, NEW i \in Items,
         faults' = faults \/ faults' = faults + 1,
         HeadItem(i)' <=> HeadItem(i),
         Kept(i) => Kept(i)' \/ faults' = faults + 1
  PROVE  copies'[i] <= faults' + (IF HeadItem(i)' THEN 1 ELSE 0) + (IF Kept(i)' THEN 1 ELSE 0)
<1>1. copies[i] <= faults + (IF HeadItem(i) THEN 1 ELSE 0) + (IF Kept(i) THEN 1 ELSE 0)
  BY DEF CopiesPaid
<1>2. copies[i] \in Nat /\ faults \in Nat
  BY DEF JobInv, TypeOK
<1> QED BY <1>1, <1>2

LEMMA HandKept ==
  ASSUME JobInv, NEW p \in Procs, Step(p), NEW i, Kept(i), Logged \subseteq Logged',
         ~ AppendRow(p)
  PROVE  Kept(i)'
<1>1. CASE i \in Logged
  BY <1>1 DEF Kept
<1>2. ASSUME NEW q \in Procs, InHand(q, i) PROVE InHand(q, i)'
  <2>1. CASE q # p
    BY <1>2, <2>1, OthersHand
  <2>2. CASE q = p
    <3>1. TypeOK /\ proc[p].pc \in InHandSteps /\ Row(p) = i
      BY <1>2, <2>2 DEF InHand, JobInv
    <3>2. LookForLog(p) \/ OpenLog(p) \/ WriteHeader(p)
      BY <3>1 DEF Step, Look, MakeDir, OpenConfig, WriteConfig, Construct, LoadConfig,
         OpenConverted, Convert, OpenStore, WriteStore, OpenSource, Rewind, TakeRow, LoadItem,
         At, InHandSteps
    <3>3. proc'[p].pc \in InHandSteps /\ Row(p)' = Row(p)
      BY <3>1, <3>2, GoAfter DEF LookForLog, OpenLog, WriteHeader, InHandSteps
    <3> QED BY <2>2, <3>1, <3>3 DEF InHand
  <2> QED BY <2>1, <2>2
<1> QED BY <1>1, <1>2 DEF Kept

LEMMA CopiesStep ==
  ASSUME JobInv, Alone, NEW p \in Procs, Step(p) \/ Crash(p), ~ overlapped' PROVE CopiesPaid'
<1>1. /\ ~ overlapped /\ OneCommand /\ CopiesPaid
      /\ \A r \in Procs : Working(r) => KnowsLog(r) /\ LogAsSeen(r)
  BY OverlappedStays DEF Alone
<1>2. TypeOK /\ TypeOK' /\ Shape(p) /\ copies \in [Items -> Nat] /\ faults \in Nat
  BY StepTypes DEF JobInv, Shapes, TypeOK
<1> SUFFICES ASSUME NEW i \in Items
             PROVE  copies'[i] <= faults' + (IF HeadItem(i)' THEN 1 ELSE 0) + (IF Kept(i)' THEN 1 ELSE 0)
  BY DEF CopiesPaid
<1>3. CASE Crash(p)
  <2>1. copies' = copies /\ faults' = faults + 1 /\ log' = log
    BY <1>3 DEF Crash, Fault, Files
  <2>2. HeadItem(i)' <=> HeadItem(i)
    BY <2>1 DEF HeadItem
  <2> QED BY <1>1, <2>1, <2>2, PaidKept
<1>4. CASE OpenLog(p)
  <2>1. log = Absent /\ log' = <<>>
    BY <1>1, <1>4, LoggerWorks DEF LogAsSeen, OpenLog, At
  <2>2. Logged = {} /\ (HeadItem(i)' <=> HeadItem(i))
    BY <1>2, <2>1, LoggedFacts DEF HeadItem
  <2>3. copies' = copies /\ faults' = faults /\ Step(p) /\ ~ AppendRow(p)
    BY <1>4 DEF OpenLog, AppendRow, At, Rest, Step
  <2>4. Kept(i) => Kept(i)'
    BY <2>2, <2>3, HandKept
  <2> QED BY <1>1, <2>2, <2>3, <2>4, PaidKept
<1>5. CASE WriteHeader(p)
  <2>1. log = <<>>
    BY <1>1, <1>5, LoggerWorks DEF LogAsSeen, WriteHeader, At
  <2>2. Logged = {} /\ ~ HeadItem(i) /\ ~ HeadItem(i)'
    BY <1>2, <1>5, <2>1, LoggedFacts, HeaderLogged DEF HeadItem
  <2>3. copies' = copies /\ faults' = faults /\ Step(p) /\ ~ AppendRow(p)
    BY <1>5 DEF WriteHeader, AppendRow, At, Rest, Step
  <2>4. Kept(i) => Kept(i)'
    BY <2>2, <2>3, HandKept
  <2> QED BY <1>1, <2>2, <2>3, <2>4, PaidKept
<1>6. CASE AppendRow(p)
  <2>1. copies' = copies /\ faults' = faults
    BY <1>6 DEF AppendRow, Rest
  <2>2. \A q \in Procs : InHand(q, i) => i = Row(p)
    <3>1. ASSUME NEW q \in Procs, InHand(q, i) PROVE q = p
      <4>1. Working(q)
        BY <3>1 DEF InHand, InHandSteps, Working, Active, JobInv, Shapes, Shape
      <4> QED BY <1>1, <1>6, <4>1, LoggerWorks DEF OneCommand
    <3> QED BY <3>1 DEF InHand
  <2>3. CASE log = <<>> /\ i = Row(p)
    <3>1. ~ HeadItem(i) /\ HeadItem(i)' /\ Kept(i)
      <4>1. InHand(p, i)
        BY <1>6, <2>3, LoggerWorks DEF InHand
      <4> QED BY <1>2, <1>6, <2>3, <4>1, AppendLogged DEF HeadItem, Kept
    <3>2. copies[i] <= faults + 1
      BY <1>1, <1>2, <3>1 DEF CopiesPaid
    <3> QED BY <1>2, <2>1, <3>1, <3>2
  <2>4. CASE log = <<>> /\ i # Row(p)
    <3>1. Logged = {} /\ ~ HeadItem(i) /\ ~ Kept(i)
      BY <1>2, <2>2, <2>4, LoggedFacts DEF HeadItem, Kept
    <3>2. copies[i] <= faults
      BY <1>1, <1>2, <3>1 DEF CopiesPaid
    <3> QED BY <1>2, <2>1, <3>2
  <2>5. CASE log # <<>>
    <3>1. Logged' = Logged \cup {Row(p)} /\ (HeadItem(i)' <=> HeadItem(i))
      BY <1>2, <1>6, <2>5, AppendLogged
    <3>2. Kept(i) => Kept(i)'
      BY <2>2, <3>1 DEF Kept
    <3> QED BY <1>1, <2>1, <3>1, <3>2, PaidKept
  <2> QED BY <2>3, <2>4, <2>5
<1>7. CASE LoadItem(p)
  <2>1. /\ Row(p) \in Items /\ Row(p) \notin proc[p].keys /\ log' = log
        /\ \/ /\ faults' = faults /\ copies'[i] = copies[i] + (IF i = Row(p) THEN 1 ELSE 0)
              /\ i = Row(p) => InHand(p, i)'
           \/ faults' = faults + 1 /\ copies'[i] \in {copies[i], copies[i] + 1}
    BY <1>7, LoadCounts
  <2>2. (HeadItem(i)' <=> HeadItem(i)) /\ Logged' = Logged
    BY <2>1 DEF HeadItem, Logged
  <2>3. Kept(i) => Kept(i)'
    BY <1>7, <2>2, HandKept DEF Step, LoadItem, AppendRow, At
  <2>4. copies[i] <= faults + (IF HeadItem(i) THEN 1 ELSE 0) + (IF Kept(i) THEN 1 ELSE 0)
        /\ copies[i] \in Nat
    BY <1>1, <1>2 DEF CopiesPaid
  <2>5. CASE faults' = faults /\ i = Row(p) /\ copies'[i] = copies[i] + 1 /\ InHand(p, i)'
    <3>1. Kept(i)'
      BY <2>5 DEF Kept
    <3>2. Working(p) /\ KnowsLog(p) /\ proc[p].pc = "load"
      BY <1>1, <1>2, <1>7 DEF LoadItem, At, Working, Active, Shape
    <3>3. i \notin Logged
      BY <2>1, <2>5, <3>2 DEF KnowsLog
    <3>4. ASSUME NEW q \in Procs, InHand(q, i) PROVE FALSE
      <4>1. Working(q) /\ proc[q].pc # "load"
        BY <3>4 DEF InHand, InHandSteps, Working, Active, JobInv, Shapes, Shape
      <4> QED BY <1>1, <3>2, <4>1 DEF OneCommand
    <3>5. ~ Kept(i)
      BY <3>3, <3>4 DEF Kept
    <3> QED BY <1>2, <2>2, <2>4, <2>5, <3>1, <3>5
  <2>6. CASE faults' = faults /\ copies'[i] = copies[i]
    BY <1>2, <2>2, <2>3, <2>4, <2>6
  <2>7. CASE faults' = faults + 1 /\ copies'[i] \in {copies[i], copies[i] + 1}
    BY <1>2, <2>2, <2>3, <2>4, <2>7
  <2>8. copies[i] \in Nat
    BY <1>2
  <2> QED BY <2>1, <2>5, <2>6, <2>7, <2>8
<1>8. CASE Step(p) /\ log' = log /\ ~ AppendRow(p) /\ ~ LoadItem(p)
  <2>1. (HeadItem(i)' <=> HeadItem(i)) /\ Logged' = Logged
    BY <1>8 DEF HeadItem, Logged
  <2>2. Kept(i) => Kept(i)'
    BY <1>8, <2>1, HandKept
  <2> QED BY <1>1, <1>8, <2>1, <2>2, NothingCreated, PaidKept
<1> QED BY <1>3, <1>4, <1>5, <1>6, <1>7, <1>8, LogSteps

LEMMA CountStep ==
  ASSUME CountInv, NEW p \in Procs, Step(p) \/ Crash(p) PROVE CountInv'
<1>1. JobInv /\ PaidTogether /\ Alone
  BY DEF CountInv
<1>2. JobInv' /\ PaidTogether'
  BY <1>1, JobStep, PaidStep
<1>3. ASSUME ~ overlapped'
      PROVE  OneCommand' /\ CopiesPaid' /\ \A q \in Procs : Working(q)' => KnowsLog(q)' /\ LogAsSeen(q)'
  <2>1. OneCommand
    BY <1>1, <1>3, OverlappedStays DEF Alone
  <2> QED BY <1>1, <1>3, <2>1, OneCommandStep, CopiesStep, LogKnownStep
<1> QED BY <1>2, <1>3 DEF CountInv, Alone

LEMMA CountInit == Init => CountInv
<1> SUFFICES ASSUME Init PROVE CountInv
  OBVIOUS
<1>1. JobInv /\ \A i \in Items : copies[i] = 0
  BY JobInit DEF Init
<1>2. faults = 0
  BY DEF Init
<1>3. \A p \in Procs : ~ Working(p)
  BY DEF Init, Working, Active
<1>4. PaidTogether
  BY <1>1, <1>2, MadeFacts DEF PaidTogether
<1>5. CopiesPaid
  BY <1>1, <1>2 DEF CopiesPaid
<1> QED BY <1>1, <1>3, <1>4, <1>5 DEF CountInv, Alone, OneCommand

LEMMA CountImplies == CountInv => DuplicatesNeedCause
<1> SUFFICES ASSUME CountInv, NEW i \in Items
             PROVE  copies[i] <= faults + IF overlapped THEN Cardinality({p \in Procs : Kind(p) # "show"})
                                          ELSE IF HeaderLost THEN 2 ELSE 1
  BY DEF DuplicatesNeedCause
<1> DEFINE Commands == {p \in Procs : Kind(p) # "show"}
<1>1. copies[i] \in Nat /\ faults \in Nat /\ copies[i] <= faults + Cardinality(Made(i))
  BY DEF CountInv, JobInv, TypeOK, PaidTogether
<1>2. CASE overlapped
  <2>1. IsFiniteSet(Commands) /\ Cardinality(Commands) \in Nat
    BY RequestAssumption, FS_Subset, FS_CardinalityType
  <2>2. Made(i) \subseteq Commands
    BY DEF Made
  <2> HIDE DEF Commands
  <2>3. Cardinality(Made(i)) <= Cardinality(Commands) /\ Cardinality(Made(i)) \in Nat
    BY <2>1, <2>2, FS_Subset, MadeFacts
  <2>4. copies[i] <= faults + Cardinality(Commands)
    BY <1>1, <2>1, <2>3
  <2> QED BY <1>2, <2>4 DEF Commands
<1>3. CASE ~ overlapped
  <2>1. copies[i] <= faults + (IF HeadItem(i) THEN 1 ELSE 0) + (IF Kept(i) THEN 1 ELSE 0)
    BY <1>3 DEF CountInv, Alone, CopiesPaid
  <2>2. HeadItem(i) => HeaderLost
    BY RequestAssumption DEF HeadItem, HeaderLost
  <2> QED BY <1>1, <1>3, <2>1, <2>2
<1> QED BY <1>2, <1>3

(* However many commands create, convert and resume one job, one after the *)
(* other, each item is created once, and once more for every crash or lost *)
(* answer and for a log that lost its header; and if they are at work at   *)
(* once, at most once by each of them, and once more for what fails.       *)
THEOREM DuplicatesHaveCause == Spec => []DuplicatesNeedCause
<1>1. CountInv /\ [Next]_vars => CountInv'
  <2> SUFFICES ASSUME CountInv, [Next]_vars PROVE CountInv'
    OBVIOUS
  <2>1. CASE Next
    BY <2>1, CountStep DEF Next
  <2>2. CASE UNCHANGED vars
    <3>1. /\ asked' = asked /\ dir' = dir /\ config' = config /\ source' = source /\ log' = log
          /\ copies' = copies /\ proc' = proc /\ overlapped' = overlapped /\ faults' = faults
      BY <2>2 DEF vars
    <3>2. /\ \A p \in Procs : (Shape(p)' <=> Shape(p)) /\ (Working(p)' <=> Working(p))
          /\ \A p, i : (InHand(p, i)' <=> InHand(p, i))
          /\ \A p : Kind(p)' = Kind(p)
          /\ Logged' = Logged
          /\ \A i : HeadItem(i)' <=> HeadItem(i)
      BY <3>1 DEF Shape, Kind, File, Row, Working, Active, InHand, Logged, HeadItem
    <3>3. JobInv'
      BY <3>1, <3>2 DEF CountInv, JobInv, TypeOK, Shapes
    <3>4. \A i : Made(i)' = Made(i) /\ (Kept(i)' <=> Kept(i))
      BY <3>1, <3>2 DEF Made, Kept
    <3>5. PaidTogether' /\ (CopiesPaid' <=> CopiesPaid)
      BY <3>1, <3>2, <3>4 DEF CountInv, PaidTogether, CopiesPaid
    <3>6. \A p \in Procs : (KnowsLog(p)' <=> KnowsLog(p)) /\ (LogAsSeen(p)' <=> LogAsSeen(p))
      BY <3>1, <3>2 DEF KnowsLog, LogAsSeen
    <3>7. OneCommand' <=> OneCommand
      BY <3>2 DEF OneCommand
    <3> QED BY <3>1, <3>2, <3>3, <3>5, <3>6, <3>7 DEF CountInv, Alone
  <2> QED BY <2>1, <2>2
<1> QED BY <1>1, CountInit, CountImplies, PTL DEF Spec
-----------------------------------------------------------------------------
(* What each step does, field by field.                                    *)
RowSteps == {"row", "load"} \cup InHandSteps
SourceSteps == {"open", "rewind"} \cup RowSteps
Creating(p) == Kind(p) \in {"create", "convert"}

Holds(p) ==
  /\ proc'[p].keys = proc[p].keys /\ proc'[p].rows = proc[p].rows
  /\ proc'[p].at = proc[p].at /\ proc'[p].total = proc[p].total
Moves(p, from, to) ==
  /\ proc[p].pc = from /\ proc'[p].pc = to
  /\ Holds(p) /\ proc'[p].result = proc[p].result
Ends(p, from, result) ==
  /\ proc[p].pc = from /\ proc'[p].pc = "end" /\ Holds(p) /\ proc'[p].result = result

LEMMA MovesAndEnds ==
  ASSUME TypeOK, NEW p \in Procs, NEW from, At(p, from)
  PROVE  /\ \A pc : Go(p, pc) => Moves(p, from, pc)
         /\ \A result : End(p, result) => Ends(p, from, result)
BY ProcFacts DEF Go, End, At, Moves, Ends, Holds, Processes

LEMMA LookDoes ==
  ASSUME TypeOK, NEW p \in Procs, Look(p)
  PROVE  /\ UNCHANGED <<dir, config, source, log, copies>>
         /\ \/ Ends(p, "start", "refused") /\ Creating(p) /\ dir
            \/ Ends(p, "start", "not_found") /\ ~ Creating(p) /\ ~ dir
            \/ /\ \/ Moves(p, "start", "mkdir") /\ Creating(p) /\ ~ dir
                  \/ Moves(p, "start", "construct") /\ ~ Creating(p) /\ dir
               /\ ~ overlapped' /\ Kind(p) # "show" => \A q \in Procs \ {p} : ~ Working(q)
<1>1. At(p, "start") /\ UNCHANGED <<dir, config, source, log, copies>>
  BY DEF Look, Files
<1>2. CASE Creating(p) /\ dir
  BY <1>1, <1>2, MovesAndEnds DEF Look, Creating
<1>3. CASE ~ Creating(p) /\ ~ dir
  BY <1>1, <1>3, MovesAndEnds DEF Look, Creating
<1>4. CASE ~ ((Creating(p) /\ dir) \/ (~ Creating(p) /\ ~ dir))
  <2>1. Go(p, IF Creating(p) THEN "mkdir" ELSE "construct")
    BY <1>4 DEF Look, Creating
  <2>2. ~ overlapped' /\ Kind(p) # "show" => \A q \in Procs \ {p} : ~ Working(q)
    BY <1>4 DEF Look, Creating, Working
  <2> QED BY <1>1, <1>4, <2>1, <2>2, MovesAndEnds
<1> QED BY <1>1, <1>2, <1>3, <1>4

LEMMA MakeDirDoes ==
  ASSUME TypeOK, NEW p \in Procs, MakeDir(p)
  PROVE  Moves(p, "mkdir", "config_open") /\ dir' = TRUE /\ UNCHANGED <<config, source, log, copies>>
BY MovesAndEnds DEF MakeDir, Files

LEMMA OpenConfigDoes ==
  ASSUME TypeOK, NEW p \in Procs, OpenConfig(p)
  PROVE  /\ Moves(p, "config_open", "config_write") /\ config' = Empty
         /\ UNCHANGED <<dir, source, log, copies>>
BY MovesAndEnds DEF OpenConfig

LEMMA WriteConfigDoes ==
  ASSUME TypeOK, NEW p \in Procs, WriteConfig(p)
  PROVE  /\ Moves(p, "config_write", "construct") /\ config' = p
         /\ UNCHANGED <<dir, source, log, copies>>
BY MovesAndEnds DEF WriteConfig

LEMMA ConstructDoes ==
  ASSUME TypeOK, NEW p \in Procs, Construct(p)
  PROVE  /\ UNCHANGED <<dir, config, source, log, copies>>
         /\ \/ Unkeyed(log) /\ Ends(p, "construct", "bad_log")
            \/ /\ proc[p].pc = "construct" /\ proc'[p].pc = "load_config"
               /\ proc'[p].rows = proc[p].rows /\ proc'[p].total = proc[p].total
               /\ proc'[p].result = proc[p].result /\ proc'[p].keys = Logged
<1>1. At(p, "construct") /\ UNCHANGED <<dir, config, source, log, copies>>
  BY DEF Construct, Files
<1>2. CASE Unkeyed(log)
  BY <1>1, <1>2, MovesAndEnds DEF Construct
<1>3. CASE ~ Unkeyed(log)
  <2>1. PICK keys \in SUBSET (Items \cup {Junk}) :
           /\ keys = {Lines(log)[k] : k \in DOMAIN Lines(log)}
           /\ proc' = [proc EXCEPT ![p] = [proc[p] EXCEPT !.pc = "load_config", !.keys = keys]]
    BY <1>3, ReadKeysState DEF Construct
  <2> QED BY <1>1, <2>1, ProcFacts DEF Processes, Logged, At
<1> QED BY <1>2, <1>3

LEMMA LoadConfigDoes ==
  ASSUME TypeOK, NEW p \in Procs, LoadConfig(p)
  PROVE  /\ UNCHANGED <<dir, config, source, log, copies>>
         /\ \/ config \in {Absent, Empty} /\ Ends(p, "load_config", "no_config")
            \/ Kind(p) = "convert" /\ Moves(p, "load_config", "convert_open")
            \/ (Kind(p) = "show" \/ File(p) = Absent) /\ Moves(p, "load_config", "open")
            \/ /\ Kind(p) \notin {"convert", "show"} /\ File(p) # Absent
               /\ Moves(p, "load_config", "store_open")
<1>1. At(p, "load_config") /\ UNCHANGED <<dir, config, source, log, copies>>
  BY DEF LoadConfig, Files
<1>2. \/ config \in {Absent, Empty} /\ End(p, "no_config")
      \/ Kind(p) = "convert" /\ Go(p, "convert_open")
      \/ (Kind(p) = "show" \/ File(p) = Absent) /\ Go(p, "open")
      \/ Kind(p) \notin {"convert", "show"} /\ File(p) # Absent /\ Go(p, "store_open")
  BY DEF LoadConfig
<1> QED BY <1>1, <1>2, MovesAndEnds

LEMMA OpenFileDoes ==
  ASSUME TypeOK, NEW p \in Procs
  PROVE  /\ OpenConverted(p) => Moves(p, "convert_open", "convert") /\ source' = Empty
         /\ OpenStore(p) => Moves(p, "store_open", "store_write") /\ source' = Empty
         /\ OpenConverted(p) \/ OpenStore(p) => UNCHANGED <<dir, config, log, copies>>
BY MovesAndEnds DEF OpenConverted, OpenStore

LEMMA WriteStoreDoes ==
  ASSUME TypeOK, NEW p \in Procs, WriteStore(p)
  PROVE  /\ Moves(p, "store_write", "open") /\ source' = File(p)
         /\ UNCHANGED <<dir, config, log, copies>>
BY MovesAndEnds DEF WriteStore

LEMMA ConvertDoes ==
  ASSUME TypeOK, NEW p \in Procs, Shape(p), Convert(p)
  PROVE  LET done == proc[p].rows  k == Len(done) + 1 IN
         /\ UNCHANGED <<dir, config, log, copies>> /\ proc[p].pc = "convert"
         /\ File(p) \in Seq(Items) /\ done \in Seq(Items) /\ proc'[p].keys = proc[p].keys
         /\ \/ /\ k <= Len(File(p)) /\ proc'[p].pc = "convert" /\ proc'[p].result = proc[p].result
               /\ proc'[p].rows = Append(done, File(p)[k])
            \/ /\ k > Len(File(p)) /\ source' = done /\ proc'[p].pc = "open"
               /\ proc'[p].rows = <<>> /\ proc'[p].result = proc[p].result
            \/ Ends(p, "convert", "unread") /\ source' = done
<1> DEFINE done == proc[p].rows  k == Len(done) + 1
<1>1. /\ UNCHANGED <<dir, config, log, copies>> /\ At(p, "convert") /\ proc[p] \in Processes
      /\ proc \in [Procs -> Processes]
  BY ProcFacts DEF Convert
<1>2. File(p) \in Seq(Items) /\ done \in Seq(Items)
  BY <1>1, FileTypes DEF Shape, At, Processes
<1>3. CASE /\ k <= Len(File(p)) /\ UNCHANGED faults
           /\ proc' = [proc EXCEPT ![p].rows = Append(done, File(p)[k])]
           /\ source' \in {source, done}
  <2>1. /\ proc'[p].pc = proc[p].pc /\ proc'[p].result = proc[p].result /\ proc'[p].keys = proc[p].keys
        /\ proc'[p].rows = Append(done, File(p)[k])
    BY <1>1, <1>3 DEF Processes
  <2> QED BY <1>1, <1>2, <1>3, <2>1 DEF At
<1>4. CASE /\ k > Len(File(p)) /\ source' = done /\ UNCHANGED faults
           /\ proc' = [proc EXCEPT ![p].pc = "open", ![p].rows = <<>>]
  <2>1. /\ proc'[p].pc = "open" /\ proc'[p].result = proc[p].result /\ proc'[p].keys = proc[p].keys
        /\ proc'[p].rows = <<>>
    BY <1>1, <1>4 DEF Processes
  <2> QED BY <1>1, <1>2, <1>4, <2>1 DEF At
<1>5. CASE End(p, "unread") /\ source' = done
  <2>1. Ends(p, "convert", "unread")
    BY <1>1, <1>5, MovesAndEnds
  <2> QED BY <1>1, <1>2, <1>5, <2>1 DEF Ends, Holds
<1> QED BY <1>3, <1>4, <1>5 DEF Convert

LEMMA OpenSourceDoes ==
  ASSUME TypeOK, NEW p \in Procs, OpenSource(p)
  PROVE  /\ UNCHANGED <<dir, config, source, log, copies>>
         /\ \/ source = Absent /\ Ends(p, "open", "no_source")
            \/ source \in {Empty, <<>>} /\ Ends(p, "open", "bad_source")
            \/ Kind(p) = "show" /\ Ends(p, "open", "shown")
            \/ /\ source \in Seq(Items) /\ source # <<>>
               /\ proc[p].pc = "open" /\ proc'[p].pc = "rewind" /\ proc'[p].total = Len(source)
               /\ proc'[p].rows = proc[p].rows /\ proc'[p].keys = proc[p].keys
               /\ proc'[p].result = proc[p].result
<1>1. At(p, "open") /\ UNCHANGED <<dir, config, source, log, copies>>
  BY DEF OpenSource, Files
<1>2. \/ source = Absent /\ End(p, "no_source")
      \/ source \in {Empty, <<>>} /\ End(p, "bad_source")
      \/ Kind(p) = "show" /\ End(p, "shown")
      \/ /\ source \notin {Absent, Empty, <<>>}
         /\ proc' = [proc EXCEPT ![p].pc = "rewind", ![p].total = Len(source)]
  BY DEF OpenSource
<1>3. CASE /\ source \notin {Absent, Empty, <<>>}
           /\ proc' = [proc EXCEPT ![p].pc = "rewind", ![p].total = Len(source)]
  <2>1. /\ proc'[p].pc = "rewind" /\ proc'[p].total = Len(source) /\ proc'[p].rows = proc[p].rows
        /\ proc'[p].keys = proc[p].keys /\ proc'[p].result = proc[p].result
    BY <1>3, ProcFacts DEF Processes
  <2>2. source \in Seq(Items)
    BY <1>3 DEF TypeOK, Sources
  <2> QED BY <1>1, <1>3, <2>1, <2>2 DEF At
<1> QED BY <1>1, <1>2, <1>3, MovesAndEnds

LEMMA RewindDoes ==
  ASSUME TypeOK, NEW p \in Procs, Rewind(p)
  PROVE  /\ UNCHANGED <<dir, config, source, log, copies>>
         /\ proc[p].pc = "rewind" /\ proc'[p].pc = "row" /\ proc'[p].total = proc[p].total
         /\ proc'[p].rows = (IF source = Empty THEN <<>> ELSE source)
         /\ proc'[p].keys = proc[p].keys /\ proc'[p].result = proc[p].result
<1>1. At(p, "rewind") /\ UNCHANGED <<dir, config, source, log, copies>>
  BY DEF Rewind, Files
<1> DEFINE rows == IF source = Empty THEN <<>> ELSE source
<1>2. proc' = [proc EXCEPT ![p].pc = "row", ![p].rows = rows]
  BY DEF Rewind
<1> HIDE DEF rows
<1>3. /\ proc'[p].pc = "row" /\ proc'[p].total = proc[p].total /\ proc'[p].rows = rows
      /\ proc'[p].keys = proc[p].keys /\ proc'[p].result = proc[p].result
  BY <1>2, ProcFacts DEF Processes
<1> QED BY <1>1, <1>3 DEF At, rows

(* A step to the next row. *)
Skips(p, from) ==
  /\ proc[p].pc = from /\ proc'[p].pc = "row" /\ proc'[p].rows = proc[p].rows
  /\ proc'[p].total = proc[p].total /\ proc'[p].result = proc[p].result

LEMMA TakeRowDoes ==
  ASSUME TypeOK, NEW p \in Procs, TakeRow(p)
  PROVE  /\ UNCHANGED <<dir, config, source, log, copies>>
         /\ \/ Completed(p) /\ Ends(p, "row", "complete")
            \/ Ends(p, "row", "incomplete")
            \/ Skips(p, "row") /\ proc'[p].keys = proc[p].keys
            \/ Moves(p, "row", "load")
<1>1. At(p, "row") /\ UNCHANGED <<dir, config, source, log, copies>>
  BY DEF TakeRow, Files
<1>2. \/ Completed(p) /\ End(p, "complete")
      \/ End(p, "incomplete")
      \/ proc' = [proc EXCEPT ![p].at = @ + 1]
      \/ Go(p, "load")
  BY DEF TakeRow
<1>3. CASE proc' = [proc EXCEPT ![p].at = @ + 1]
  BY <1>1, <1>3, ProcFacts DEF Processes, Skips, At
<1> QED BY <1>1, <1>2, <1>3, MovesAndEnds

LEMMA LoadItemDoes ==
  ASSUME TypeOK, NEW p \in Procs, LoadItem(p)
  PROVE  /\ UNCHANGED <<dir, config, source, log>> /\ Row(p) \in Items
         /\ proc'[p].keys = proc[p].keys
         /\ \/ Moves(p, "load", "append") /\ copies' = [copies EXCEPT ![Row(p)] = @ + 1]
            \/ Skips(p, "load") /\ copies' \in {copies, [copies EXCEPT ![Row(p)] = @ + 1]}
<1>1. At(p, "load") /\ UNCHANGED <<dir, config, source, log>>
  BY DEF LoadItem, Files
<1>2. Row(p) \in Items
  BY <1>1, RowFacts DEF At
<1> DEFINE created == [copies EXCEPT ![Row(p)] = @ + 1]
<1>3. \/ Go(p, "append") /\ copies' = created
      \/ /\ copies' \in {copies, created}
         /\ proc' = [proc EXCEPT ![p].pc = "row", ![p].at = @ + 1]
  BY DEF LoadItem
<1> HIDE DEF created
<1>4. CASE Go(p, "append") /\ copies' = created
  <2>1. Moves(p, "load", "append")
    BY <1>1, <1>4, MovesAndEnds
  <2> QED BY <1>1, <1>2, <1>4, <2>1 DEF created, Moves, Holds
<1>5. CASE /\ copies' \in {copies, created}
           /\ proc' = [proc EXCEPT ![p].pc = "row", ![p].at = @ + 1]
  <2>1. Skips(p, "load") /\ proc'[p].keys = proc[p].keys
    BY <1>1, <1>5, ProcFacts DEF Processes, Skips, At
  <2> QED BY <1>1, <1>2, <1>5, <2>1 DEF created
<1> QED BY <1>3, <1>4, <1>5

LEMMA LogDoes ==
  ASSUME TypeOK, NEW p \in Procs
  PROVE  /\ LookForLog(p) => /\ log' = log
                             /\ \/ log = Absent /\ Moves(p, "append", "log_open")
                                \/ log # Absent /\ Moves(p, "append", "log_row")
         /\ OpenLog(p) => Moves(p, "log_open", "log_header") /\ log' = <<>>
         /\ WriteHeader(p) => Moves(p, "log_header", "log_row")
         /\ LookForLog(p) \/ OpenLog(p) \/ WriteHeader(p) => UNCHANGED <<dir, config, source, copies>>
<1>1. CASE LookForLog(p)
  <2>1. At(p, "append") /\ Go(p, IF log = Absent THEN "log_open" ELSE "log_row")
        /\ UNCHANGED <<dir, config, source, log, copies>> /\ ~ OpenLog(p) /\ ~ WriteHeader(p)
    BY <1>1 DEF LookForLog, OpenLog, WriteHeader, Files, At
  <2> QED BY <2>1, MovesAndEnds
<1>2. CASE ~ LookForLog(p)
  BY <1>2, MovesAndEnds DEF OpenLog, WriteHeader
<1> QED BY <1>1, <1>2

LEMMA AppendRowDoes ==
  ASSUME TypeOK, NEW p \in Procs, AppendRow(p)
  PROVE  /\ UNCHANGED <<dir, config, source, copies>>
         /\ Skips(p, "log_row") /\ proc'[p].keys = proc[p].keys \cup {Row(p)}
<1>1. At(p, "log_row") /\ UNCHANGED <<dir, config, source, copies>>
  BY DEF AppendRow
<1> DEFINE keys == proc[p].keys \cup {Row(p)}
<1>2. proc' = [proc EXCEPT ![p].pc = "row", ![p].at = @ + 1, ![p].keys = keys]
  BY ProcFacts DEF AppendRow
<1> HIDE DEF keys
<1>3. Skips(p, "log_row") /\ proc'[p].keys = keys
  BY <1>1, <1>2, ProcFacts DEF Processes, Skips, At
<1> QED BY <1>1, <1>3 DEF keys

LEMMA CrashDoes ==
  ASSUME TypeOK, NEW p \in Procs, Crash(p)
  PROVE  /\ UNCHANGED <<dir, config, source, log, copies>> /\ Active(p)
         /\ Ends(p, proc[p].pc, "crashed")
<1>1. /\ UNCHANGED <<dir, config, source, log, copies>> /\ Active(p)
      /\ At(p, proc[p].pc) /\ End(p, "crashed")
  BY DEF Crash, Files, At
<1> QED BY <1>1, MovesAndEnds

-----------------------------------------------------------------------------
(* Whoever writes a file is a command at work, and a process that has      *)
(* ended stays as it is.                                                   *)
LEMMA OnlyWorkersWrite ==
  ASSUME JobInv, NEW p \in Procs, Step(p) \/ Crash(p), ~ Working(p)
  PROVE  UNCHANGED <<dir, config, source, log>>
<1>1. TypeOK /\ Shape(p)
  BY DEF JobInv, Shapes
<1>2. proc[p].pc \in {"start", "construct", "load_config", "open", "end"}
  BY <1>1 DEF Shape, Working, Active
<1>3. CASE Look(p) \/ Construct(p) \/ LoadConfig(p) \/ OpenSource(p) \/ Crash(p)
  BY <1>1, <1>3, LookDoes, ConstructDoes, LoadConfigDoes, OpenSourceDoes, CrashDoes
<1> QED BY <1>2, <1>3 DEF Step, MakeDir, OpenConfig, WriteConfig, OpenConverted, Convert, OpenStore,
           WriteStore, Rewind, TakeRow, LoadItem, LookForLog, OpenLog, WriteHeader, AppendRow, At

(* The step a process takes next depends on where it is.                   *)
LEMMA StepAt ==
  ASSUME NEW p \in Procs, Step(p)
  PROVE  /\ proc[p].pc = "config_open" => OpenConfig(p)
         /\ proc[p].pc = "config_write" => WriteConfig(p)
         /\ proc[p].pc = "construct" => Construct(p)
         /\ proc[p].pc = "load_config" => LoadConfig(p)
         /\ proc[p].pc = "convert_open" => OpenConverted(p)
         /\ proc[p].pc = "convert" => Convert(p)
         /\ proc[p].pc = "store_open" => OpenStore(p)
         /\ proc[p].pc = "store_write" => WriteStore(p)
         /\ proc[p].pc = "log_header" => WriteHeader(p)
BY DEF Step, Look, MakeDir, OpenConfig, WriteConfig, Construct, LoadConfig, OpenConverted, Convert,
   OpenStore, WriteStore, OpenSource, Rewind, TakeRow, LoadItem, LookForLog, OpenLog, WriteHeader,
   AppendRow, At

LEMMA NotEnded ==
  ASSUME NEW p \in Procs, Step(p) \/ Crash(p) PROVE proc[p].pc # "end"
BY DEF Step, Crash, Active, Look, MakeDir, OpenConfig, WriteConfig, Construct, LoadConfig,
   OpenConverted, Convert, OpenStore, WriteStore, OpenSource, Rewind, TakeRow, LoadItem,
   LookForLog, OpenLog, WriteHeader, AppendRow, At

(* The directory is made once, by MakeDir, and config.yml and source.csv   *)
(* are written by the four steps that open and write them, and Convert.    *)
LEMMA WrittenBy ==
  ASSUME TypeOK, NEW p \in Procs, Step(p) \/ Crash(p)
  PROVE  /\ dir' = dir \/ MakeDir(p)
         /\ config' = config \/ OpenConfig(p) \/ WriteConfig(p)
         /\ source' = source \/ OpenConverted(p) \/ Convert(p) \/ OpenStore(p) \/ WriteStore(p)
         /\ dir => dir'
<1>1. dir' = dir \/ MakeDir(p)
  BY DEF Step, Crash, Files, Rest, Look, MakeDir, OpenConfig, WriteConfig, Construct,
     LoadConfig, OpenConverted, Convert, OpenStore, WriteStore, OpenSource, Rewind, TakeRow,
     LoadItem, LookForLog, OpenLog, WriteHeader, AppendRow
<1>2. config' = config \/ OpenConfig(p) \/ WriteConfig(p)
  BY DEF Step, Crash, Files, Rest, Look, MakeDir, OpenConfig, WriteConfig, Construct,
     LoadConfig, OpenConverted, Convert, OpenStore, WriteStore, OpenSource, Rewind, TakeRow,
     LoadItem, LookForLog, OpenLog, WriteHeader, AppendRow
<1>3. source' = source \/ OpenConverted(p) \/ Convert(p) \/ OpenStore(p) \/ WriteStore(p)
  BY DEF Step, Crash, Files, Rest, Look, MakeDir, OpenConfig, WriteConfig, Construct,
     LoadConfig, OpenConverted, Convert, OpenStore, WriteStore, OpenSource, Rewind, TakeRow,
     LoadItem, LookForLog, OpenLog, WriteHeader, AppendRow
<1>4. dir => dir'
  BY <1>1, MakeDirDoes
<1> QED BY <1>1, <1>2, <1>3, <1>4

-----------------------------------------------------------------------------
(* A process has a result when it has ended.                               *)
EndsOnce == \A p \in Procs : proc[p].result = "" <=> proc[p].pc # "end"

LEMMA EndsOnceStep ==
  ASSUME JobInv, EndsOnce, NEW p \in Procs, Step(p) \/ Crash(p) PROVE EndsOnce'
<1>0. TypeOK /\ Shape(p) /\ proc[p].pc # "end" /\ proc[p].result = ""
  BY NotEnded DEF JobInv, Shapes, EndsOnce
<1>1. CASE proc'[p].pc # "end" /\ proc'[p].result = proc[p].result
  BY <1>0, <1>1, Others DEF EndsOnce
<1>2. CASE proc'[p].pc = "end" /\ proc'[p].result # ""
  BY <1>0, <1>2, Others DEF EndsOnce
<1>3. CASE Look(p) \/ MakeDir(p) \/ OpenConfig(p) \/ WriteConfig(p) \/ Construct(p) \/ LoadConfig(p)
  <2>1. CASE Look(p)
    BY <1>0, <1>1, <1>2, <2>1, LookDoes DEF Moves, Ends
  <2>2. CASE MakeDir(p) \/ OpenConfig(p) \/ WriteConfig(p)
    BY <1>0, <1>1, <2>2, MakeDirDoes, OpenConfigDoes, WriteConfigDoes DEF Moves
  <2>3. CASE Construct(p) \/ LoadConfig(p)
    BY <1>0, <1>1, <1>2, <2>3, ConstructDoes, LoadConfigDoes DEF Moves, Ends
  <2> QED BY <1>3, <2>1, <2>2, <2>3
<1>4. CASE OpenConverted(p) \/ Convert(p) \/ OpenStore(p) \/ WriteStore(p) \/ OpenSource(p) \/ Rewind(p)
  <2>1. CASE OpenConverted(p) \/ OpenStore(p) \/ WriteStore(p)
    BY <1>0, <1>1, <2>1, OpenFileDoes, WriteStoreDoes DEF Moves
  <2>2. CASE Convert(p)
    BY <1>0, <1>1, <1>2, <2>2, ConvertDoes DEF Ends
  <2>3. CASE OpenSource(p) \/ Rewind(p)
    BY <1>0, <1>1, <1>2, <2>3, OpenSourceDoes, RewindDoes DEF Ends
  <2> QED BY <1>4, <2>1, <2>2, <2>3
<1>5. CASE TakeRow(p) \/ LoadItem(p) \/ LookForLog(p) \/ OpenLog(p) \/ WriteHeader(p) \/ AppendRow(p)
  <2>1. CASE TakeRow(p) \/ LoadItem(p)
    BY <1>0, <1>1, <1>2, <2>1, TakeRowDoes, LoadItemDoes DEF Moves, Ends, Skips
  <2>2. CASE LookForLog(p) \/ OpenLog(p) \/ WriteHeader(p) \/ AppendRow(p)
    BY <1>0, <1>1, <2>2, LogDoes, AppendRowDoes DEF Moves, Skips
  <2> QED BY <1>5, <2>1, <2>2
<1>6. CASE Crash(p)
  BY <1>0, <1>2, <1>6, CrashDoes DEF Ends
<1> QED BY <1>3, <1>4, <1>5, <1>6 DEF Step

-----------------------------------------------------------------------------
(* What is in the log, in somebody's keys or in hand is in the repository. *)
LogLoaded == log # Absent => \A k \in DOMAIN log : log[k] \in Items => log[k] \in Loaded
KnowsLoaded(p) ==
  /\ proc[p].keys \cap Items \subseteq Loaded
  /\ proc[p].pc \in InHandSteps => Row(p) \in Loaded
KnownLoaded == LogLoaded /\ \A p \in Procs : KnowsLoaded(p)

LEMMA LoadedGrows ==
  ASSUME JobInv, NEW p \in Procs, Step(p) \/ Crash(p) PROVE Loaded \subseteq Loaded'
<1>1. CASE ~ LoadItem(p)
  BY <1>1, NothingCreated DEF Loaded
<1>2. CASE LoadItem(p)
  <2>1. TypeOK /\ copies \in [Items -> Nat]
    BY DEF JobInv, TypeOK
  <2>2. Row(p) \in Items /\ copies' \in {copies, [copies EXCEPT ![Row(p)] = @ + 1]}
    BY <1>2, <2>1, LoadItemDoes
  <2> QED BY <2>1, <2>2 DEF Loaded
<1> QED BY <1>1, <1>2

(* The lines of the log after a step are lines it had, the header, halves  *)
(* of lines, and the row in hand.                                          *)
LEMMA HeaderLines ==
  ASSUME TypeOK, NEW p \in Procs, WriteHeader(p)
  PROVE  /\ log' \in Seq(Items \cup {Header, Junk}) /\ log' # <<>> /\ log'[1] = Header
         /\ \A k \in DOMAIN log' : log'[k] \in {Header, Junk} \/ (log # Absent /\ \E j \in DOMAIN log : log[j] = log'[k])
<1>1. log' \in Seq(Items \cup {Header, Junk})
  BY HeaderTypes
<1>2. CASE log \in {Absent, <<>>}
  <2>1. log' = <<Header>>
    BY <1>2 DEF WriteHeader
  <2> QED BY <1>1, <2>1
<1>3. CASE log \notin {Absent, <<>>} /\ log[1] = Header
  <2>1. log' = log
    BY <1>3 DEF WriteHeader
  <2> QED BY <1>1, <1>3, <2>1
<1>4. CASE log \notin {Absent, <<>>} /\ log[1] # Header
  <2> DEFINE Line == Items \cup {Header, Junk}
             t == Tail(log)
  <2>1. log \in Seq(Line) /\ log # <<>> /\ log # Absent
    BY <1>4 DEF TypeOK
  <2>2. t \in Seq(Line) /\ \A k \in DOMAIN t : \E j \in DOMAIN log : log[j] = t[k]
    <3>1. \A k \in DOMAIN t : k + 1 \in DOMAIN log /\ log[k + 1] = t[k]
      BY <2>1
    <3> QED BY <2>1, <3>1
  <2>3. log' = <<Header, Junk>> \o t \/ log' = <<Header>> \o t
    BY <1>4 DEF WriteHeader
  <2> HIDE DEF t
  <2>4. CASE log' = <<Header, Junk>> \o t
    <3>1. Len(log') = 2 + Len(t) /\ log'[1] = Header /\ log'[2] = Junk /\ Len(t) \in Nat
          /\ \A k \in 1..Len(t) : log'[k + 2] = t[k]
      BY <2>2, <2>4
    <3>2. ASSUME NEW k \in DOMAIN log', k # 1, k # 2 PROVE k - 2 \in DOMAIN t /\ log'[k] = t[k - 2]
      BY <1>1, <2>2, <3>1, <3>2
    <3> QED BY <1>1, <2>1, <2>2, <3>1, <3>2
  <2>5. CASE log' = <<Header>> \o t
    <3>1. Len(log') = 1 + Len(t) /\ log'[1] = Header /\ Len(t) \in Nat
          /\ \A k \in 1..Len(t) : log'[k + 1] = t[k]
      BY <2>2, <2>5
    <3>2. ASSUME NEW k \in DOMAIN log', k # 1 PROVE k - 1 \in DOMAIN t /\ log'[k] = t[k - 1]
      BY <1>1, <2>2, <3>1, <3>2
    <3> QED BY <1>1, <2>1, <2>2, <3>1, <3>2
  <2> QED BY <2>3, <2>4, <2>5
<1> QED BY <1>2, <1>3, <1>4

LEMMA LogLoadedStep ==
  ASSUME JobInv, KnownLoaded, NEW p \in Procs, Step(p) \/ Crash(p) PROVE LogLoaded'
<1>0. TypeOK /\ Shape(p) /\ Loaded \subseteq Loaded' /\ LogLoaded /\ KnowsLoaded(p)
  BY LoadedGrows DEF JobInv, Shapes, KnownLoaded
<1>1. CASE log' = log
  BY <1>0, <1>1 DEF LogLoaded
<1>2. CASE OpenLog(p)
  BY <1>0, <1>2, LogDoes DEF LogLoaded
<1>3. CASE WriteHeader(p)
  <2>1. Header \notin Items /\ Junk \notin Items
    BY RequestAssumption
  <2> QED BY <1>0, <1>3, <2>1, HeaderLines DEF LogLoaded
<1>4. CASE AppendRow(p)
  <2>1. proc[p].pc = "log_row" /\ log # Absent
    BY <1>0, <1>4 DEF AppendRow, At, Shape
  <2>2. log \in Seq(Items \cup {Header, Junk}) /\ log' = Append(log, Row(p)) /\ Row(p) \in Loaded
    BY <1>0, <1>4, <2>1, AppendRowFacts DEF KnowsLoaded, InHandSteps
  <2>3. \A k \in DOMAIN log' : log'[k] = Row(p) \/ (k \in DOMAIN log /\ log'[k] = log[k])
    BY <2>2
  <2> QED BY <1>0, <2>1, <2>2, <2>3 DEF LogLoaded
<1> QED BY <1>1, <1>2, <1>3, <1>4, LogSteps

LEMMA KnowsLoadedStep ==
  ASSUME JobInv, KnownLoaded, NEW p \in Procs, Step(p) \/ Crash(p) PROVE KnowsLoaded(p)'
<1>0. TypeOK /\ Shape(p) /\ Loaded \subseteq Loaded' /\ LogLoaded /\ KnowsLoaded(p)
  BY LoadedGrows DEF JobInv, Shapes, KnownLoaded
<1>1. CASE proc'[p].keys = proc[p].keys /\ proc'[p].pc \notin InHandSteps
  BY <1>0, <1>1 DEF KnowsLoaded
<1>2. CASE Construct(p)
  <2>1. CASE proc'[p].keys = proc[p].keys /\ proc'[p].pc = "end"
    BY <1>1, <2>1 DEF InHandSteps
  <2>2. CASE proc'[p].keys = Logged /\ proc'[p].pc = "load_config"
    <3>1. ASSUME NEW i \in Logged, i \in Items PROVE i \in Loaded
      <4>1. PICK k \in DOMAIN Lines(log) : i = Lines(log)[k]
        BY <3>1 DEF Logged
      <4>2. log # Absent /\ k + 1 \in DOMAIN log /\ i = log[k + 1]
        BY <1>0, <4>1, LinesTypes
      <4> QED BY <1>0, <3>1, <4>2 DEF LogLoaded
    <3> QED BY <1>0, <2>2, <3>1 DEF KnowsLoaded, InHandSteps
  <2> QED BY <1>0, <1>2, <2>1, <2>2, ConstructDoes DEF Ends, Holds
<1>3. CASE LoadItem(p)
  <2>1. CASE Moves(p, "load", "append") /\ copies' = [copies EXCEPT ![Row(p)] = @ + 1] /\ Row(p) \in Items
    <3>1. Row(p)' = Row(p) /\ proc'[p].keys = proc[p].keys
      BY <2>1 DEF Moves, Holds, Row
    <3>2. Row(p) \in Loaded'
      BY <1>0, <2>1 DEF Loaded, TypeOK
    <3> QED BY <1>0, <3>1, <3>2 DEF KnowsLoaded
  <2>2. CASE Skips(p, "load") /\ proc'[p].keys = proc[p].keys
    BY <1>1, <2>2 DEF Skips, InHandSteps
  <2> QED BY <1>0, <1>3, <2>1, <2>2, LoadItemDoes
<1>4. CASE LookForLog(p) \/ OpenLog(p) \/ WriteHeader(p)
  <2>1. /\ proc[p].pc \in InHandSteps /\ proc'[p].keys = proc[p].keys
        /\ proc'[p].rows = proc[p].rows /\ proc'[p].at = proc[p].at
    BY <1>0, <1>4, LogDoes DEF Moves, Holds, InHandSteps
  <2>2. Row(p)' = Row(p)
    BY <2>1 DEF Row
  <2> QED BY <1>0, <2>1, <2>2 DEF KnowsLoaded
<1>5. CASE AppendRow(p)
  <2>1. proc[p].pc = "log_row" /\ proc'[p].pc = "row" /\ proc'[p].keys = proc[p].keys \cup {Row(p)}
    BY <1>0, <1>5, AppendRowDoes DEF Skips
  <2> QED BY <1>0, <2>1 DEF KnowsLoaded, InHandSteps
<1>6. CASE Look(p) \/ MakeDir(p) \/ OpenConfig(p) \/ WriteConfig(p) \/ LoadConfig(p)
  <2>1. CASE Look(p)
    BY <1>0, <1>1, <2>1, LookDoes DEF Moves, Ends, Holds, InHandSteps
  <2>2. CASE MakeDir(p) \/ OpenConfig(p) \/ WriteConfig(p)
    BY <1>0, <1>1, <2>2, MakeDirDoes, OpenConfigDoes, WriteConfigDoes DEF Moves, Holds, InHandSteps
  <2>3. CASE LoadConfig(p)
    BY <1>0, <1>1, <2>3, LoadConfigDoes DEF Moves, Ends, Holds, InHandSteps
  <2> QED BY <1>6, <2>1, <2>2, <2>3
<1>7. CASE OpenConverted(p) \/ Convert(p) \/ OpenStore(p) \/ WriteStore(p) \/ OpenSource(p) \/ Rewind(p)
  <2>1. CASE OpenConverted(p) \/ OpenStore(p) \/ WriteStore(p)
    BY <1>0, <1>1, <2>1, OpenFileDoes, WriteStoreDoes DEF Moves, Holds, InHandSteps
  <2>2. CASE Convert(p)
    BY <1>0, <1>1, <2>2, ConvertDoes DEF Ends, InHandSteps
  <2>3. CASE OpenSource(p) \/ Rewind(p)
    BY <1>0, <1>1, <2>3, OpenSourceDoes, RewindDoes DEF Ends, Holds, InHandSteps
  <2> QED BY <1>7, <2>1, <2>2, <2>3
<1>8. CASE TakeRow(p) \/ Crash(p)
  BY <1>0, <1>1, <1>8, TakeRowDoes, CrashDoes DEF Moves, Ends, Holds, Skips, InHandSteps
<1> QED BY <1>2, <1>3, <1>4, <1>5, <1>6, <1>7, <1>8 DEF Step

LEMMA KnownStep ==
  ASSUME JobInv, KnownLoaded, NEW p \in Procs, Step(p) \/ Crash(p) PROVE KnownLoaded'
<1>1. LogLoaded' /\ KnowsLoaded(p)'
  BY LogLoadedStep, KnowsLoadedStep
<1>2. ASSUME NEW q \in Procs, q # p PROVE KnowsLoaded(q)'
  <2>1. proc'[q] = proc[q] /\ Row(q)' = Row(q) /\ Loaded \subseteq Loaded' /\ KnowsLoaded(q)
    BY <1>2, OthersHand, LoadedGrows DEF KnownLoaded
  <2> QED BY <2>1 DEF KnowsLoaded
<1> QED BY <1>1, <1>2 DEF KnownLoaded

-----------------------------------------------------------------------------
(* Which step gives which result.                                          *)
Verdicts == {"complete", "incomplete"}

LEMMA ResultBy ==
  ASSUME JobInv, EndsOnce, NEW p \in Procs, Step(p) \/ Crash(p)
  PROVE  LET result == proc'[p].result IN
         /\ proc[p].result = ""
         /\ result \in Verdicts => TakeRow(p)
         /\ result \in {"no_source", "bad_source"} => OpenSource(p)
         /\ result = "no_config" => LoadConfig(p)
         /\ result = "bad_log" => Construct(p)
         /\ result = "unread" => Convert(p)
         /\ result = "crashed" => Crash(p)
<1>0. TypeOK /\ Shape(p) /\ proc[p].result = ""
  BY NotEnded DEF JobInv, Shapes, EndsOnce
<1> DEFINE result == proc'[p].result
<1>1. CASE Look(p) \/ MakeDir(p) \/ OpenConfig(p) \/ WriteConfig(p) \/ Construct(p) \/ LoadConfig(p)
  <2>1. CASE Look(p)
    <3>1. result \in {"", "refused", "not_found"}
      BY <1>0, <2>1, LookDoes DEF Moves, Ends
    <3> QED BY <1>0, <3>1 DEF Verdicts
  <2>2. CASE MakeDir(p) \/ OpenConfig(p) \/ WriteConfig(p)
    <3>1. result = ""
      BY <1>0, <2>2, MakeDirDoes, OpenConfigDoes, WriteConfigDoes DEF Moves
    <3> QED BY <1>0, <3>1 DEF Verdicts
  <2>3. CASE Construct(p)
    <3>1. result \in {"", "bad_log"}
      BY <1>0, <2>3, ConstructDoes DEF Moves, Ends
    <3> QED BY <1>0, <2>3, <3>1 DEF Verdicts
  <2>4. CASE LoadConfig(p)
    <3>1. result \in {"", "no_config"}
      BY <1>0, <2>4, LoadConfigDoes DEF Moves, Ends
    <3> QED BY <1>0, <2>4, <3>1 DEF Verdicts
  <2> QED BY <1>1, <2>1, <2>2, <2>3, <2>4
<1>2. CASE OpenConverted(p) \/ Convert(p) \/ OpenStore(p) \/ WriteStore(p) \/ OpenSource(p) \/ Rewind(p)
  <2>1. CASE OpenConverted(p) \/ OpenStore(p) \/ WriteStore(p) \/ Rewind(p)
    <3>1. result = ""
      BY <1>0, <2>1, OpenFileDoes, WriteStoreDoes, RewindDoes DEF Moves
    <3> QED BY <1>0, <3>1 DEF Verdicts
  <2>2. CASE Convert(p)
    <3>1. result \in {"", "unread"}
      BY <1>0, <2>2, ConvertDoes DEF Ends
    <3> QED BY <1>0, <2>2, <3>1 DEF Verdicts
  <2>3. CASE OpenSource(p)
    <3>1. result \in {"", "no_source", "bad_source", "shown"}
      BY <1>0, <2>3, OpenSourceDoes DEF Ends
    <3> QED BY <1>0, <2>3, <3>1 DEF Verdicts
  <2> QED BY <1>2, <2>1, <2>2, <2>3
<1>3. CASE TakeRow(p) \/ LoadItem(p) \/ LookForLog(p) \/ OpenLog(p) \/ WriteHeader(p) \/ AppendRow(p)
  <2>1. CASE TakeRow(p)
    <3>1. result \in {""} \cup Verdicts
      BY <1>0, <2>1, TakeRowDoes DEF Moves, Ends, Skips, Verdicts
    <3> QED BY <1>0, <2>1, <3>1 DEF Verdicts
  <2>2. CASE LoadItem(p) \/ LookForLog(p) \/ OpenLog(p) \/ WriteHeader(p) \/ AppendRow(p)
    <3>1. result = ""
      BY <1>0, <2>2, LoadItemDoes, LogDoes, AppendRowDoes DEF Moves, Skips
    <3> QED BY <1>0, <3>1 DEF Verdicts
  <2> QED BY <1>3, <2>1, <2>2
<1>4. CASE Crash(p)
  <2>1. result = "crashed"
    BY <1>0, <1>4, CrashDoes DEF Ends
  <2> QED BY <1>0, <1>4, <2>1 DEF Verdicts
<1> QED BY <1>1, <1>2, <1>3, <1>4 DEF Step

-----------------------------------------------------------------------------
(* As long as the directory is not there, nothing has been written in it.  *)
Outside(p) ==
  proc[p].pc \in {"start", "mkdir"} \/ (proc[p].pc = "end" /\ Ended(p, {"not_found", "crashed"}))
NothingYet ==
  ~ dir => /\ log = Absent /\ source = Absent /\ config = Absent
           /\ \A p \in Procs : Outside(p)

LEMMA NothingYetStep ==
  ASSUME JobInv, NothingYet, NEW p \in Procs, Step(p) \/ Crash(p) PROVE NothingYet'
<1> SUFFICES ASSUME ~ dir'
             PROVE  log' = Absent /\ source' = Absent /\ config' = Absent /\ \A q \in Procs : Outside(q)'
  BY DEF NothingYet
<1>0. TypeOK /\ Shape(p)
  BY DEF JobInv, Shapes
<1>1. ~ dir /\ ~ MakeDir(p)
  BY <1>0, WrittenBy, MakeDirDoes
<1>2. log = Absent /\ source = Absent /\ config = Absent /\ Outside(p) /\ \A q \in Procs : Outside(q)
  BY <1>1 DEF NothingYet
<1>3. proc[p].pc \in {"start", "mkdir"}
  BY <1>2, NotEnded DEF Outside
<1>4. Look(p) \/ Crash(p)
  BY <1>1, <1>3 DEF Step, OpenConfig, WriteConfig, Construct, LoadConfig, OpenConverted, Convert,
     OpenStore, WriteStore, OpenSource, Rewind, TakeRow, LoadItem, LookForLog, OpenLog, WriteHeader,
     AppendRow, At
<1>5. UNCHANGED <<config, source, log>> /\ Outside(p)'
  <2>1. CASE Look(p)
    BY <1>0, <1>1, <2>1, LookDoes DEF Moves, Ends, Outside, Ended
  <2>2. CASE Crash(p)
    BY <1>0, <2>2, CrashDoes DEF Ends, Outside, Ended
  <2> QED BY <1>4, <2>1, <2>2
<1>6. \A q \in Procs \ {p} : Outside(q)'
  BY <1>2, Others DEF Outside, Ended
<1> QED BY <1>2, <1>5, <1>6

(* A process has rows while it converts, and once it has read its file.    *)
HasRows == {"convert", "end"} \cup RowSteps
NoRows == \A p \in Procs : proc[p].pc \notin HasRows => proc[p].rows = <<>>

LEMMA NoRowsStep ==
  ASSUME JobInv, NoRows, NEW p \in Procs, Step(p) \/ Crash(p) PROVE NoRows'
<1>0. TypeOK /\ Shape(p) /\ (proc[p].pc \notin HasRows => proc[p].rows = <<>>)
  BY DEF JobInv, Shapes, NoRows
<1>1. proc'[p].pc \notin HasRows => proc'[p].rows = <<>>
  <2>1. CASE proc'[p].pc \in HasRows
    BY <2>1
  <2>2. CASE proc[p].pc \notin HasRows /\ proc'[p].rows = proc[p].rows
    BY <1>0, <2>2
  <2>3. CASE Look(p) \/ MakeDir(p) \/ OpenConfig(p) \/ WriteConfig(p)
    BY <1>0, <2>1, <2>2, <2>3, LookDoes, MakeDirDoes, OpenConfigDoes, WriteConfigDoes
       DEF Moves, Ends, Holds, HasRows, RowSteps, InHandSteps
  <2>4. CASE Construct(p) \/ LoadConfig(p)
    BY <1>0, <2>1, <2>2, <2>4, ConstructDoes, LoadConfigDoes
       DEF Moves, Ends, Holds, HasRows, RowSteps, InHandSteps
  <2>5. CASE OpenConverted(p) \/ OpenStore(p) \/ WriteStore(p)
    BY <1>0, <2>1, <2>2, <2>5, OpenFileDoes, WriteStoreDoes
       DEF Moves, Ends, Holds, HasRows, RowSteps, InHandSteps
  <2>6. CASE Convert(p)
    BY <1>0, <2>1, <2>6, ConvertDoes DEF Ends, HasRows
  <2>7. CASE OpenSource(p)
    BY <1>0, <2>1, <2>2, <2>7, OpenSourceDoes DEF Ends, HasRows, RowSteps, InHandSteps
  <2>8. CASE Rewind(p) \/ TakeRow(p) \/ LoadItem(p) \/ AppendRow(p)
    BY <1>0, <2>1, <2>8, RewindDoes, TakeRowDoes, LoadItemDoes, AppendRowDoes
       DEF Moves, Ends, Skips, HasRows, RowSteps, InHandSteps
  <2>9. CASE LookForLog(p) \/ OpenLog(p) \/ WriteHeader(p) \/ Crash(p)
    BY <1>0, <2>1, <2>9, LogDoes, CrashDoes DEF Moves, Ends, HasRows, RowSteps, InHandSteps
  <2> QED BY <2>3, <2>4, <2>5, <2>6, <2>7, <2>8, <2>9 DEF Step
<1> QED BY <1>1, Others DEF NoRows

-----------------------------------------------------------------------------
(* What the command at work may rely on as long as commands come one after *)
(* the other.                                                              *)
ToBe(p) == Kind(p) = "show" \/ proc[p].pc = "start" \/ Ended(p, {"refused", "not_found", "crashed"})
Prefix(rows, file) == Len(rows) <= Len(file) /\ \A k \in 1..Len(rows) : rows[k] = file[k]
Work(p) ==
  /\ Creating(p) => \A q \in Procs \ {p} : ToBe(q)
  /\ proc[p].pc \in {"mkdir", "config_open", "config_write"} => Creating(p)
  /\ Creating(p) /\ proc[p].pc \in {"mkdir", "config_open", "config_write", "construct"} => log = Absent
  /\ Creating(p) /\ proc[p].pc \in {"construct", "load_config"} => config = p
  /\ proc[p].pc = "convert" => Prefix(proc[p].rows, File(p))
  /\ File(p) # Absent /\ proc[p].pc \in SourceSteps => source = File(p)
  /\ proc[p].pc = "rewind" => source \in Seq(Items) /\ proc[p].total = Len(source)
  /\ proc[p].pc \in RowSteps => proc[p].rows = source /\ proc[p].total = Len(source)
InTurn == OneCommand /\ \A p \in Procs : Working(p) => Work(p)

LEMMA WorkOther ==
  ASSUME JobInv, InTurn, NEW p \in Procs, Step(p) \/ Crash(p), ~ overlapped',
         NEW q \in Procs \ {p}, Working(q)'
  PROVE  Work(q)'
<1>1. Working(q) /\ Work(q) /\ ~ Working(p) /\ q # p
  BY WorkingAfter DEF InTurn, OneCommand
<1>2. UNCHANGED <<dir, config, source, log>>
  BY <1>1, OnlyWorkersWrite
<1>3. proc'[q] = proc[q] /\ Kind(q)' = Kind(q) /\ File(q)' = File(q) /\ TypeOK
  BY <1>1, Others DEF Kind, File, JobInv
<1>4. ASSUME Creating(q) PROVE \A r \in Procs \ {q} : ToBe(r)'
  <2>1. \A r \in Procs \ {q} : ToBe(r)
    BY <1>1, <1>4 DEF Work
  <2>2. \A r \in Procs \ {p} : ToBe(r) => ToBe(r)'
    BY Others DEF ToBe, Ended, Kind
  <2>3. ToBe(p)'
    <3>1. CASE Kind(p) = "show"
      BY <3>1, KindKept DEF ToBe
    <3>2. CASE Kind(p) # "show" /\ Look(p)
      BY <1>1, <1>3, <3>2, LookDoes DEF Ends, ToBe, Ended
    <3>3. CASE Kind(p) # "show" /\ ~ Look(p)
      BY <1>1, <3>3, AtWork DEF Working
    <3> QED BY <3>1, <3>2, <3>3
  <2> QED BY <2>1, <2>2, <2>3
<1> QED BY <1>1, <1>2, <1>3, <1>4 DEF Work, Creating, RowSteps, SourceSteps

LEMMA PrefixGrows ==
  ASSUME NEW S, NEW rows \in Seq(S), NEW file \in Seq(S), Prefix(rows, file)
  PROVE  /\ Prefix(<<>>, file)
         /\ Len(rows) + 1 <= Len(file) => Prefix(Append(rows, file[Len(rows) + 1]), file)
         /\ Len(rows) + 1 > Len(file) => rows = file
<1>1. Prefix(<<>>, file)
  BY DEF Prefix
<1>2. ASSUME Len(rows) + 1 <= Len(file)
      PROVE  Prefix(Append(rows, file[Len(rows) + 1]), file)
  <2> DEFINE more == Append(rows, file[Len(rows) + 1])
  <2>1. /\ Len(more) = Len(rows) + 1 /\ Len(rows) \in Nat /\ more[Len(rows) + 1] = file[Len(rows) + 1]
        /\ \A k \in 1..Len(rows) : more[k] = rows[k]
    BY <1>2
  <2> HIDE DEF more
  <2>2. Prefix(more, file)
    BY <1>2, <2>1 DEF Prefix
  <2> QED BY <2>2 DEF more
<1>3. ASSUME Len(rows) + 1 > Len(file) PROVE rows = file
  <2>1. Len(rows) = Len(file) /\ \A k \in 1..Len(rows) : rows[k] = file[k]
    BY <1>3 DEF Prefix
  <2> QED BY <2>1
<1> QED BY <1>1, <1>2, <1>3

(* Others that are to be, or were not, stay so while somebody else works.  *)
LEMMA ToBeKept ==
  ASSUME JobInv, NEW p \in Procs, Step(p) \/ Crash(p), Creating(p), Work(p)
  PROVE  \A q \in Procs \ {p} : ToBe(q)'
BY Others DEF Work, ToBe, Ended, Kind

LEMMA LookWork ==
  ASSUME JobInv, NothingYet, NEW p \in Procs, Look(p), ~ overlapped', Working(p)'
  PROVE  Work(p)'
<1>0. TypeOK /\ Kind(p)' = Kind(p) /\ Kind(p) # "show" /\ proc'[p].pc # "end" /\ (Creating(p)' <=> Creating(p))
  BY KindKept DEF JobInv, Working, Active, Step, Creating
<1>1. /\ UNCHANGED <<dir, log>> /\ \A q \in Procs \ {p} : ~ Working(q)
      /\ \/ proc'[p].pc = "mkdir" /\ ~ dir /\ Creating(p)
         \/ proc'[p].pc = "construct" /\ ~ Creating(p)
  BY <1>0, LookDoes DEF Ends, Moves
<1>2. ASSUME Creating(p) PROVE log' = Absent /\ \A q \in Procs \ {p} : ToBe(q)'
  <2>1. ~ dir /\ log = Absent /\ \A q \in Procs : Outside(q)
    BY <1>1, <1>2 DEF NothingYet
  <2>2. \A q \in Procs \ {p} : ToBe(q)
    BY <1>1, <2>1 DEF Outside, ToBe, Working, Active, Ended
  <2>3. \A q \in Procs \ {p} : ToBe(q)'
    BY <2>2, Others DEF ToBe, Ended, Kind, Step
  <2> QED BY <1>1, <2>1, <2>3
<1> QED BY <1>0, <1>1, <1>2 DEF Work, RowSteps, SourceSteps, InHandSteps

LEMMA WorkSelf ==
  ASSUME JobInv, NoRows, NothingYet, InTurn, NEW p \in Procs, Step(p) \/ Crash(p), ~ overlapped',
         Working(p)'
  PROVE  Work(p)'
<1>1. CASE Look(p)
  BY <1>1, LookWork
<1>2. CASE ~ Look(p)
  <2>1. TypeOK /\ Shape(p) /\ Working(p) /\ Work(p) /\ proc'[p].pc # "end"
    BY <1>2, WorkingAfter DEF InTurn, JobInv, Shapes, Working, Active
  <2>2. /\ Kind(p)' = Kind(p) /\ File(p)' = File(p) /\ (Creating(p)' <=> Creating(p))
        /\ Kind(p) # "show"
    BY <2>1, Others DEF Kind, File, Creating, Working
  <2>2a. Creating(p) => \A q \in Procs \ {p} : ToBe(q)'
    BY <2>1, ToBeKept
  <2>3. CASE MakeDir(p) \/ OpenConfig(p)
    <3>1. /\ log' = log /\ proc'[p].pc \in {"config_open", "config_write"}
          /\ proc[p].pc \in {"mkdir", "config_open"}
      BY <2>1, <2>3, MakeDirDoes, OpenConfigDoes DEF Moves
    <3> QED BY <2>1, <2>2, <2>2a, <3>1 DEF Work, RowSteps, SourceSteps, InHandSteps
  <2>4. CASE WriteConfig(p)
    <3>1. log' = log /\ config' = p /\ proc'[p].pc = "construct" /\ proc[p].pc = "config_write"
      BY <2>1, <2>4, WriteConfigDoes DEF Moves
    <3> QED BY <2>1, <2>2, <2>2a, <3>1 DEF Work, RowSteps, SourceSteps, InHandSteps
  <2>5. CASE Construct(p)
    <3>1. config' = config /\ proc'[p].pc = "load_config" /\ proc[p].pc = "construct"
      BY <2>1, <2>5, ConstructDoes DEF Ends
    <3> QED BY <2>1, <2>2, <2>2a, <3>1 DEF Work, RowSteps, SourceSteps, InHandSteps
  <2>6. CASE LoadConfig(p)
    <3>1. \/ proc'[p].pc \in {"convert_open", "store_open"}
          \/ proc'[p].pc = "open" /\ File(p) = Absent
      BY <2>1, <2>6, LoadConfigDoes DEF Ends, Moves, Working
    <3> QED BY <2>1, <2>2, <2>2a, <3>1 DEF Work, RowSteps, SourceSteps, InHandSteps
  <2>7. CASE OpenConverted(p)
    <3>1. proc[p].pc = "convert_open" /\ proc'[p].pc = "convert" /\ proc'[p].rows = proc[p].rows
      BY <2>1, <2>7, OpenFileDoes DEF Moves, Holds
    <3>2. proc[p].rows = <<>> /\ File(p) \in Seq(Items)
      BY <2>1, <3>1, FileTypes DEF NoRows, HasRows, RowSteps, InHandSteps, Shape
    <3>3. Prefix(<<>>, File(p))
      BY <3>2 DEF Prefix
    <3> QED BY <2>1, <2>2, <2>2a, <3>1, <3>2, <3>3 DEF Work, RowSteps, SourceSteps, InHandSteps
  <2>8. CASE Convert(p)
    <3> DEFINE done == proc[p].rows
    <3>1. /\ proc[p].pc = "convert" /\ File(p) \in Seq(Items) /\ done \in Seq(Items)
          /\ \/ /\ Len(done) + 1 <= Len(File(p)) /\ proc'[p].pc = "convert"
                /\ proc'[p].rows = Append(done, File(p)[Len(done) + 1])
             \/ Len(done) + 1 > Len(File(p)) /\ source' = done /\ proc'[p].pc = "open"
      BY <2>1, <2>8, ConvertDoes DEF Ends
    <3>2. Prefix(done, File(p))
      BY <2>1, <3>1 DEF Work
    <3> HIDE DEF done
    <3>3. \/ proc'[p].pc = "convert" /\ Prefix(proc'[p].rows, File(p))
          \/ proc'[p].pc = "open" /\ source' = File(p)
      BY <3>1, <3>2, PrefixGrows
    <3> QED BY <2>1, <2>2, <2>2a, <3>3 DEF Work, RowSteps, SourceSteps, InHandSteps
  <2>9. CASE OpenStore(p)
    <3>1. proc'[p].pc = "store_write"
      BY <2>1, <2>9, OpenFileDoes DEF Moves
    <3> QED BY <2>1, <2>2, <2>2a, <3>1 DEF Work, RowSteps, SourceSteps, InHandSteps
  <2>10. CASE WriteStore(p)
    <3>1. proc'[p].pc = "open" /\ source' = File(p)
      BY <2>1, <2>10, WriteStoreDoes DEF Moves
    <3> QED BY <2>1, <2>2, <2>2a, <3>1 DEF Work, RowSteps, SourceSteps, InHandSteps
  <2>11. CASE OpenSource(p)
    <3>1. /\ proc[p].pc = "open" /\ proc'[p].pc = "rewind" /\ source' = source
          /\ source \in Seq(Items) /\ proc'[p].total = Len(source)
      BY <2>1, <2>11, OpenSourceDoes DEF Ends
    <3> QED BY <2>1, <2>2, <2>2a, <3>1 DEF Work, RowSteps, SourceSteps, InHandSteps
  <2>12. CASE Rewind(p)
    <3>1. /\ proc[p].pc = "rewind" /\ proc'[p].pc = "row" /\ source' = source
          /\ proc'[p].total = proc[p].total
          /\ proc'[p].rows = IF source = Empty THEN <<>> ELSE source
      BY <2>1, <2>12, RewindDoes
    <3>2. source \in Seq(Items) /\ source # Empty
      BY <2>1, <3>1, EmptyTypes DEF Work
    <3> QED BY <2>1, <2>2, <2>2a, <3>1, <3>2 DEF Work, RowSteps, SourceSteps, InHandSteps
  <2>13. CASE TakeRow(p) \/ LoadItem(p) \/ LookForLog(p) \/ OpenLog(p) \/ WriteHeader(p) \/ AppendRow(p)
    <3>1. /\ source' = source /\ proc'[p].pc \in RowSteps /\ proc[p].pc \in RowSteps
          /\ proc'[p].rows = proc[p].rows /\ proc'[p].total = proc[p].total
      <4>1. CASE TakeRow(p) \/ LoadItem(p)
        BY <2>1, <4>1, TakeRowDoes, LoadItemDoes DEF Moves, Ends, Holds, Skips, RowSteps, InHandSteps
      <4>2. CASE LookForLog(p) \/ OpenLog(p) \/ WriteHeader(p) \/ AppendRow(p)
        BY <2>1, <4>2, LogDoes, AppendRowDoes DEF Moves, Holds, Skips, RowSteps, InHandSteps
      <4> QED BY <2>13, <4>1, <4>2
    <3> QED BY <2>1, <2>2, <2>2a, <3>1 DEF Work, RowSteps, SourceSteps, InHandSteps
  <2>14. CASE Crash(p)
    BY <2>1, <2>14, CrashDoes DEF Ends
  <2> QED BY <1>2, <2>3, <2>4, <2>5, <2>6, <2>7, <2>8, <2>9, <2>10, <2>11, <2>12, <2>13, <2>14 DEF Step
<1> QED BY <1>1, <1>2

LEMMA InTurnStep ==
  ASSUME JobInv, NoRows, NothingYet, InTurn, NEW p \in Procs, Step(p) \/ Crash(p), ~ overlapped'
  PROVE  InTurn'
<1>1. OneCommand'
  BY OneCommandStep DEF InTurn
<1>2. \A q \in Procs : Working(q)' => Work(q)'
  BY WorkSelf, WorkOther
<1> QED BY <1>1, <1>2 DEF InTurn

-----------------------------------------------------------------------------
(* What a complete verdict was given on.                                   *)
Bodiless == \A r \in Procs : Kind(r) = "resume" => File(r) = Absent
BatchOf(rows) == Bodiless => \A q \in Procs : Kind(q) = "convert" /\ Ended(q, Verdicts) => rows = File(q)
Verdict(p) ==
  Ended(p, {"complete"}) =>
    /\ Completed(p) /\ proc[p].total = Len(proc[p].rows) /\ Kind(p) # "show"
    /\ File(p) # Absent => proc[p].rows = File(p)
    /\ File(p) = Absent => BatchOf(proc[p].rows)
InOrder == ~ overlapped => InTurn /\ BatchOf(source) /\ \A p \in Procs : Verdict(p)

(* The command that has just given a verdict was at work on its rows.      *)
LEMMA JustEnded ==
  ASSUME JobInv, EndsOnce, InTurn, NEW p \in Procs, Step(p) \/ Crash(p), Ended(p, Verdicts)'
  PROVE  /\ TypeOK /\ Working(p) /\ Work(p) /\ proc[p].pc = "row" /\ source' = source
         /\ proc'[p].keys = proc[p].keys /\ proc'[p].rows = source /\ proc'[p].total = Len(source)
         /\ proc'[p].total = proc[p].total
         /\ proc'[p].result = "complete" => Completed(p)
         /\ File(p) # Absent => source = File(p)
<1>1. TakeRow(p) /\ TypeOK /\ Shape(p) /\ proc[p].result = ""
  BY ResultBy DEF Ended, JobInv, Shapes
<1>2. /\ proc[p].pc = "row" /\ source' = source /\ Holds(p)
      /\ proc'[p].result = "complete" => Completed(p)
  BY <1>1, TakeRowDoes DEF Ends, Skips, Moves, Ended, Verdicts
<1>3. Working(p) /\ Work(p)
  BY <1>1, <1>2 DEF Working, Active, Shape, InTurn
<1> QED BY <1>1, <1>2, <1>3 DEF Work, Holds, RowSteps, SourceSteps

LEMMA BatchStep ==
  ASSUME JobInv, EndsOnce, InTurn, BatchOf(source), NEW p \in Procs, Step(p) \/ Crash(p)
  PROVE  BatchOf(source)'
<1> SUFFICES ASSUME Bodiless', NEW q \in Procs, Kind(q)' = "convert", Ended(q, Verdicts)'
             PROVE  source' = File(q)'
  BY DEF BatchOf
<1>0. TypeOK /\ Shape(p) /\ asked' = asked /\ Bodiless /\ Kind(q) = "convert" /\ File(q)' = File(q)
  BY Others DEF JobInv, Shapes, Bodiless, Kind, File
<1>1. CASE q = p
  <2>1. File(p) # Absent
    BY <1>0, <1>1, FileTypes, EmptyTypes
  <2> QED BY <1>0, <1>1, <2>1, JustEnded
<1>2. CASE q # p
  <2>1. Ended(q, Verdicts)
    BY <1>2, Others DEF Ended
  <2>2. source = File(q)
    BY <1>0, <2>1 DEF BatchOf
  <2>3. source' = source
    <3>1. SUFFICES ASSUME OpenConverted(p) \/ Convert(p) \/ OpenStore(p) \/ WriteStore(p) PROVE FALSE
      BY <1>0, WrittenBy
    <3>2. /\ proc[p].pc \in {"convert_open", "convert", "store_open", "store_write"}
      BY <3>1 DEF OpenConverted, Convert, OpenStore, WriteStore, At
    <3>3. Working(p) /\ (Kind(p) = "convert" \/ File(p) # Absent)
      BY <1>0, <3>2 DEF Shape, Working, Active
    <3>4. Creating(p)
      BY <1>0, <3>3, FileTypes DEF Bodiless, Creating, Kinds, Working
    <3>5. ToBe(q)
      BY <1>2, <3>3, <3>4 DEF InTurn, Work
    <3> QED BY <1>0, <2>1, <3>5 DEF ToBe, Ended, Verdicts, EndsOnce
  <2> QED BY <1>0, <2>2, <2>3
<1> QED BY <1>1, <1>2

LEMMA VerdictStep ==
  ASSUME JobInv, EndsOnce, InTurn, BatchOf(source), NEW p \in Procs, Step(p) \/ Crash(p),
         NEW q \in Procs, Verdict(q)
  PROVE  Verdict(q)'
<1> SUFFICES ASSUME Ended(q, {"complete"})'
             PROVE  /\ Completed(q)' /\ proc'[q].total = Len(proc'[q].rows) /\ Kind(q)' # "show"
                    /\ File(q)' # Absent => proc'[q].rows = File(q)'
                    /\ File(q)' = Absent => BatchOf(proc[q].rows)'
  BY DEF Verdict
<1>0. /\ TypeOK /\ asked' = asked /\ Kind(q)' = Kind(q) /\ File(q)' = File(q)
      /\ \A r \in Procs : Kind(r)' = Kind(r) /\ File(r)' = File(r)
      /\ \A r \in Procs \ {p} : Ended(r, Verdicts)' => Ended(r, Verdicts)
  BY Others DEF JobInv, Kind, File, Ended
<1>1. CASE q = p
  <2>1. Ended(p, Verdicts)'
    BY <1>1 DEF Ended, Verdicts
  <2>2. BatchOf(source)' /\ source' = source
    BY <2>1, BatchStep, JustEnded
  <2>3. /\ Completed(p)' /\ proc'[p].total = Len(proc'[p].rows) /\ Kind(p) # "show"
        /\ proc'[p].rows = source /\ (File(p) # Absent => source = File(p))
    BY <1>1, <2>1, JustEnded DEF Completed, Working, Ended
  <2>4. BatchOf(proc[p].rows)'
    BY <2>2, <2>3 DEF BatchOf
  <2> QED BY <1>0, <1>1, <2>3, <2>4
<1>2. CASE q # p
  <2>1. proc'[q] = proc[q] /\ Ended(q, {"complete"})
    BY <1>2, Others DEF Ended
  <2>2. ASSUME File(q) = Absent PROVE BatchOf(proc[q].rows)'
    <3> SUFFICES ASSUME Bodiless', NEW r \in Procs, Kind(r)' = "convert", Ended(r, Verdicts)'
                 PROVE  proc'[q].rows = File(r)'
      BY DEF BatchOf
    <3>1. Bodiless /\ Kind(r) = "convert"
      BY <1>0 DEF Bodiless
    <3>2. CASE Ended(r, Verdicts)
      BY <1>0, <2>1, <2>2, <3>1, <3>2 DEF Verdict, BatchOf
    <3>3. CASE ~ Ended(r, Verdicts)
      <4>1. r = p /\ Working(p) /\ Work(p) /\ Creating(p)
        BY <1>0, <3>1, <3>3, JustEnded DEF Creating
      <4>2. ToBe(q) /\ Kind(q) # "show"
        BY <1>2, <2>1, <4>1 DEF Work, Verdict
      <4> QED BY <2>1, <4>2 DEF ToBe, Ended, EndsOnce
    <3> QED BY <3>2, <3>3
  <2> QED BY <1>0, <2>1, <2>2 DEF Verdict, Completed
<1> QED BY <1>1, <1>2

LEMMA InOrderStep ==
  ASSUME JobInv, EndsOnce, NoRows, NothingYet, InOrder, NEW p \in Procs, Step(p) \/ Crash(p)
  PROVE  InOrder'
<1> SUFFICES ASSUME ~ overlapped' PROVE InTurn' /\ BatchOf(source)' /\ \A q \in Procs : Verdict(q)'
  BY DEF InOrder
<1>1. InTurn /\ BatchOf(source) /\ \A q \in Procs : Verdict(q)
  BY OverlappedStays DEF InOrder
<1> QED BY <1>1, InTurnStep, BatchStep, VerdictStep

-----------------------------------------------------------------------------
(* What is true on disk while commands come one after the other and none   *)
(* of them has crashed.                                                    *)
Crashed == \E q \in Procs : Ended(q, {"crashed"})
Broken == \E q \in Procs : Ended(q, {"crashed", "unread"})
WritesConfig(p) == Working(p) /\ proc[p].pc \in {"config_open", "config_write"}
Filling(p) ==
  /\ Working(p)
  /\ \/ proc[p].pc = "store_write"
     \/ /\ Creating(p)
        /\ proc[p].pc \in {"config_open", "config_write", "construct", "load_config", "convert_open",
                           "convert", "store_open"}
Configured == dir => config \in Procs \/ \E p \in Procs : WritesConfig(p)
Headed ==
  /\ log \notin {Absent, <<>>} => log[1] = Header
  /\ log = <<>> => \E p \in Procs : proc[p].pc = "log_header"
Filled == dir => source \notin {Absent, Empty, <<>>} \/ \E p \in Procs : Filling(p)
Usable ==
  ~ overlapped =>
    /\ ~ Crashed => Configured /\ Headed
    /\ ~ Broken /\ ~ Emptied => Filled

LEMMA StaysEnded ==
  ASSUME JobInv, EndsOnce, NEW p \in Procs, Step(p) \/ Crash(p), NEW results, "" \notin results
  PROVE  \A q \in Procs : Ended(q, results) => Ended(q, results)'
<1>1. proc[p].result = ""
  BY ResultBy
<1> QED BY <1>1, Others DEF Ended

LEMMA BrokenStays ==
  ASSUME JobInv, EndsOnce, NEW p \in Procs, Step(p) \/ Crash(p)
  PROVE  /\ (Crashed => Crashed') /\ (Broken => Broken') /\ (Emptied' <=> Emptied)
         /\ Crash(p) => Crashed' /\ Broken'
         /\ Ended(p, {"unread"})' => Broken'
<1>1. (Crashed => Crashed') /\ (Broken => Broken')
  BY StaysEnded DEF Crashed, Broken
<1>2. Emptied' <=> Emptied
  BY Others DEF Emptied, File
<1>3. Crash(p) => Ended(p, {"crashed"})'
  BY CrashDoes DEF Ends, Ended, JobInv
<1>4. /\ Ended(p, {"crashed"})' => Crashed' /\ Broken'
      /\ Ended(p, {"unread"})' => Broken'
  BY DEF Crashed, Broken, Ended
<1> QED BY <1>1, <1>2, <1>3, <1>4

LEMMA ConfiguredStep ==
  ASSUME JobInv, OneCommand, Configured, NEW p \in Procs, Step(p) \/ Crash(p), ~ Crash(p)
  PROVE  Configured'
<1>0. TypeOK /\ Shape(p) /\ Kind(p)' = Kind(p)
  BY KindKept DEF JobInv, Shapes
<1>1. CASE MakeDir(p) \/ OpenConfig(p)
  <2>1. proc[p].pc \in {"mkdir", "config_open"} /\ proc'[p].pc \in {"config_open", "config_write"}
    BY <1>0, <1>1, MakeDirDoes, OpenConfigDoes DEF Moves
  <2>2. WritesConfig(p)'
    BY <1>0, <2>1 DEF WritesConfig, Working, Active, Shape
  <2> QED BY <2>2 DEF Configured
<1>2. CASE WriteConfig(p)
  <2>1. config' = p
    BY <1>0, <1>2, WriteConfigDoes
  <2> QED BY <2>1 DEF Configured
<1>3. CASE ~ (MakeDir(p) \/ OpenConfig(p) \/ WriteConfig(p))
  <2>1. dir' = dir /\ config' = config
    BY <1>0, <1>3, WrittenBy
  <2>2. proc[p].pc \notin {"config_open", "config_write"}
    BY <1>3, StepAt
  <2>3. \A q \in Procs : WritesConfig(q) => WritesConfig(q)'
    BY <2>2, Others DEF WritesConfig, Working, Active, Kind
  <2> QED BY <2>1, <2>3 DEF Configured
<1> QED BY <1>1, <1>2, <1>3

LEMMA HeadedStep ==
  ASSUME JobInv, OneCommand, Headed, NEW p \in Procs, Step(p) \/ Crash(p), ~ Crash(p)
  PROVE  Headed'
<1>0. TypeOK /\ Shape(p) /\ Shapes
  BY DEF JobInv, Shapes
<1>1. CASE OpenLog(p)
  <2>1. log' = <<>> /\ proc'[p].pc = "log_header"
    BY <1>0, <1>1, LogDoes DEF Moves
  <2> QED BY <2>1 DEF Headed
<1>2. CASE WriteHeader(p)
  BY <1>0, <1>2, HeaderLines DEF Headed
<1>3. CASE AppendRow(p)
  <2>1. log \in Seq(Items \cup {Header, Junk}) /\ log' = Append(log, Row(p)) /\ proc[p].pc = "log_row"
    BY <1>0, <1>3, AppendRowFacts DEF AppendRow, At
  <2>2. log # <<>>
    <3>1. SUFFICES ASSUME NEW q \in Procs, proc[q].pc = "log_header" PROVE FALSE
      BY DEF Headed
    <3>2. Working(p) /\ Working(q) /\ p # q
      BY <1>0, <2>1, <3>1 DEF Working, Active, Shapes, Shape
    <3> QED BY <3>2 DEF OneCommand
  <2>3. log # Absent
    BY <1>0, <2>1 DEF Shape
  <2>4. log[1] = Header /\ log'[1] = log[1] /\ log' # <<>>
    BY <2>1, <2>2, <2>3 DEF Headed
  <2> QED BY <2>4 DEF Headed
<1>4. CASE log' = log /\ ~ WriteHeader(p)
  <2>1. proc[p].pc # "log_header"
    BY <1>4, StepAt
  <2>2. \A q \in Procs : proc[q].pc = "log_header" => proc'[q].pc = "log_header"
    BY <2>1, Others
  <2> QED BY <1>4, <2>2 DEF Headed
<1> QED BY <1>1, <1>2, <1>3, <1>4, LogSteps

LEMMA CreateHasFile ==
  ASSUME TypeOK, NEW p \in Procs, Creating(p) PROVE File(p) # Absent
<1>1. CASE Kind(p) = "convert"
  BY <1>1, FileTypes, EmptyTypes
<1>2. CASE Kind(p) = "create"
  BY <1>2, RequestAssumption DEF TypeOK, File, Kind
<1> QED BY <1>1, <1>2 DEF Creating

(* The command that fills source.csv goes on, or leaves it with rows.      *)
LEMMA FillingOn ==
  ASSUME JobInv, EndsOnce, InTurn, ~ Emptied, NEW p \in Procs, Filling(p), Step(p), ~ Ended(p, {"unread"})'
  PROVE  Filling(p)' \/ source' \notin {Absent, Empty, <<>>}
<1>0. /\ TypeOK /\ Shape(p) /\ Working(p) /\ Work(p) /\ Kind(p)' = Kind(p) /\ (Creating(p)' <=> Creating(p))
      /\ File(p) \notin {Empty, <<>>}
  BY KindKept DEF JobInv, Shapes, InTurn, Filling, Creating, Emptied
<1>1. CASE proc[p].pc \in {"config_open", "config_write"}
  <2>1. OpenConfig(p) \/ WriteConfig(p)
    BY <1>1, StepAt
  <2>2. proc'[p].pc \in {"config_write", "construct"}
    BY <1>0, <2>1, OpenConfigDoes, WriteConfigDoes DEF Moves
  <2> QED BY <1>0, <1>1, <2>2 DEF Filling, Working, Active
<1>2. CASE proc[p].pc = "construct"
  <2>1. Construct(p) /\ log = Absent
    BY <1>0, <1>2, StepAt DEF Work, Filling
  <2>2. ~ Unkeyed(log)
    BY <2>1 DEF Unkeyed, Lines
  <2>3. proc'[p].pc = "load_config"
    BY <1>0, <2>1, <2>2, ConstructDoes
  <2> QED BY <1>0, <1>2, <2>3 DEF Filling, Working, Active
<1>3. CASE proc[p].pc = "load_config"
  <2>1. LoadConfig(p) /\ config = p /\ Creating(p)
    BY <1>0, <1>3, StepAt DEF Work, Filling
  <2>2. config \notin {Absent, Empty} /\ File(p) # Absent
    BY <1>0, <2>1, RequestAssumption, CreateHasFile
  <2>3. proc'[p].pc \in {"convert_open", "store_open"}
    BY <1>0, <2>1, <2>2, LoadConfigDoes DEF Moves, Working
  <2> QED BY <1>0, <1>3, <2>3 DEF Filling, Working, Active
<1>4. CASE proc[p].pc \in {"convert_open", "store_open"}
  <2>1. OpenConverted(p) \/ OpenStore(p)
    BY <1>4, StepAt
  <2>2. proc'[p].pc \in {"convert", "store_write"}
    BY <1>0, <2>1, OpenFileDoes DEF Moves
  <2> QED BY <1>0, <1>4, <2>2 DEF Filling, Working, Active
<1>5. CASE proc[p].pc = "convert"
  <2> DEFINE done == proc[p].rows
  <2>1. Convert(p)
    BY <1>5, StepAt
  <2>2. /\ File(p) \in Seq(Items) /\ done \in Seq(Items)
        /\ \/ proc'[p].pc = "convert"
           \/ Len(done) + 1 > Len(File(p)) /\ source' = done
    BY <1>0, <2>1, ConvertDoes DEF Ends, Ended
  <2>3. Prefix(done, File(p))
    BY <1>0, <1>5 DEF Work
  <2> HIDE DEF done
  <2>4. proc'[p].pc = "convert" \/ source' = File(p)
    BY <2>2, <2>3, PrefixGrows
  <2> QED BY <1>0, <1>5, <2>2, <2>4, EmptyTypes DEF Filling, Working, Active
<1>6. CASE proc[p].pc = "store_write"
  <2>1. WriteStore(p)
    BY <1>6, StepAt
  <2> QED BY <1>0, <1>6, <2>1, WriteStoreDoes DEF Shape
<1> QED BY <1>1, <1>2, <1>3, <1>4, <1>5, <1>6 DEF Filling

LEMMA FilledStep ==
  ASSUME JobInv, EndsOnce, InTurn, Filled, ~ Emptied, NEW p \in Procs, Step(p), ~ Ended(p, {"unread"})'
  PROVE  Filled'
<1>0. TypeOK /\ Shape(p) /\ Kind(p)' = Kind(p) /\ (Creating(p)' <=> Creating(p))
  BY KindKept DEF JobInv, Shapes, Creating
<1>1. CASE MakeDir(p)
  <2>1. proc[p].pc = "mkdir" /\ proc'[p].pc = "config_open"
    BY <1>0, <1>1, MakeDirDoes DEF Moves
  <2>2. Working(p) /\ Creating(p)
    BY <1>0, <2>1 DEF Shape, Working, Active, InTurn, Work
  <2>3. Filling(p)'
    BY <1>0, <2>1, <2>2 DEF Filling, Working, Active
  <2> QED BY <2>3 DEF Filled
<1>2. CASE ~ MakeDir(p)
  <2>1. dir' = dir
    BY <1>0, <1>2, WrittenBy
  <2>2. CASE Filling(p)
    BY <2>2, FillingOn DEF Filled
  <2>3. ASSUME NEW q \in Procs \ {p}, Filling(q) PROVE Filled'
    <3>1. Working(q) /\ ~ Working(p)
      BY <2>3 DEF Filling, InTurn, OneCommand
    <3>2. proc'[q] = proc[q] /\ Kind(q)' = Kind(q)
      BY Others DEF Kind
    <3>3. Filling(q)'
      BY <2>3, <3>2 DEF Filling, Working, Active, Creating
    <3> QED BY <3>3 DEF Filled
  <2>4. CASE source \notin {Absent, Empty, <<>>} /\ ~ Filling(p)
    <3>1. CASE source' = source
      BY <2>4, <3>1 DEF Filled
    <3>2. CASE OpenStore(p)
      <4>1. proc[p].pc = "store_open" /\ proc'[p].pc = "store_write"
        BY <1>0, <3>2, OpenFileDoes DEF Moves
      <4>2. Filling(p)'
        BY <1>0, <4>1 DEF Filling, Working, Active, Shape
      <4> QED BY <4>2 DEF Filled
    <3>3. CASE OpenConverted(p) \/ Convert(p) \/ WriteStore(p)
      <4>1. proc[p].pc \in {"convert_open", "convert", "store_write"}
        BY <3>3 DEF OpenConverted, Convert, WriteStore, At
      <4> QED BY <1>0, <2>4, <4>1 DEF Filling, Working, Active, Shape, Creating
    <3> QED BY <1>0, <3>1, <3>2, <3>3, WrittenBy
  <2>5. CASE ~ dir
    BY <2>1, <2>5 DEF Filled
  <2> QED BY <2>2, <2>3, <2>4, <2>5 DEF Filled
<1> QED BY <1>1, <1>2

LEMMA UsableStep ==
  ASSUME JobInv, EndsOnce, InOrder, Usable, NEW p \in Procs, Step(p) \/ Crash(p)
  PROVE  Usable'
<1> SUFFICES ASSUME ~ overlapped'
             PROVE  /\ ~ Crashed' => Configured' /\ Headed'
                    /\ ~ Broken' /\ ~ Emptied' => Filled'
  BY DEF Usable
<1>1. ~ overlapped /\ InTurn
  BY OverlappedStays DEF InOrder
<1>2. ASSUME ~ Crashed' PROVE Configured' /\ Headed'
  <2>1. ~ Crash(p) /\ Configured /\ Headed /\ OneCommand
    BY <1>1, <1>2, BrokenStays DEF Usable, InTurn
  <2> QED BY <2>1, ConfiguredStep, HeadedStep
<1>3. ASSUME ~ Broken', ~ Emptied' PROVE Filled'
  <2>1. ~ Crash(p) /\ ~ Broken /\ ~ Emptied /\ Filled /\ ~ Ended(p, {"unread"})'
    BY <1>1, <1>3, BrokenStays DEF Usable
  <2> QED BY <1>1, <2>1, FilledStep
<1> QED BY <1>2, <1>3

-----------------------------------------------------------------------------
(* A command that brings a file does not miss it.                          *)
Stored(p) ==
  Kind(p) # "show" /\ File(p) # Absent =>
    (proc[p].pc = "open" => source # Absent) /\ ~ Ended(p, {"no_source"})
AllStored == \A p \in Procs : Stored(p)

LEMMA StoredStep ==
  ASSUME JobInv, EndsOnce, AllStored, NEW p \in Procs, Step(p) \/ Crash(p) PROVE AllStored'
<1>0. /\ TypeOK /\ Shape(p) /\ Stored(p)
      /\ proc[p].result = "" /\ Kind(p)' = Kind(p) /\ File(p)' = File(p)
  BY Others, ResultBy DEF JobInv, Shapes, AllStored, Kind, File
<1>0a. source # Absent => source' # Absent
  BY Others
<1>1. ASSUME Kind(p) # "show", File(p) # Absent, proc'[p].pc = "open" PROVE source' # Absent
  <2>1. CASE Convert(p)
    <3>1. source' = proc[p].rows /\ proc[p].rows \in Seq(Items)
      BY <1>0, <1>1, <2>1, ConvertDoes DEF Ends
    <3> QED BY <1>0, <3>1, EmptyTypes
  <2>2. CASE WriteStore(p)
    BY <1>0, <1>1, <2>2, WriteStoreDoes
  <2>3. CASE ~ (Convert(p) \/ WriteStore(p))
    <3>1. CASE Look(p) \/ MakeDir(p) \/ OpenConfig(p) \/ WriteConfig(p)
      BY <1>0, <1>1, <3>1, LookDoes, MakeDirDoes, OpenConfigDoes, WriteConfigDoes DEF Moves, Ends
    <3>2. CASE Construct(p) \/ LoadConfig(p)
      BY <1>0, <1>1, <3>2, ConstructDoes, LoadConfigDoes DEF Moves, Ends
    <3>3. CASE OpenConverted(p) \/ OpenStore(p) \/ OpenSource(p) \/ Rewind(p)
      BY <1>0, <1>1, <3>3, OpenFileDoes, OpenSourceDoes, RewindDoes DEF Moves, Ends
    <3>4. CASE TakeRow(p) \/ LoadItem(p) \/ AppendRow(p)
      BY <1>0, <1>1, <3>4, TakeRowDoes, LoadItemDoes, AppendRowDoes DEF Moves, Ends, Skips
    <3>5. CASE LookForLog(p) \/ OpenLog(p) \/ WriteHeader(p) \/ Crash(p)
      BY <1>0, <1>1, <3>5, LogDoes, CrashDoes DEF Moves, Ends
    <3> QED BY <2>3, <3>1, <3>2, <3>3, <3>4, <3>5 DEF Step
  <2> QED BY <2>1, <2>2, <2>3
<1>2. ASSUME Kind(p) # "show", File(p) # Absent, Ended(p, {"no_source"})' PROVE FALSE
  <2>1. OpenSource(p) /\ proc'[p].result = "no_source"
    BY <1>2, ResultBy DEF Ended
  <2>2. source = Absent /\ proc[p].pc = "open"
    BY <1>0, <2>1, OpenSourceDoes DEF Ends
  <2> QED BY <1>0, <1>2, <2>2 DEF Stored
<1>3. Stored(p)'
  BY <1>0, <1>1, <1>2 DEF Stored
<1>4. ASSUME NEW q \in Procs, q # p PROVE Stored(q)'
  <2>1. proc'[q] = proc[q] /\ Kind(q)' = Kind(q) /\ File(q)' = File(q) /\ Stored(q)
    BY <1>4, Others DEF Kind, File, AllStored
  <2> QED BY <1>0a, <2>1 DEF Stored, Ended
<1> QED BY <1>3, <1>4 DEF AllStored

-----------------------------------------------------------------------------
(* The resumed command that finds the job useless, when it ends.           *)
Resumes(p) ==
  Kind(p) = "resume" =>
    /\ Ended(p, {"no_config", "bad_log"}) => overlapped \/ Crashed
    /\ Ended(p, {"no_source", "bad_source"}) => overlapped \/ Emptied \/ Broken

LEMMA ResumesSelf ==
  ASSUME JobInv, EndsOnce, NothingYet, InOrder, Usable, NEW p \in Procs, Step(p) \/ Crash(p)
  PROVE  Resumes(p)'
<1> SUFFICES ASSUME Kind(p)' = "resume", ~ overlapped'
             PROVE  /\ Ended(p, {"no_config", "bad_log"})' => Crashed'
                    /\ Ended(p, {"no_source", "bad_source"})' => Emptied' \/ Broken'
  BY DEF Resumes
<1>0. /\ TypeOK /\ Kind(p) = "resume" /\ ~ overlapped /\ OneCommand
      /\ ~ Crashed' => Configured /\ Headed
      /\ ~ Emptied' /\ ~ Broken' => Filled
  BY KindKept, OverlappedStays, BrokenStays DEF JobInv, InOrder, InTurn, Usable
<1>1. ASSUME Ended(p, {"no_config"})', ~ Crashed' PROVE FALSE
  <2>1. config \in {Absent, Empty} /\ proc[p].pc = "load_config"
    BY <1>0, <1>1, ResultBy, LoadConfigDoes DEF Ended, Ends, Moves
  <2>2. dir /\ Working(p)
    BY <1>0, <2>1 DEF Working, Active, NothingYet, Outside
  <2>3. \A q \in Procs : ~ WritesConfig(q)
    BY <1>0, <2>1, <2>2 DEF WritesConfig, OneCommand
  <2> QED BY <1>0, <1>1, <2>1, <2>2, <2>3, RequestAssumption DEF Configured
<1>2. ASSUME Ended(p, {"bad_log"})', ~ Crashed' PROVE FALSE
  <2>1. Unkeyed(log)
    BY <1>0, <1>2, ResultBy, ConstructDoes DEF Ended
  <2> QED BY <1>0, <1>2, <2>1 DEF Unkeyed, Lines, Headed
<1>3. ASSUME Ended(p, {"no_source", "bad_source"})', ~ Emptied', ~ Broken' PROVE FALSE
  <2>1. source \in {Absent, Empty, <<>>} /\ proc[p].pc = "open"
    BY <1>0, <1>3, ResultBy, OpenSourceDoes DEF Ended, Ends
  <2>2. dir /\ Working(p)
    BY <1>0, <2>1 DEF Working, Active, NothingYet, Outside
  <2>3. PICK q \in Procs : Filling(q)
    BY <1>0, <1>3, <2>1, <2>2 DEF Filled
  <2>4. q = p
    BY <1>0, <2>2, <2>3 DEF OneCommand, Filling
  <2> QED BY <2>1, <2>3, <2>4 DEF Filling
<1> QED BY <1>1, <1>2, <1>3 DEF Ended

LEMMA ResumesStep ==
  ASSUME JobInv, EndsOnce, NothingYet, InOrder, Usable, NEW p \in Procs, Step(p) \/ Crash(p),
         \A q \in Procs : Resumes(q)
  PROVE  \A q \in Procs : Resumes(q)'
<1> SUFFICES ASSUME NEW q \in Procs, q # p PROVE Resumes(q)'
  BY ResumesSelf
<1>1. proc'[q] = proc[q] /\ Kind(q)' = Kind(q) /\ (overlapped => overlapped')
  BY Others, OverlappedStays DEF Kind
<1>2. (Crashed => Crashed') /\ (Broken => Broken') /\ (Emptied => Emptied')
  BY BrokenStays
<1>3. \A results : Ended(q, results)' <=> Ended(q, results)
  BY <1>1 DEF Ended
<1> QED BY <1>1, <1>2, <1>3 DEF Resumes

-----------------------------------------------------------------------------
DirectoryInv ==
  /\ JobInv /\ EndsOnce /\ KnownLoaded /\ NothingYet /\ NoRows /\ InOrder /\ Usable /\ AllStored
  /\ \A p \in Procs : Resumes(p)

LEMMA DirectoryInit == Init => DirectoryInv
<1> SUFFICES ASSUME Init PROVE DirectoryInv
  OBVIOUS
<1>1. JobInv
  BY JobInit
<1>2. /\ ~ dir /\ config = Absent /\ source = Absent /\ log = Absent
      /\ \A p \in Procs : /\ proc[p].pc = "start" /\ proc[p].keys = {} /\ proc[p].rows = <<>>
                          /\ proc[p].result = ""
  BY DEF Init
<1>3. \A p \in Procs : ~ Working(p)
  BY <1>2 DEF Working, Active
<1>4. \A results : "" \notin results => \A p \in Procs : ~ Ended(p, results)
  BY <1>2 DEF Ended
<1>5. EndsOnce /\ KnownLoaded /\ NothingYet /\ NoRows
  BY <1>2 DEF EndsOnce, KnownLoaded, LogLoaded, KnowsLoaded, InHandSteps, NothingYet, Outside, NoRows
<1>6. InOrder
  BY <1>3, <1>4 DEF InOrder, InTurn, OneCommand, BatchOf, Verdict, Verdicts
<1>7. Usable
  BY <1>1, <1>2, EmptyTypes DEF Usable, Configured, Headed, Filled, JobInv
<1>8. AllStored /\ \A p \in Procs : Resumes(p)
  BY <1>2, <1>4 DEF AllStored, Stored, Resumes
<1> QED BY <1>1, <1>5, <1>6, <1>7, <1>8 DEF DirectoryInv

LEMMA DirectoryStutter ==
  ASSUME DirectoryInv, UNCHANGED vars PROVE DirectoryInv'
<1>1. /\ asked' = asked /\ dir' = dir /\ config' = config /\ source' = source /\ log' = log
      /\ copies' = copies /\ proc' = proc /\ overlapped' = overlapped /\ faults' = faults
  BY DEF vars
<1>2. /\ \A p : Kind(p)' = Kind(p) /\ File(p)' = File(p) /\ Row(p)' = Row(p)
      /\ \A p, results : Ended(p, results)' <=> Ended(p, results)
      /\ \A p : (Working(p)' <=> Working(p)) /\ (Creating(p)' <=> Creating(p))
  BY <1>1 DEF Kind, File, Row, Ended, Working, Active, Creating
<1>3. JobInv'
  BY <1>1, <1>2 DEF DirectoryInv, JobInv, TypeOK, Shapes, Shape
<1>4. EndsOnce' /\ KnownLoaded' /\ NoRows'
  BY <1>1, <1>2 DEF DirectoryInv, EndsOnce, KnownLoaded, LogLoaded, KnowsLoaded, Loaded, NoRows
<1>5. NothingYet' /\ AllStored'
  BY <1>1, <1>2 DEF DirectoryInv, NothingYet, Outside, AllStored, Stored
<1>6. InOrder'
  <2>1. \A p : (ToBe(p)' <=> ToBe(p)) /\ (Completed(p)' <=> Completed(p))
    BY <1>1, <1>2 DEF ToBe, Completed
  <2>2. InTurn' <=> InTurn
    BY <1>1, <1>2, <2>1 DEF InTurn, OneCommand, Work
  <2>3. Bodiless' <=> Bodiless
    BY <1>2 DEF Bodiless
  <2>4. BatchOf(source)' <=> BatchOf(source)
    BY <1>1, <1>2, <2>3 DEF BatchOf
  <2>5. \A p \in Procs : BatchOf(proc[p].rows)' <=> BatchOf(proc[p].rows)
    BY <1>1, <1>2, <2>3 DEF BatchOf
  <2>6. \A p \in Procs : Verdict(p)' <=> Verdict(p)
    BY <1>1, <1>2, <2>1, <2>5 DEF Verdict
  <2> QED BY <1>1, <2>2, <2>4, <2>6 DEF DirectoryInv, InOrder
<1>7. (Crashed' <=> Crashed) /\ (Broken' <=> Broken) /\ (Emptied' <=> Emptied)
  BY <1>2 DEF Crashed, Broken, Emptied
<1>8. Usable'
  <2>1. (Configured' <=> Configured) /\ (Headed' <=> Headed) /\ (Filled' <=> Filled)
    BY <1>1, <1>2 DEF Configured, WritesConfig, Headed, Filled, Filling
  <2> QED BY <1>1, <1>7, <2>1 DEF DirectoryInv, Usable
<1>9. \A p \in Procs : Resumes(p)'
  BY <1>1, <1>2, <1>7 DEF DirectoryInv, Resumes
<1> QED BY <1>3, <1>4, <1>5, <1>6, <1>8, <1>9 DEF DirectoryInv

LEMMA DirectoryStep == DirectoryInv /\ [Next]_vars => DirectoryInv'
<1> SUFFICES ASSUME DirectoryInv, Next PROVE DirectoryInv'
  BY DirectoryStutter
<1>1. PICK p \in Procs : Step(p) \/ Crash(p)
  BY DEF Next
<1>2. JobInv' /\ EndsOnce' /\ KnownLoaded' /\ NothingYet' /\ NoRows'
  BY <1>1, JobStep, EndsOnceStep, KnownStep, NothingYetStep, NoRowsStep DEF DirectoryInv
<1>3. InOrder' /\ Usable' /\ AllStored' /\ \A q \in Procs : Resumes(q)'
  BY <1>1, InOrderStep, UsableStep, StoredStep, ResumesStep DEF DirectoryInv
<1> QED BY <1>2, <1>3 DEF DirectoryInv

(* As many different keys as there are rows, all of them rows: every row.  *)
LEMMA AllRows ==
  ASSUME NEW S, NEW rows \in Seq(S), NEW keys \in SUBSET Range(rows), Cardinality(keys) = Len(rows)
  PROVE  keys = Range(rows)
<1>1. Len(rows) \in Nat /\ rows \in [1..Len(rows) -> Range(rows)]
      /\ \A x \in Range(rows) : \E k \in 1..Len(rows) : rows[k] = x
  BY DEF Range
<1>2. ExistsSurjection(1..Len(rows), Range(rows))
  BY <1>1 DEF ExistsSurjection, Surjection
<1>3. IsFiniteSet(Range(rows)) /\ Cardinality(Range(rows)) <= Len(rows)
  BY <1>1, <1>2, FS_NatSurjection, FS_SurjCardinalityBound
<1>4. Cardinality(keys) <= Cardinality(Range(rows)) /\ Cardinality(Range(rows)) \in Nat
  BY <1>3, FS_Subset, FS_CardinalityType
<1>5. Cardinality(Range(rows)) = Cardinality(keys)
  BY <1>1, <1>3, <1>4
<1> QED BY <1>3, <1>5, FS_Subset

LEMMA DirectoryVerdict == DirectoryInv => VerdictIsTrue
<1> SUFFICES ASSUME DirectoryInv PROVE VerdictIsTrue
  OBVIOUS
<1>1. /\ TypeOK /\ \A p \in Procs : proc[p].keys \cap Items \subseteq Loaded
  BY DEF DirectoryInv, JobInv, KnownLoaded, KnowsLoaded
<1>2. ASSUME NEW p \in Procs, Ended(p, {"complete"}), ~ overlapped,
             proc[p].keys \subseteq Range(proc[p].rows)
      PROVE  /\ Range(proc[p].rows) \subseteq Loaded
             /\ File(p) \notin {Absent, Empty} => Range(File(p)) \subseteq Loaded
             /\ \A q \in Procs :
                  /\ Kind(q) = "convert" /\ Ended(q, {"complete", "incomplete"})
                  /\ File(p) = Absent /\ \A r \in Procs : Kind(r) = "resume" => File(r) = Absent
                  => Range(File(q)) \subseteq Loaded
  <2>1. Verdict(p) /\ Cardinality(proc[p].keys) = Len(proc[p].rows) /\ proc[p].rows \in Seq(Items)
    BY <1>1, <1>2, ProcFacts DEF DirectoryInv, InOrder, Verdict, Completed, Processes
  <2>2. proc[p].keys = Range(proc[p].rows)
    BY <1>2, <2>1, AllRows
  <2>3. Range(proc[p].rows) \subseteq Items
    BY <2>1 DEF Range
  <2>4. Range(proc[p].rows) \subseteq Loaded
    BY <1>1, <2>2, <2>3
  <2> QED BY <1>2, <2>1, <2>4 DEF Verdict, BatchOf, Bodiless, Verdicts
<1> QED BY <1>1, <1>2 DEF VerdictIsTrue

LEMMA DirectoryResume == DirectoryInv => JobCanResume
BY DEF DirectoryInv, JobCanResume, Resumes, Crashed, Broken, AllStored, Stored

(* Whatever commands and web requests meet in the directory and whatever   *)
(* fails: keys read from the log are of items in the repository, and a     *)
(* complete verdict means that the whole file or batch is there, when      *)
(* commands were given one after the other.                                *)
THEOREM VerdictsAreTrue == Spec => []VerdictIsTrue
BY DirectoryInit, DirectoryStep, DirectoryVerdict, PTL DEF Spec

(* Only a crash, a batch that cannot be read, an import file without rows  *)
(* or commands at work at once leave a job that cannot be resumed.         *)
THEOREM JobsCanResume == Spec => []JobCanResume
BY DirectoryInit, DirectoryStep, DirectoryResume, PTL DEF Spec
=============================================================================

---------------------- MODULE RepositoryCommandsProofs ----------------------
(***************************************************************************)
(* Proofs about RepositoryCommands, for any tree of resources, any number  *)
(* of processes and any commands: types, that create and delete together   *)
(* leave no resource without its ancestors, that delete's log is true, and *)
(* that edits are whole.                                                   *)
(***************************************************************************)
EXTENDS RepositoryCommands, FiniteSetTheorems, TLAPS

-----------------------------------------------------------------------------
(* What a process relies on between two requests. *)

StackSteps == {"look", "get", "act", "delete", "check", "read", "edit", "binary", "patch",
               "annotate", "container"}

Sane(st, cmd) ==
  /\ cmd.type = "stub" => st.left \in Seq(StubRows)
  /\ cmd.type # "stub" => st.left \in Seq(Paths)
  /\ st.pc \notin {"next", "done", "aborted"} => st.left # <<>>
  /\ st.pc \in StackSteps => st.stack # <<>>
  /\ st.pc = "read" => cmd.type \in {"set", "replace", "annotate", "web", "web_model"}
  /\ st.pc = "stub" => cmd.type = "stub" /\ st.count # 0
  /\ st.pc = "put" => st.stack = <<>>

(* create_at_path(): the ancestors of a path that is to be checked are     *)
(* checked after it, and those of a path that is to be put are there (or   *)
(* have left a tombstone), are put before it, or are still to be checked.  *)
Covered(st, r) ==
  st.pc \in {"check", "put"} =>
    /\ \A i \in DOMAIN st.stack : \A z \in Above(st.stack[i]) :
         \E j \in DOMAIN st.stack : j > i /\ st.stack[j] = z
    /\ \A i \in DOMAIN st.todo : \A z \in Above(st.todo[i]) :
         \/ r[z].status # "missing"
         \/ \E j \in DOMAIN st.todo : j < i /\ st.todo[j] = z
         \/ \E j \in DOMAIN st.stack : st.stack[j] = z

RepoTypes == repo \in [Paths -> Resources] /\ stubs \in [StubRows -> SUBSET Parts]

ProcTypes ==
  /\ command \in [Procs -> Commands] /\ proc \in [Procs -> States]
  /\ \A p \in Procs : Sane(proc[p], command[p])

LogTypes ==
  /\ completed \subseteq Paths /\ written \subseteq StubRows
  /\ messages \subseteq [path : Paths, removed : BOOLEAN]

Core ==
  /\ RepoTypes /\ ProcTypes /\ faults \in 0..MaxFaults
  /\ \A p \in Procs : Covered(proc[p], repo)
  /\ TreeIsClosed

CommandInv == Core /\ LogTypes

(* A state in which a process is not creating paths. *)
Fit(p, st) ==
  st \in States /\ Sane(st, command[p]) /\ st.pc \notin {"check", "put"}

(* What was there once is there, or has a tombstone. *)
NothingForgotten ==
  \A x \in Paths : repo'[x].status = "missing" => repo[x].status = "missing"

-----------------------------------------------------------------------------
(* Sequences. *)

LEMMA HeadAndTail ==
  ASSUME NEW S, NEW s \in Seq(S), s # <<>>
  PROVE  /\ Len(s) \in Nat /\ Len(s) > 0 /\ 1 \in DOMAIN s /\ DOMAIN s = 1..Len(s)
         /\ Head(s) = s[1] /\ Head(s) \in S
         /\ Tail(s) \in Seq(S) /\ Len(Tail(s)) = Len(s) - 1
         /\ \A i \in DOMAIN Tail(s) : i + 1 \in DOMAIN s /\ Tail(s)[i] = s[i + 1]
         /\ \A i \in DOMAIN s : i > 1 => i - 1 \in DOMAIN Tail(s) /\ Tail(s)[i - 1] = s[i]
OBVIOUS

LEMMA PutInFront ==
  ASSUME NEW S, NEW x \in S, NEW s \in Seq(S)
  PROVE  /\ <<x>> \o s \in Seq(S) /\ <<x>> \o s # <<>>
         /\ 1 \in DOMAIN (<<x>> \o s) /\ (<<x>> \o s)[1] = x
         /\ \A i \in DOMAIN s : i + 1 \in DOMAIN (<<x>> \o s) /\ (<<x>> \o s)[i + 1] = s[i]
         /\ \A i \in DOMAIN (<<x>> \o s) :
              i \in Nat /\ (i = 1 \/ (i - 1 \in DOMAIN s /\ (<<x>> \o s)[i] = s[i - 1]))
OBVIOUS

LEMMA AboveIsPaths == \A x \in Paths : Above(x) \subseteq Paths
BY CommandAssumption DEF Above

LEMMA ShortSequences ==
  /\ \A S : <<>> \in Seq(S)
  /\ \A S : \A x \in S : <<x>> \in Seq(S) /\ <<x>> # <<>>
OBVIOUS

(* An ancestor of an ancestor is one too. *)
LEMMA AboveIsTransitive ==
  ASSUME NEW x \in Paths, NEW z \in Above(x), NEW y \in Above(z)
  PROVE  y \in Above(x)
BY TreeAssumption DEF Above

-----------------------------------------------------------------------------
(* The server: requests keep the types and the tree. *)

LEMMA ChangeTypes ==
  ASSUME NEW x \in Paths, NEW resource \in Resources, NEW writes \in SUBSET Writes
  PROVE  Change(x, resource, writes) \in Resources
<1> DEFINE on(op) == {w \in writes : w.op = op /\ x = w.path}
           old == UNION {w.old \ w.new : w \in on("patch")}
           new == UNION {w.new \ w.old : w \in on("patch")}
           gone == \E w \in writes : w.op = "delete" /\ x \in Below(w.path)
<1>1. \A w \in on("patch") : w.old \subseteq Values /\ w.new \subseteq Values
  BY DEF Writes
<1>2. \A w \in on("put") : w.value \in Values
  BY DEF Writes
<1>3. \A w \in on("annotate") : w.id \in Procs \X Nat
  BY DEF Writes
<1>4. (resource.titles \ old) \cup new \in SUBSET Values
  BY <1>1 DEF Resources
<1>5. (IF on("put") = {} THEN resource.content ELSE (CHOOSE w \in on("put") : TRUE).value)
        \in Values
  BY <1>2 DEF Resources
<1>6. resource.annotations \cup {w.id : w \in on("annotate")} \in SUBSET (Procs \X Nat)
  BY <1>3 DEF Resources
<1>7. (IF gone /\ resource.status = "live" THEN "gone" ELSE resource.status)
        \in {"missing", "live", "gone"}
  BY DEF Resources
<1> HIDE DEF on, old, new, gone
<1>8. [status |-> IF gone /\ resource.status = "live" THEN "gone" ELSE resource.status,
       titles |-> (resource.titles \ old) \cup new,
       content |-> IF on("put") = {} THEN resource.content
                   ELSE (CHOOSE w \in on("put") : TRUE).value,
       annotations |-> resource.annotations \cup {w.id : w \in on("annotate")}] \in Resources
  BY <1>4, <1>5, <1>6, <1>7 DEF Resources
<1> QED BY <1>8 DEF Change, on, old, new, gone

LEMMA ChangeStatus ==
  ASSUME NEW x, NEW resource, NEW writes
  PROVE  Change(x, resource, writes).status =
           IF (\E w \in writes : w.op = "delete" /\ x \in Below(w.path))
              /\ resource.status = "live"
           THEN "gone" ELSE resource.status
BY DEF Change

LEMMA ApplyCore ==
  ASSUME RepoTypes, TreeIsClosed, NEW writes \in SUBSET Writes, Apply(writes)
  PROVE  RepoTypes' /\ TreeIsClosed' /\ NothingForgotten
<1> DEFINE changes == {w \in writes : w.op # "stub"}
<1>1. repo' = [x \in Paths |-> Change(x, repo[x], changes)]
  BY DEF Apply
<1>2. changes \in SUBSET Writes
  OBVIOUS
<1> DEFINE deleted(x) == \E w \in changes : w.op = "delete" /\ x \in Below(w.path)
<1>3. \A x \in Paths : repo'[x].status = IF deleted(x) /\ repo[x].status = "live"
                                         THEN "gone" ELSE repo[x].status
  BY <1>1, ChangeStatus
<1>4. RepoTypes'
  <2>1. repo' \in [Paths -> Resources]
    BY <1>1, <1>2, ChangeTypes DEF RepoTypes
  <2>2. \A r \in StubRows :
          {w.part : w \in {v \in writes : v.op = "stub" /\ v.row = r}} \subseteq Parts
    BY DEF Writes
  <2>3. stubs' \in [StubRows -> SUBSET Parts]
    BY <2>2 DEF Apply, RepoTypes
  <2> QED BY <2>1, <2>3 DEF RepoTypes
<1>5. TreeIsClosed'
  <2> SUFFICES ASSUME NEW x \in Paths, repo'[x].status = "live", NEW z \in Above(x)
               PROVE  repo'[z].status = "live"
    BY DEF TreeIsClosed
  <2>1. z \in Paths /\ repo[x].status = "live" /\ ~ deleted(x)
    BY <1>3, AboveIsPaths
  <2>2. repo[z].status = "live"
    BY <2>1 DEF TreeIsClosed
  <2>3. \A y : z \in Below(y) => x \in Below(y)
    BY <2>1, AboveIsTransitive DEF Below
  <2>4. ~ deleted(z)
    BY <2>1, <2>3
  <2> QED BY <1>3, <2>1, <2>2, <2>4
<1>6. NothingForgotten
  BY <1>3 DEF NothingForgotten
<1> QED BY <1>4, <1>5, <1>6

(* A path is put when all above it are there. *)
LEMMA CreatedCore ==
  ASSUME RepoTypes, TreeIsClosed, NEW x \in Paths,
         \A z \in Above(x) : repo[z].status = "live",
         repo' = [repo EXCEPT ![x].status = "live"], UNCHANGED stubs
  PROVE  RepoTypes' /\ TreeIsClosed' /\ NothingForgotten
<1>1. \A y \in Paths : repo'[y].status = IF y = x THEN "live" ELSE repo[y].status
  BY DEF RepoTypes, Resources
<1>2. RepoTypes'
  BY DEF RepoTypes, Resources
<1>3. TreeIsClosed'
  BY <1>1, AboveIsPaths DEF TreeIsClosed
<1>4. NothingForgotten
  BY <1>1 DEF NothingForgotten
<1> QED BY <1>2, <1>3, <1>4

LEMMA RepoSame ==
  ASSUME RepoTypes, TreeIsClosed, UNCHANGED <<repo, stubs>>
  PROVE  RepoTypes' /\ TreeIsClosed' /\ NothingForgotten
BY DEF RepoTypes, TreeIsClosed, NothingForgotten

-----------------------------------------------------------------------------
(* A process takes a step; the others know no less than before. *)

LEMMA CoveredKept ==
  ASSUME NEW st \in States, Covered(st, repo), NothingForgotten
  PROVE  Covered(st, repo')
<1>1. \A i \in DOMAIN st.todo : Above(st.todo[i]) \subseteq Paths
  BY AboveIsPaths DEF States
<1> QED BY <1>1 DEF Covered, NothingForgotten

LEMMA GoCore ==
  ASSUME Core, NEW p \in Procs, NEW st \in States, Sane(st, command[p]), Covered(st, repo'),
         Go(p, st), UNCHANGED command, NothingForgotten,
         RepoTypes', TreeIsClosed', faults' \in 0..MaxFaults
  PROVE  Core'
<1>1. proc' = [proc EXCEPT ![p] = st] /\ command' = command
  BY DEF Go
<1>2. ProcTypes'
  BY <1>1 DEF Core, ProcTypes
<1>3. \A q \in Procs : Covered(proc'[q], repo')
  <2> TAKE q \in Procs
  <2>1. CASE q = p
    <3>1. proc'[q] = st
      BY <1>1, <2>1 DEF Core, ProcTypes
    <3> QED BY <3>1
  <2>2. CASE q # p
    <3>1. proc'[q] = proc[q]
      BY <1>1, <2>2 DEF Core, ProcTypes
    <3>2. \A s \in States : Covered(s, repo) => Covered(s, repo')
      BY CoveredKept
    <3>3. proc[q] \in States /\ Covered(proc[q], repo)
      BY DEF Core, ProcTypes
    <3> QED BY <3>1, <3>2, <3>3
  <2> QED BY <2>1, <2>2
<1> QED BY <1>2, <1>3 DEF Core

LEMMA FitCore ==
  ASSUME Core, NEW p \in Procs, NEW st, Fit(p, st),
         Go(p, st), UNCHANGED command, NothingForgotten,
         RepoTypes', TreeIsClosed', faults' \in 0..MaxFaults
  PROVE  Core'
<1>1. Covered(st, repo')
  BY DEF Fit, Covered
<1> QED BY <1>1, GoCore DEF Fit

LEMMA FaultCounted ==
  ASSUME faults \in 0..MaxFaults, Fault \/ UNCHANGED faults
  PROVE  faults' \in 0..MaxFaults
BY CommandAssumption DEF Fault

(* An exception, an answer, and the three kinds of requests. *)

LEMMA AbortFit ==
  ASSUME Core, NEW p \in Procs
  PROVE  Fit(p, [proc[p] EXCEPT !.pc = "aborted", !.writes = {}])
<1>1. proc[p] \in States /\ Sane(proc[p], command[p])
  BY DEF Core, ProcTypes
<1> QED BY <1>1 DEF Fit, States, Steps, Sane, StackSteps

LEMMA QuietCore ==
  ASSUME Core, NEW p \in Procs, NEW st, Fit(p, st), Go(p, st),
         UNCHANGED <<repo, stubs, command>>, Fault \/ UNCHANGED faults
  PROVE  Core'
<1>1. RepoTypes' /\ TreeIsClosed' /\ NothingForgotten
  BY RepoSame DEF Core
<1>2. faults' \in 0..MaxFaults
  BY FaultCounted DEF Core
<1> QED BY <1>1, <1>2, FitCore

LEMMA AbortCore ==
  ASSUME Core, NEW p \in Procs, Abort(p),
         UNCHANGED <<repo, stubs, command>>, Fault \/ UNCHANGED faults
  PROVE  Core'
BY AbortFit, QuietCore DEF Abort

LEMMA AppliedCore ==
  ASSUME Core, NEW p \in Procs, NEW writes \in SUBSET Writes, NEW st, Fit(p, st),
         Go(p, st), Apply(writes), UNCHANGED command, Fault \/ UNCHANGED faults
  PROVE  Core'
<1>1. RepoTypes' /\ TreeIsClosed' /\ NothingForgotten
  BY ApplyCore DEF Core
<1>2. faults' \in 0..MaxFaults
  BY FaultCounted DEF Core
<1> QED BY <1>1, <1>2, FitCore

LEMMA SendCore ==
  ASSUME Core, NEW p \in Procs, NEW writes \in SUBSET Writes, NEW st, Fit(p, st),
         Send(p, writes, st), UNCHANGED command
  PROVE  Core'
<1>1. CASE Fault /\ Abort(p) /\ UNCHANGED <<repo, stubs>>
  BY <1>1, AbortCore
<1>2. CASE Fault /\ Abort(p) /\ Apply(writes)
  BY <1>2, AbortFit, AppliedCore DEF Abort
<1>3. CASE Apply(writes) /\ Go(p, st) /\ UNCHANGED faults
  BY <1>3, AppliedCore
<1>4. CASE /\ UNCHANGED <<repo, stubs, faults>>
           /\ Go(p, [st EXCEPT !.writes = @ \cup writes])
  <2>1. Fit(p, [st EXCEPT !.writes = @ \cup writes])
    BY DEF Fit, States, Sane
  <2> QED BY <1>4, <2>1, QuietCore
<1> QED BY <1>1, <1>2, <1>3, <1>4 DEF Send

LEMMA AskCore ==
  ASSUME Core, NEW p \in Procs, NEW st, Fit(p, st), Ask(p, st), UNCHANGED command
  PROVE  Core'
BY QuietCore, AbortCore DEF Ask

LEMMA ProbeCore ==
  ASSUME Core, NEW p \in Procs, NEW x, NEW found, NEW missing,
         Fit(p, found), Fit(p, missing), Probe(p, x, found, missing), UNCHANGED command
  PROVE  Core'
BY QuietCore, AbortCore DEF Probe

(* While nothing is created, what was covered is. *)
LEMMA StayCore ==
  ASSUME Core, NEW p \in Procs, NEW st \in States, Sane(st, command[p]), Covered(st, repo),
         Go(p, st), UNCHANGED <<repo, stubs, command>>, Fault \/ UNCHANGED faults
  PROVE  Core'
<1>1. RepoTypes' /\ TreeIsClosed' /\ NothingForgotten
  BY RepoSame DEF Core
<1>2. faults' \in 0..MaxFaults
  BY FaultCounted DEF Core
<1> QED BY <1>1, <1>2, GoCore

-----------------------------------------------------------------------------
(* The states the steps lead to. *)

LEMMA ProcFacts ==
  ASSUME Core, NEW p \in Procs
  PROVE  /\ proc[p] \in States /\ Sane(proc[p], command[p])
         /\ command[p] \in Commands /\ command[p].type \in CommandTypes
         /\ command[p].value \in Values
         /\ Covered(proc[p], repo)
BY CommandAssumption DEF Core, ProcTypes

LEMMA HereFacts ==
  ASSUME Core, NEW p \in Procs, proc[p].pc \in StackSteps
  PROVE  /\ Here(p) \in Paths /\ Here(p) = proc[p].stack[1]
         /\ Tail(proc[p].stack) \in Seq(Paths)
<1>1. proc[p].stack \in Seq(Paths) /\ proc[p].stack # <<>>
  BY ProcFacts DEF Sane, States
<1> QED BY <1>1, HeadAndTail DEF Here

LEMMA ToLeaveFit ==
  ASSUME Core, NEW p \in Procs, proc[p].pc \notin {"next", "done", "aborted"}
  PROVE  Fit(p, To(p, "leave")) /\ Fit(p, [To(p, "leave") EXCEPT !.stack = <<>>])
<1>1. proc[p] \in States /\ Sane(proc[p], command[p])
  BY ProcFacts
<1>2. Fit(p, To(p, "leave"))
  BY <1>1 DEF Fit, To, States, Steps, Sane, StackSteps
<1>3. [To(p, "leave") EXCEPT !.stack = <<>>] = [proc[p] EXCEPT !.pc = "leave", !.stack = <<>>]
  BY <1>1 DEF To, States
<1>4. Fit(p, [proc[p] EXCEPT !.pc = "leave", !.stack = <<>>])
  <2>1. [proc[p] EXCEPT !.pc = "leave", !.stack = <<>>] \in States
    BY <1>1, ShortSequences DEF States, Steps
  <2> QED BY <1>1, <2>1 DEF Fit, States, Sane, StackSteps
<1> QED BY <1>2, <1>3, <1>4

LEMMA ToStepFit ==
  ASSUME Core, NEW p \in Procs, proc[p].pc \in StackSteps,
         NEW pc \in StackSteps \ {"check", "read"}
  PROVE  Fit(p, To(p, pc))
<1>1. proc[p] \in States /\ Sane(proc[p], command[p])
  BY ProcFacts
<1> QED BY <1>1 DEF Fit, To, States, Steps, Sane, StackSteps

LEMMA WalkFit ==
  ASSUME Core, NEW p \in Procs, proc[p].pc \in StackSteps
  PROVE  Fit(p, Skip(p)) /\ Fit(p, Descend(p))
<1>1. /\ proc[p] \in States /\ Sane(proc[p], command[p])
      /\ Tail(proc[p].stack) \in Seq(Paths) /\ Here(p) \in Paths
  BY ProcFacts, HereFacts
<1>2. Fit(p, Skip(p))
  BY <1>1 DEF Fit, Skip, States, Steps, Sane, StackSteps
<1>3. Fit(p, Descend(p))
  <2> DEFINE rest == (IF command[p].recursive THEN Members[Here(p)] ELSE <<>>)
                       \o Tail(proc[p].stack)
  <2>1. (IF command[p].recursive THEN Members[Here(p)] ELSE <<>>) \in Seq(Paths)
    BY <1>1, CommandAssumption
  <2>2. rest \in Seq(Paths)
    BY <2>1, <1>1
  <2> HIDE DEF rest
  <2>3. Fit(p, [proc[p] EXCEPT !.stack = rest, !.pc = IF rest = <<>> THEN "leave" ELSE "look"])
    BY <1>1, <2>2 DEF Fit, States, Steps, Sane, StackSteps
  <2> QED BY <2>3 DEF Descend, rest
<1> QED BY <1>2, <1>3

-----------------------------------------------------------------------------
(* One lemma per action. *)

LEMMA InitInv == Init => CommandInv
<1> SUFFICES ASSUME Init PROVE CommandInv
  OBVIOUS
<1>1. PICK v \in Values \ Invalid :
        repo = [x \in Paths |-> [status |-> IF x \in Living THEN "live" ELSE "missing",
                                 titles |-> {v}, content |-> v, annotations |-> {}]]
  BY DEF Init
<1>2. RepoTypes
  BY <1>1 DEF Init, RepoTypes, Resources
<1>3. \A x \in Paths : repo[x].status = IF x \in Living THEN "live" ELSE "missing"
  BY <1>1
<1>4. TreeIsClosed
  BY <1>3, TreeAssumption, AboveIsPaths DEF TreeIsClosed, Above
<1>5. \A p \in Procs :
        proc[p] = [pc |-> "next", left |-> command[p].args, stack |-> <<>>, todo |-> <<>>,
                   read |-> {}, count |-> 0, writes |-> {}]
  BY DEF Init
<1>6. \A p \in Procs : /\ command[p] \in Commands
                       /\ command[p].args \in Seq(Paths) \cup Seq(StubRows)
                       /\ command[p].type = "stub" => command[p].args \in Seq(StubRows)
                       /\ command[p].type # "stub" => command[p].args \in Seq(Paths)
  BY CommandAssumption DEF Init
<1>7. ASSUME NEW p \in Procs
      PROVE  proc[p] \in States /\ Sane(proc[p], command[p]) /\ Covered(proc[p], repo)
  <2> DEFINE args == command[p].args
  <2>1. proc[p] = [pc |-> "next", left |-> args, stack |-> <<>>, todo |-> <<>>,
                   read |-> {}, count |-> 0, writes |-> {}]
    BY <1>5
  <2>2. /\ args \in Seq(Paths) \cup Seq(StubRows)
        /\ command[p].type = "stub" => args \in Seq(StubRows)
        /\ command[p].type # "stub" => args \in Seq(Paths)
    BY <1>6
  <2> HIDE DEF args
  <2>3. proc[p] \in States
    BY <2>1, <2>2, ShortSequences DEF States, Steps
  <2>4. Sane(proc[p], command[p])
    BY <2>1, <2>2 DEF Sane, StackSteps
  <2>5. Covered(proc[p], repo)
    BY <2>1 DEF Covered
  <2> QED BY <2>3, <2>4, <2>5
<1>8. \A p \in Procs : Covered(proc[p], repo)
  BY <1>7
<1>9. ProcTypes
  <2>1. proc \in [Procs -> States]
    BY <1>7 DEF Init
  <2> QED BY <1>7, <2>1 DEF Init, ProcTypes
<1>10. faults \in 0..MaxFaults /\ LogTypes
  BY CommandAssumption DEF Init, LogTypes
<1> QED
  BY <1>2, <1>4, <1>8, <1>9, <1>10 DEF CommandInv, Core

LEMMA FirstStepFits ==
  ASSUME Core, NEW p \in Procs, proc[p].pc = "next", proc[p].left # <<>>
  PROVE  FirstStep(p) \in States /\ Sane(FirstStep(p), command[p]) /\ Covered(FirstStep(p), repo)
<1> DEFINE x == Head(proc[p].left)
<1>1. /\ proc[p] \in States /\ Sane(proc[p], command[p])
      /\ command[p].type \in CommandTypes /\ proc[p].left # <<>> /\ proc[p].pc = "next"
  BY ProcFacts
<1>2. command[p].type # "stub" => x \in Paths
  BY <1>1, HeadAndTail DEF Sane
<1> HIDE DEF x
<1> QED
  <2>1. CASE command[p].type = "create"
    <3> DEFINE stack == <<x>> \o Ancestors[x]
    <3>1. x \in Paths /\ Ancestors[x] \in Seq(Paths)
      BY <1>2, <2>1, CommandAssumption
    <3>2. /\ stack \in Seq(Paths) /\ stack # <<>>
          /\ 1 \in DOMAIN stack /\ stack[1] = x
          /\ \A i \in DOMAIN Ancestors[x] :
               i + 1 \in DOMAIN stack /\ stack[i + 1] = Ancestors[x][i]
          /\ \A i \in DOMAIN stack :
               i \in Nat /\ (i = 1 \/ (i - 1 \in DOMAIN Ancestors[x] /\ stack[i] = Ancestors[x][i - 1]))
      BY <3>1, PutInFront
    <3>3. FirstStep(p) = [proc[p] EXCEPT !.stack = stack, !.todo = <<>>, !.pc = "check"]
      BY <2>1, <1>1 DEF FirstStep, x, States
    <3>4. \A i \in DOMAIN stack : \A z \in Above(stack[i]) :
            \E j \in DOMAIN stack : j > i /\ stack[j] = z
      <4> SUFFICES ASSUME NEW i \in DOMAIN stack, NEW z \in Above(stack[i])
                   PROVE  \E j \in DOMAIN stack : j > i /\ stack[j] = z
        OBVIOUS
      <4> HIDE DEF stack
      <4>0. DOMAIN Ancestors[x] \subseteq Nat \ {0}
        BY <3>1
      <4>1. CASE i = 1
        <5>1. PICK k \in DOMAIN Ancestors[x] : Ancestors[x][k] = z
          BY <4>1, <3>2 DEF Above
        <5> QED BY <5>1, <4>0, <4>1, <3>2
      <4>2. CASE i # 1
        <5>1. i - 1 \in DOMAIN Ancestors[x] /\ stack[i] = Ancestors[x][i - 1] /\ i \in Nat
          BY <4>2, <3>2
        <5>2. PICK k \in DOMAIN Ancestors[x] : k > i - 1 /\ Ancestors[x][k] = z
          BY <5>1, <3>1, TreeAssumption
        <5> QED BY <5>1, <5>2, <4>0, <3>2
      <4> QED BY <4>1, <4>2
    <3> HIDE DEF stack
    <3>5. FirstStep(p) \in States
      BY <3>2, <3>3, <1>1, ShortSequences DEF States, Steps
    <3>7. Sane(FirstStep(p), command[p])
      BY <3>2, <3>3, <1>1, <2>1 DEF States, Sane
    <3>6. FirstStep(p).stack = stack /\ FirstStep(p).todo = <<>>
      BY <3>3, <1>1 DEF States
    <3> QED BY <3>4, <3>5, <3>6, <3>7 DEF Covered
  <2>2. CASE command[p].type \in {"delete", "reindex"}
    <3>1. FirstStep(p) = [proc[p] EXCEPT !.stack = <<x>>, !.todo = <<>>, !.pc = "look"]
      BY <2>2, <1>1 DEF FirstStep, x, States
    <3>2. <<x>> \in Seq(Paths) /\ <<x>> # <<>>
      BY <1>2, <2>2, ShortSequences
    <3>3. FirstStep(p) \in States
      BY <3>1, <3>2, <1>1, ShortSequences DEF States, Steps
    <3>4. Sane(FirstStep(p), command[p])
      BY <3>1, <3>2, <1>1, <2>2 DEF States, Sane
    <3>5. Covered(FirstStep(p), repo)
      BY <3>1, <1>1 DEF States, Covered
    <3> QED BY <3>3, <3>4, <3>5
  <2>3. CASE command[p].type = "stub"
    <3>1. FirstStep(p) = [proc[p] EXCEPT !.pc = "stub", !.count = 1]
      BY <2>3, <1>1 DEF FirstStep, To, States
    <3>2. FirstStep(p) \in States
      <4>1. [proc[p] EXCEPT !.count = 1] \in States
        BY <1>1 DEF States
      <4> QED BY <3>1, <4>1 DEF States, Steps
    <3>3. Sane(FirstStep(p), command[p])
      BY <3>1, <1>1, <2>3 DEF States, Sane, StackSteps
    <3>4. Covered(FirstStep(p), repo)
      BY <3>1, <1>1 DEF States, Covered
    <3> QED BY <3>2, <3>3, <3>4
  <2>4. CASE command[p].type \in {"set", "replace", "annotate", "web", "web_model"}
    <3>1. FirstStep(p) = [proc[p] EXCEPT !.stack = <<x>>, !.todo = <<>>, !.pc = "read"]
      BY <2>4, <1>1 DEF FirstStep, x, States
    <3>2. <<x>> \in Seq(Paths) /\ <<x>> # <<>>
      BY <1>2, <2>4, ShortSequences
    <3>3. FirstStep(p) \in States
      BY <3>1, <3>2, <1>1, ShortSequences DEF States, Steps
    <3>4. Sane(FirstStep(p), command[p])
      BY <3>1, <3>2, <1>1, <2>4 DEF States, Sane
    <3>5. Covered(FirstStep(p), repo)
      BY <3>1, <1>1 DEF States, Covered
    <3> QED BY <3>3, <3>4, <3>5
  <2> QED BY <1>1, <2>1, <2>2, <2>3, <2>4 DEF CommandTypes

LEMMA EnterInv ==
  ASSUME Core, NEW p \in Procs, Enter(p) PROVE Core'
BY FirstStepFits, StayCore, AbortCore DEF Enter, Ask

LEMMA FinishInv ==
  ASSUME Core, NEW p \in Procs, Finish(p) PROVE Core'
<1>1. Fit(p, To(p, "done"))
  BY ProcFacts DEF Finish, Fit, To, States, Steps, Sane, StackSteps
<1> QED BY <1>1, QuietCore DEF Finish

LEMMA LeaveFit ==
  ASSUME Core, NEW p \in Procs, proc[p].pc = "leave"
  PROVE  proc[p].left # <<>> /\ proc[p].writes \in SUBSET Writes /\ Fit(p, NextArgument(p))
<1>1. /\ proc[p] \in States /\ Sane(proc[p], command[p]) /\ proc[p].left # <<>>
      /\ proc[p].writes \in SUBSET Writes
  BY ProcFacts DEF Sane, States
<1>2. /\ command[p].type = "stub" => Tail(proc[p].left) \in Seq(StubRows)
      /\ command[p].type # "stub" => Tail(proc[p].left) \in Seq(Paths)
  BY <1>1, HeadAndTail DEF Sane
<1> QED BY <1>1, <1>2 DEF Fit, NextArgument, States, Steps, Sane, StackSteps

LEMMA LeaveInv ==
  ASSUME Core, NEW p \in Procs, Leave(p) PROVE Core'
<1>1. proc[p].pc = "leave" /\ proc[p].writes \in SUBSET Writes /\ Fit(p, NextArgument(p))
  BY LeaveFit DEF Leave
<1>2. CASE /\ Fault /\ Abort(p) /\ UNCHANGED command
           /\ Apply(proc[p].writes) \/ UNCHANGED <<repo, stubs>>
  BY <1>1, <1>2, AbortFit, AppliedCore, AbortCore DEF Abort
<1> QED BY <1>1, <1>2, AppliedCore DEF Leave

LEMMA LookInv ==
  ASSUME Core, NEW p \in Procs, Look(p) PROVE Core'
<1>1. proc[p].pc \in StackSteps
  BY DEF Look, StackSteps
<1>2. Fit(p, Skip(p)) /\ Fit(p, To(p, "get"))
  BY <1>1, WalkFit, ToStepFit DEF StackSteps
<1> QED BY <1>2, AskCore, ProbeCore DEF Look

LEMMA GetInv ==
  ASSUME Core, NEW p \in Procs, Get(p) PROVE Core'
<1>1. proc[p].pc \in StackSteps /\ proc[p].pc \notin {"next", "done", "aborted"}
  BY DEF Get, StackSteps
<1>2. Fit(p, To(p, "act")) /\ Fit(p, [To(p, "leave") EXCEPT !.stack = <<>>])
  BY <1>1, ToStepFit, ToLeaveFit DEF StackSteps
<1> QED BY <1>2, AskCore, QuietCore, AbortCore DEF Get

LEMMA SendMessageInv ==
  ASSUME Core, NEW p \in Procs, SendMessage(p) PROVE Core'
BY WalkFit, QuietCore DEF SendMessage, Is, StackSteps

LEMMA DryRunInv ==
  ASSUME Core, NEW p \in Procs, DryRun(p) PROVE Core'
BY WalkFit, QuietCore DEF DryRun, Is, StackSteps

LEMMA DeleteInv ==
  ASSUME Core, NEW p \in Procs, Delete(p) PROVE Core'
<1>1. proc[p].pc \in StackSteps
  BY DEF Delete, Is, StackSteps
<1>2. Fit(p, Descend(p)) /\ Fit(p, To(p, "delete"))
  BY <1>1, WalkFit, ToStepFit DEF StackSteps
<1> QED BY <1>2, ProbeCore DEF Delete

LEMMA SendDeleteInv ==
  ASSUME Core, NEW p \in Procs, SendDelete(p) PROVE Core'
<1>1. proc[p].pc \in StackSteps
  BY DEF SendDelete, Is, StackSteps
<1>2. Fit(p, Descend(p)) /\ Here(p) \in Paths
  BY <1>1, WalkFit, HereFacts
<1>3. {[op |-> "delete", path |-> Here(p)]} \in SUBSET Writes
  BY <1>2 DEF Writes
<1> QED BY <1>2, <1>3, SendCore, AbortCore DEF SendDelete

(* What was checked last is found, or will be put before all that are to   *)
(* be put so far; nobody but this process made or needs the list.          *)
LEMMA CheckInv ==
  ASSUME Core, NEW p \in Procs, Check(p) PROVE Core'
<1> DEFINE h == Here(p)
           stack == proc[p].stack
           todo == proc[p].todo
           rest == Tail(stack)
           later == <<h>> \o todo
           next == IF rest = <<>> THEN "put" ELSE "check"
           isTarget == h = Head(proc[p].left)
           found == [proc[p] EXCEPT !.stack = rest, !.pc = IF isTarget THEN "leave" ELSE next]
           missing == [proc[p] EXCEPT !.stack = rest, !.pc = next, !.todo = later]
<1>1. /\ proc[p].pc = "check" /\ UNCHANGED command
      /\ Probe(p, h, found, missing)
  BY DEF Check
<1>2. /\ proc[p] \in States /\ Sane(proc[p], command[p]) /\ Covered(proc[p], repo)
      /\ stack \in Seq(Paths) /\ stack # <<>> /\ todo \in Seq(Paths) /\ h = Head(stack)
  BY <1>1, ProcFacts DEF Sane, StackSteps, States, Here
<1>3. /\ rest \in Seq(Paths) /\ h \in Paths /\ h = stack[1] /\ 1 \in DOMAIN stack
      /\ DOMAIN stack \subseteq Nat \ {0} /\ DOMAIN rest \subseteq Nat \ {0}
      /\ \A i \in DOMAIN rest : i + 1 \in DOMAIN stack /\ rest[i] = stack[i + 1]
      /\ \A i \in DOMAIN stack : i > 1 => i - 1 \in DOMAIN rest /\ rest[i - 1] = stack[i]
  BY <1>2, HeadAndTail
<1>4. /\ later \in Seq(Paths) /\ 1 \in DOMAIN later /\ later[1] = h
      /\ DOMAIN todo \subseteq Nat \ {0}
      /\ \A i \in DOMAIN todo : i + 1 \in DOMAIN later /\ later[i + 1] = todo[i]
      /\ \A i \in DOMAIN later :
           i \in Nat /\ (i = 1 \/ (i - 1 \in DOMAIN todo /\ later[i] = todo[i - 1]))
  BY <1>2, <1>3, PutInFront
<1> HIDE DEF rest, later
<1>5. /\ found \in States /\ Sane(found, command[p])
      /\ missing \in States /\ Sane(missing, command[p])
  <2>1. found \in States
    BY <1>2, <1>3 DEF States, Steps
  <2>2. missing \in States
    BY <1>2, <1>3, <1>4 DEF States, Steps
  <2>3. Sane(found, command[p])
    BY <1>1, <1>2, <1>3 DEF Sane, StackSteps, States
  <2>4. Sane(missing, command[p])
    BY <1>1, <1>2, <1>3 DEF Sane, StackSteps, States
  <2> QED BY <2>1, <2>2, <2>3, <2>4
<1>6. /\ found.stack = rest /\ found.todo = todo
      /\ missing.stack = rest /\ missing.todo = later
  BY <1>2 DEF States
<1>7. /\ \A i \in DOMAIN stack : \A z \in Above(stack[i]) :
           \E j \in DOMAIN stack : j > i /\ stack[j] = z
      /\ \A i \in DOMAIN todo : \A z \in Above(todo[i]) :
           \/ repo[z].status # "missing"
           \/ \E j \in DOMAIN todo : j < i /\ todo[j] = z
           \/ \E j \in DOMAIN stack : stack[j] = z
  BY <1>1, <1>2 DEF Covered
<1> HIDE DEF found, missing, stack, todo, h
<1>8. \A i \in DOMAIN rest : \A z \in Above(rest[i]) :
        \E j \in DOMAIN rest : j > i /\ rest[j] = z
  <2> SUFFICES ASSUME NEW i \in DOMAIN rest, NEW z \in Above(rest[i])
               PROVE  \E j \in DOMAIN rest : j > i /\ rest[j] = z
    OBVIOUS
  <2>1. PICK j \in DOMAIN stack : j > i + 1 /\ stack[j] = z
    BY <1>3, <1>7
  <2> QED BY <2>1, <1>3
<1>9. \A z : (\E j \in DOMAIN stack : stack[j] = z) => z = h \/ \E j \in DOMAIN rest : rest[j] = z
  BY <1>3
<1>10. repo[h].status # "missing" => Covered(found, repo)
  BY <1>6, <1>7, <1>8, <1>9 DEF Covered
<1>11. Covered(missing, repo)
  <2>1. \A i \in DOMAIN later : \A z \in Above(later[i]) :
          \/ repo[z].status # "missing"
          \/ \E j \in DOMAIN later : j < i /\ later[j] = z
          \/ \E j \in DOMAIN rest : rest[j] = z
    <3> SUFFICES ASSUME NEW i \in DOMAIN later, NEW z \in Above(later[i]),
                        repo[z].status = "missing", ~ \E j \in DOMAIN rest : rest[j] = z
                 PROVE  \E j \in DOMAIN later : j < i /\ later[j] = z
      OBVIOUS
    <3>1. CASE i = 1
      <4>1. PICK j \in DOMAIN stack : j > 1 /\ stack[j] = z
        BY <3>1, <1>3, <1>4, <1>7
      <4> QED BY <4>1, <1>3
    <3>2. CASE i # 1
      <4>1. i - 1 \in DOMAIN todo /\ later[i] = todo[i - 1] /\ i \in Nat
        BY <3>2, <1>4
      <4>2. \/ z = h
            \/ \E j \in DOMAIN todo : j < i - 1 /\ todo[j] = z
        BY <4>1, <1>7, <1>9
      <4>3. CASE z = h
        BY <4>1, <4>3, <1>4
      <4>4. CASE \E j \in DOMAIN todo : j < i - 1 /\ todo[j] = z
        <5>1. PICK j \in DOMAIN todo : j < i - 1 /\ todo[j] = z
          BY <4>4
        <5> QED BY <5>1, <4>1, <1>4
      <4> QED BY <4>2, <4>3, <4>4
    <3> QED BY <3>1, <3>2
  <2> QED BY <2>1, <1>6, <1>8 DEF Covered
<1>12. Live(p, h) => repo[h].status # "missing"
  BY DEF Live
<1>13. CASE Live(p, h) /\ Go(p, found) /\ UNCHANGED <<repo, stubs, faults>>
  BY <1>1, <1>5, <1>10, <1>12, <1>13, StayCore
<1>14. CASE Go(p, missing) /\ UNCHANGED <<repo, stubs>> /\ (Fault \/ UNCHANGED faults)
  BY <1>1, <1>5, <1>11, <1>14, StayCore
<1> QED BY <1>1, <1>13, <1>14, AbortCore DEF Probe

LEMMA PutInv ==
  ASSUME Core, NEW p \in Procs, Put(p) PROVE Core'
<1> DEFINE todo == proc[p].todo
           x == Head(todo)
           rest == Tail(todo)
           st == [proc[p] EXCEPT !.todo = rest]
           created == repo' = [repo EXCEPT ![x].status = "live"] /\ UNCHANGED stubs
<1>1. /\ proc[p].pc = "put" /\ UNCHANGED command
      /\ proc[p] \in States /\ Sane(proc[p], command[p]) /\ Covered(proc[p], repo)
      /\ proc[p].stack = <<>> /\ todo \in Seq(Paths)
  BY ProcFacts DEF Put, Sane, States
<1>2. CASE todo = <<>>
  <2>1. Fit(p, To(p, "leave"))
    BY <1>1, ToLeaveFit
  <2>2. Go(p, To(p, "leave")) /\ UNCHANGED <<repo, stubs, faults>>
    BY <1>2 DEF Put
  <2> QED BY <1>1, <2>1, <2>2, QuietCore
<1>3. CASE todo # <<>> /\ Refused(x)
  <2>1. Abort(p) /\ UNCHANGED <<repo, stubs, faults>>
    BY <1>3 DEF Put
  <2> QED BY <1>1, <2>1, AbortCore
<1>4. CASE todo # <<>> /\ ~ Refused(x)
  <2>1. /\ x \in Paths /\ x = todo[1] /\ 1 \in DOMAIN todo /\ DOMAIN todo \subseteq Nat \ {0}
        /\ rest \in Seq(Paths) /\ DOMAIN rest \subseteq Nat \ {0}
        /\ \A i \in DOMAIN rest : i + 1 \in DOMAIN todo /\ rest[i] = todo[i + 1]
        /\ \A i \in DOMAIN todo : i > 1 => i - 1 \in DOMAIN rest /\ rest[i - 1] = todo[i]
    BY <1>1, <1>4, HeadAndTail
  <2>2. \/ created /\ Go(p, st) /\ UNCHANGED faults
        \/ Fault /\ Abort(p) /\ (created \/ UNCHANGED <<repo, stubs>>)
    BY <1>4 DEF Put
  <2>3. \A i \in DOMAIN todo : \A z \in Above(todo[i]) :
          \/ repo[z].status # "missing"
          \/ \E j \in DOMAIN todo : j < i /\ todo[j] = z
    <3>1. ~ \E j \in DOMAIN proc[p].stack : TRUE
      BY <1>1
    <3> QED BY <1>1, <3>1 DEF Covered
  <2>4. \A z \in Above(x) : repo[z].status = "live"
    <3> SUFFICES ASSUME NEW z \in Above(x) PROVE repo[z].status = "live"
      OBVIOUS
    <3>1. ~ \E j \in DOMAIN todo : j < 1
      BY <2>1
    <3>2. repo[z].status # "missing"
      BY <2>1, <2>3, <3>1
    <3>3. repo[z].status # "gone"
      BY <1>4 DEF Refused
    <3>4. z \in Paths
      BY <2>1, AboveIsPaths
    <3> QED BY <3>2, <3>3, <3>4 DEF Core, RepoTypes, Resources
  <2> HIDE DEF x
  <2>5. CASE created
    <3>1. RepoTypes' /\ TreeIsClosed' /\ NothingForgotten
      BY <2>1, <2>4, <2>5, CreatedCore DEF Core
    <3>2. faults' \in 0..MaxFaults
      BY <2>2, FaultCounted DEF Core
    <3>3. CASE Abort(p)
      BY <1>1, <3>1, <3>2, <3>3, AbortFit, FitCore DEF Abort
    <3>4. CASE Go(p, st)
      <4>1. repo'[x].status = "live"
        BY <2>1, <2>5 DEF Core, RepoTypes, Resources
      <4>2. st \in States /\ st.stack = <<>> /\ st.todo = rest
        BY <1>1, <2>1 DEF States
      <4>3. Sane(st, command[p])
        BY <1>1, <2>1 DEF Sane, States, StackSteps
      <4> HIDE DEF st, rest
      <4>4. \A i \in DOMAIN rest : \A z \in Above(rest[i]) :
              \/ repo'[z].status # "missing"
              \/ \E j \in DOMAIN rest : j < i /\ rest[j] = z
        <5> SUFFICES ASSUME NEW i \in DOMAIN rest, NEW z \in Above(rest[i]),
                            repo'[z].status = "missing"
                     PROVE  \E j \in DOMAIN rest : j < i /\ rest[j] = z
          OBVIOUS
        <5>1. z \in Paths
          BY <2>1, AboveIsPaths
        <5>2. repo[z].status = "missing" /\ z # x
          BY <5>1, <3>1, <4>1 DEF NothingForgotten
        <5>3. PICK j \in DOMAIN todo : j < i + 1 /\ todo[j] = z
          BY <2>1, <2>3, <5>2
        <5>4. j # 1
          BY <5>2, <5>3, <2>1
        <5>5. j > 1 /\ j \in Nat /\ i \in Nat /\ j - 1 < i
          BY <5>3, <5>4, <2>1
        <5>6. j - 1 \in DOMAIN rest /\ rest[j - 1] = z
          BY <5>3, <5>5, <2>1
        <5> QED BY <5>5, <5>6
      <4>5. Covered(st, repo')
        BY <4>2, <4>4 DEF Covered
      <4> QED BY <1>1, <3>1, <3>2, <3>4, <4>2, <4>3, <4>5, GoCore
    <3> QED BY <2>2, <3>3, <3>4
  <2>6. CASE Fault /\ Abort(p) /\ UNCHANGED <<repo, stubs>>
    BY <1>1, <2>6, AbortCore
  <2> QED BY <2>2, <2>5, <2>6
<1> QED BY <1>2, <1>3, <1>4

LEMMA ReadInv ==
  ASSUME Core, NEW p \in Procs, Read(p) PROVE Core'
<1> DEFINE x == Here(p)
           next == CASE command[p].type = "set" -> "patch"
                     [] command[p].type \in {"web", "web_model"} -> "edit"
                     [] command[p].type = "replace" -> "binary"
                     [] command[p].type = "annotate" ->
                          IF HtmlFiles[x] = 0 THEN "leave" ELSE "annotate"
           st == [proc[p] EXCEPT !.pc = next, !.read = repo[x].titles, !.count = 0]
<1>1. /\ proc[p].pc = "read" /\ UNCHANGED command
      /\ IF Live(p, x) THEN Ask(p, st) ELSE Abort(p) /\ UNCHANGED <<repo, stubs, faults>>
  BY DEF Read
<1>2. /\ proc[p] \in States /\ Sane(proc[p], command[p]) /\ x \in Paths
      /\ proc[p].stack # <<>> /\ proc[p].left # <<>>
  BY <1>1, ProcFacts, HereFacts DEF Sane, StackSteps
<1>3. repo[x].titles \subseteq Values
  BY <1>2 DEF Core, RepoTypes, Resources
<1>4. next \in {"patch", "edit", "binary", "leave", "annotate"}
  BY <1>1, <1>2 DEF Sane
<1> HIDE DEF next, x
<1>5. Fit(p, st)
  <2>1. st \in States
    BY <1>2, <1>3, <1>4 DEF States, Steps
  <2> QED BY <1>2, <1>4, <2>1 DEF Fit, Sane, States, StackSteps
<1> QED BY <1>1, <1>5, AskCore, AbortCore

LEMMA PutBinaryInv ==
  ASSUME Core, NEW p \in Procs, PutBinary(p) PROVE Core'
<1>1. proc[p].pc \in StackSteps
  BY DEF PutBinary, Is, StackSteps
<1>2. Fit(p, To(p, "patch")) /\ Here(p) \in Paths /\ command[p].value \in Values
  BY <1>1, ToStepFit, HereFacts, ProcFacts DEF StackSteps
<1>3. {[op |-> "put", path |-> Here(p), value |-> command[p].value]} \in SUBSET Writes
  BY <1>2 DEF Writes
<1> QED BY <1>2, <1>3, SendCore, AbortCore DEF PutBinary

(* The PATCH of set, replace and the web service. *)
LEMMA PatchWrites ==
  ASSUME Core, NEW p \in Procs, proc[p].pc \in {"patch", "edit"}
  PROVE  /\ {[op |-> "patch", path |-> Here(p), old |-> proc[p].read,
              new |-> {command[p].value}]} \in SUBSET Writes
         /\ Fit(p, To(p, "leave"))
<1>1. proc[p].pc \in StackSteps /\ proc[p].pc \notin {"next", "done", "aborted"}
  BY DEF StackSteps
<1>2. /\ Fit(p, To(p, "leave")) /\ Here(p) \in Paths /\ command[p].value \in Values
      /\ proc[p].read \in SUBSET Values
  BY <1>1, ToLeaveFit, HereFacts, ProcFacts DEF States
<1> QED BY <1>2 DEF Writes

LEMMA PatchInv ==
  ASSUME Core, NEW p \in Procs, Patch(p) PROVE Core'
<1>1. proc[p].pc = "patch" /\ UNCHANGED command
  BY DEF Patch
<1> QED BY <1>1, PatchWrites, QuietCore, SendCore, AbortCore DEF Patch

LEMMA PatchOverWebInv ==
  ASSUME Core, NEW p \in Procs, PatchOverWeb(p) PROVE Core'
<1>1. proc[p].pc = "edit" /\ UNCHANGED command
  BY DEF PatchOverWeb
<1> QED BY <1>1, PatchWrites, QuietCore, SendCore, AbortCore DEF PatchOverWeb

LEMMA SendAnnotationInv ==
  ASSUME Core, NEW p \in Procs, proc[p].pc \in StackSteps, NEW st, Fit(p, st),
         SendAnnotation(p, st), UNCHANGED command
  PROVE  Core'
<1>1. Here(p) \in Paths /\ proc[p].count \in Nat
  BY HereFacts, ProcFacts DEF States
<1>2. {[op |-> "annotate", path |-> Here(p), id |-> <<p, proc[p].count>>]} \in SUBSET Writes
  BY <1>1 DEF Writes
<1> QED BY <1>2, SendCore, AbortCore DEF SendAnnotation

LEMMA AnnotateInv ==
  ASSUME Core, NEW p \in Procs, Annotate(p) PROVE Core'
<1> DEFINE k == proc[p].count
           last == k = HtmlFiles[Here(p)]
           found == [proc[p] EXCEPT !.count = 1]
           st == [proc[p] EXCEPT !.count = k + 1, !.pc = IF last THEN "leave" ELSE @]
<1>1. /\ proc[p].pc = "annotate" /\ UNCHANGED command
      /\ IF k = 0 THEN Ask(p, IF HasContainer(p, Here(p)) THEN found ELSE To(p, "container"))
         ELSE SendAnnotation(p, st)
  BY DEF Annotate, Is
<1>2. proc[p] \in States /\ Sane(proc[p], command[p]) /\ k \in Nat
  BY ProcFacts DEF States
<1> HIDE DEF last
<1>3. Fit(p, found)
  BY <1>1, <1>2 DEF Fit, Sane, States, StackSteps
<1>4. Fit(p, st)
  <2> DEFINE next == IF last THEN "leave" ELSE proc[p].pc
  <2>1. next \in {"annotate", "leave"}
    BY <1>1
  <2>2. k + 1 \in Nat
    BY <1>2
  <2>3. st = [proc[p] EXCEPT !.count = k + 1, !.pc = next]
    BY <1>2 DEF States
  <2>4. next \in Steps
    BY <2>1 DEF Steps
  <2> HIDE DEF next, st, k
  <2>5. st \in States
    BY <1>2, <2>2, <2>3, <2>4 DEF States
  <2> QED BY <1>1, <1>2, <2>1, <2>3, <2>5 DEF Fit, Sane, States, StackSteps
<1>5. Fit(p, To(p, "container")) /\ proc[p].pc \in StackSteps
  BY <1>1, ToStepFit DEF StackSteps
<1> QED BY <1>1, <1>3, <1>4, <1>5, AskCore, SendAnnotationInv

LEMMA PutAnnotationsInv ==
  ASSUME Core, NEW p \in Procs, PutAnnotations(p) PROVE Core'
<1>1. proc[p].pc \in StackSteps
  BY DEF PutAnnotations, Is, StackSteps
<1>2. Fit(p, To(p, "annotate"))
  BY <1>1, ToStepFit DEF StackSteps
<1>3. Fit(p, [To(p, "annotate") EXCEPT !.count = 1])
  BY <1>2 DEF Fit, Sane, States, StackSteps, To
<1> QED BY <1>1, <1>3, SendAnnotationInv DEF PutAnnotations

LEMMA StubPartInv ==
  ASSUME Core, NEW p \in Procs, StubPart(p) PROVE Core'
<1> DEFINE r == Head(proc[p].left)
           k == proc[p].count
           write == {[op |-> "stub", row |-> r, part |-> PartOrder[k]]}
           st == [proc[p] EXCEPT !.count = k + 1]
<1>1. /\ proc[p].pc = "stub" /\ k <= 5 /\ UNCHANGED command
      /\ \/ Abort(p) /\ UNCHANGED <<repo, stubs, faults>>
         \/ Send(p, write, st)
         \/ Fault /\ Go(p, To(p, "leave")) /\ UNCHANGED <<repo, stubs>>
  BY DEF StubPart, Is
<1>2. /\ proc[p] \in States /\ Sane(proc[p], command[p]) /\ k \in Nat /\ k # 0
      /\ proc[p].left \in Seq(StubRows) /\ proc[p].left # <<>>
  BY <1>1, ProcFacts DEF Sane, States
<1>3. r \in StubRows
  BY <1>2, HeadAndTail
<1>4. k \in 1..5
  BY <1>1, <1>2
<1>5. PartOrder[k] \in Parts
  BY <1>4 DEF PartOrder, Parts
<1> HIDE DEF r
<1>6. write \in SUBSET Writes
  BY <1>3, <1>5 DEF Writes
<1>7. Fit(p, st)
  <2>1. k + 1 \in Nat /\ k + 1 # 0
    BY <1>2
  <2> DEFINE c == k + 1
  <2> HIDE DEF c
  <2>2. [proc[p] EXCEPT !.count = c] \in States
    BY <1>2, <2>1 DEF States, c
  <2>3. st \in States /\ st.count # 0
    BY <1>2, <2>1, <2>2 DEF States, c
  <2> QED BY <1>1, <1>2, <2>3 DEF Fit, Sane, States, StackSteps
<1>8. Fit(p, To(p, "leave"))
  BY <1>1, ToLeaveFit
<1> QED BY <1>1, <1>6, <1>7, <1>8, AbortCore, SendCore, QuietCore

LEMMA WriteRowInv ==
  ASSUME Core, NEW p \in Procs, WriteRow(p) PROVE Core'
BY ToLeaveFit, QuietCore DEF WriteRow, Is

-----------------------------------------------------------------------------
(* What is logged, sent or written names paths and rows. *)
LEMMA LogsInv ==
  ASSUME Core, LogTypes, NEW p \in Procs, Step(p) PROVE LogTypes'
<1>1. CASE UNCHANGED Logs
  BY <1>1 DEF Logs, LogTypes
<1>2. CASE Look(p)
  <2>1. Here(p) \in Paths
    BY <1>2, HereFacts DEF Look, StackSteps
  <2>2. /\ messages' \in {messages, messages \cup {[path |-> Here(p), removed |-> TRUE]}}
        /\ UNCHANGED <<completed, written>>
    BY <1>2 DEF Look
  <2>3. [path |-> Here(p), removed |-> TRUE] \in [path : Paths, removed : BOOLEAN]
    BY <2>1
  <2>4. messages' \subseteq [path : Paths, removed : BOOLEAN]
    BY <2>2, <2>3 DEF LogTypes
  <2> QED BY <2>2, <2>4 DEF LogTypes
<1>3. CASE SendMessage(p)
  <2>1. Here(p) \in Paths
    BY <1>3, HereFacts DEF SendMessage, Is, StackSteps
  <2>2. /\ messages' = messages \cup {[path |-> Here(p), removed |-> FALSE]}
        /\ UNCHANGED <<completed, written>>
    BY <1>3 DEF SendMessage
  <2>3. [path |-> Here(p), removed |-> FALSE] \in [path : Paths, removed : BOOLEAN]
    BY <2>1
  <2>4. messages' \subseteq [path : Paths, removed : BOOLEAN]
    BY <2>2, <2>3 DEF LogTypes
  <2> QED BY <2>2, <2>4 DEF LogTypes
<1>4. CASE Delete(p) \/ SendDelete(p)
  <2>1. Here(p) \in Paths
    BY <1>4, HereFacts DEF Delete, SendDelete, Is, StackSteps
  <2>2. /\ completed' \in {completed, completed \cup {Here(p)}}
        /\ UNCHANGED <<messages, written>>
    BY <1>4 DEF Delete, SendDelete
  <2> QED BY <2>1, <2>2 DEF LogTypes
<1>5. CASE WriteRow(p)
  <2>1. proc[p].left \in Seq(StubRows) /\ proc[p].left # <<>>
    BY <1>5, ProcFacts DEF WriteRow, Is, Sane
  <2>2. Head(proc[p].left) \in StubRows
    BY <2>1, HeadAndTail
  <2> QED BY <1>5, <2>2 DEF WriteRow, LogTypes
<1> QED
  BY <1>1, <1>2, <1>3, <1>4, <1>5 DEF Step, Walk, Enter, Finish, Leave, Get, DryRun, Check,
     Put, Read, PutBinary, Patch, PatchOverWeb, Annotate, PutAnnotations, StubPart, Logs

LEMMA StepInv ==
  ASSUME Core, NEW p \in Procs, Step(p) PROVE Core'
BY EnterInv, FinishInv, LeaveInv, LookInv, GetInv, SendMessageInv, DryRunInv, DeleteInv,
   SendDeleteInv, CheckInv, PutInv, ReadInv, PutBinaryInv, PatchInv, PatchOverWebInv,
   AnnotateInv, PutAnnotationsInv, StubPartInv, WriteRowInv DEF Step, Walk

LEMMA NextInv == CommandInv /\ [Next]_vars => CommandInv'
<1>1. CommandInv /\ Next => CommandInv'
  BY StepInv, LogsInv DEF Next, CommandInv
<1>2. CommandInv /\ UNCHANGED vars => CommandInv'
  BY DEF vars, CommandInv, Core, LogTypes, RepoTypes, ProcTypes, TreeIsClosed, Covered
<1> QED BY <1>1, <1>2

LEMMA Invariant == Spec => []CommandInv
BY InitInv, NextInv, PTL DEF Spec

-----------------------------------------------------------------------------
(* Every variable stays in its type, for any commands (the requests of a   *)
(* transaction and the state each process is in included).                 *)
THEOREM CommandTypesHold == Spec => []TypeOK
<1>1. CommandInv => TypeOK
  BY DEF CommandInv, Core, LogTypes, RepoTypes, ProcTypes, TypeOK, Sane, StackSteps
<1> QED BY <1>1, Invariant, PTL

(* Whatever create, delete and all others do to each other, in a tree of   *)
(* any size, no resource is left without its ancestors (base.py:194-205).  *)
THEOREM TreeStaysClosed == Spec => []TreeIsClosed
<1>1. CommandInv => TreeIsClosed
  BY DEF CommandInv, Core
<1> QED BY <1>1, Invariant, PTL

-----------------------------------------------------------------------------
(* The log of deleted resources.                                           *)

(* walk() has found what it reads and deletes, so it is not missing; and a *)
(* process without a transaction has no requests in one.                   *)
Found(st, r) == st.pc \in {"get", "act", "delete"} => r[Head(st.stack)].status # "missing"
Pending(st, cmd) == ~cmd.tx => st.writes = {}
Seen == \A p \in Procs : Found(proc[p], repo) /\ Pending(proc[p], command[p])

Counted == Fault \/ UNCHANGED faults
ServerStep ==
  \A x \in Paths :
    \/ repo'[x].status = repo[x].status
    \/ repo[x].status = "live" /\ repo'[x].status = "gone"
    \/ repo[x].status = "missing" /\ repo'[x].status = "live"

LEMMA ApplyStatus ==
  ASSUME RepoTypes, NEW writes, Apply(writes)
  PROVE  \A x \in Paths : \/ repo'[x].status = repo[x].status
                          \/ repo[x].status = "live" /\ repo'[x].status = "gone"
<1> DEFINE changes == {w \in writes : w.op # "stub"}
<1>1. repo' = [x \in Paths |-> Change(x, repo[x], changes)]
  BY DEF Apply
<1> HIDE DEF changes
<1>2. \A x \in Paths : repo'[x].status = Change(x, repo[x], changes).status
  BY <1>1
<1> QED BY <1>2, ChangeStatus

LEMMA GoSeen ==
  ASSUME Core, Seen, NEW p \in Procs, NEW st, Go(p, st), UNCHANGED command, ServerStep,
         Found(st, repo'), Pending(st, command[p])
  PROVE  Seen'
<1>1. ASSUME NEW q \in Procs PROVE Found(proc'[q], repo') /\ Pending(proc'[q], command'[q])
  <2>1. CASE q = p
    BY <2>1 DEF Go, Core, ProcTypes
  <2>2. CASE q # p
    <3>1. proc'[q] = proc[q] /\ command' = command
      BY <2>2 DEF Go, Core, ProcTypes
    <3>2. Found(proc[q], repo) /\ Pending(proc[q], command[q])
      BY DEF Seen
    <3>3. ASSUME proc[q].pc \in {"get", "act", "delete"}
          PROVE  repo'[Head(proc[q].stack)].status # "missing"
      <4>1. Head(proc[q].stack) \in Paths
        BY <3>3, HereFacts DEF StackSteps, Here
      <4> QED BY <4>1, <3>2, <3>3 DEF Found, ServerStep
    <3> QED BY <3>1, <3>2, <3>3 DEF Found, Pending
  <2> QED BY <2>1, <2>2
<1> QED BY <1>1 DEF Seen

LEMMA QuietSeen ==
  ASSUME Core, Seen, NEW p \in Procs, NEW st, Go(p, st), UNCHANGED <<repo, command>>,
         Found(st, repo), Pending(st, command[p])
  PROVE  Seen' /\ ServerStep
<1>1. ServerStep
  BY DEF ServerStep
<1> QED BY <1>1, GoSeen DEF Found

LEMMA AppliedSeen ==
  ASSUME Core, Seen, NEW p \in Procs, NEW st, Go(p, st), UNCHANGED command,
         NEW writes, Apply(writes),
         st.pc \notin {"get", "act", "delete"}, Pending(st, command[p])
  PROVE  Seen' /\ ServerStep
<1>1. ServerStep
  BY ApplyStatus DEF ServerStep, Core
<1> QED BY <1>1, GoSeen DEF Found

LEMMA AbortState ==
  ASSUME Core, NEW p \in Procs
  PROVE  LET st == [proc[p] EXCEPT !.pc = "aborted", !.writes = {}]
         IN st.pc = "aborted" /\ st.writes = {}
BY ProcFacts DEF States

LEMMA AbortSeen ==
  ASSUME Core, Seen, NEW p \in Procs, Abort(p), UNCHANGED command,
         UNCHANGED repo \/ \E writes : Apply(writes)
  PROVE  Seen' /\ ServerStep
<1> DEFINE st == [proc[p] EXCEPT !.pc = "aborted", !.writes = {}]
<1>1. Go(p, st) /\ Found(st, repo) /\ Pending(st, command[p]) /\ st.pc = "aborted"
  BY AbortState DEF Abort, Found, Pending
<1> HIDE DEF st
<1> QED BY <1>1, QuietSeen, AppliedSeen

LEMMA SendSeen ==
  ASSUME Core, Seen, NEW p \in Procs, NEW writes, NEW st, st \in States, Send(p, writes, st),
         UNCHANGED command,
         st.pc \notin {"get", "act", "delete"}, Pending(st, command[p])
  PROVE  Seen' /\ ServerStep /\ Counted
<1> DEFINE more == [st EXCEPT !.writes = @ \cup writes]
<1>1. \/ InTransaction(p) /\ UNCHANGED <<repo, faults>> /\ Go(p, more)
      \/ Fault /\ Abort(p) /\ (UNCHANGED repo \/ Apply(writes))
      \/ Apply(writes) /\ Go(p, st) /\ UNCHANGED faults
  BY DEF Send
<1>2. CASE InTransaction(p) /\ UNCHANGED <<repo, faults>> /\ Go(p, more)
  <2>1. more.pc = st.pc
    BY DEF States
  <2>2. Found(more, repo) /\ Pending(more, command[p])
    BY <1>2, <2>1 DEF Found, Pending, InTransaction
  <2> HIDE DEF more
  <2> QED BY <1>2, <2>2, QuietSeen DEF Counted
<1>3. CASE Fault /\ Abort(p) /\ (UNCHANGED repo \/ Apply(writes))
  BY <1>3, AbortSeen DEF Counted
<1>4. CASE Apply(writes) /\ Go(p, st) /\ UNCHANGED faults
  BY <1>4, AppliedSeen DEF Counted
<1> QED BY <1>1, <1>2, <1>3, <1>4

LEMMA AskSeen ==
  ASSUME Core, Seen, NEW p \in Procs, NEW st, Ask(p, st), UNCHANGED command,
         Found(st, repo), Pending(st, command[p])
  PROVE  Seen' /\ ServerStep /\ Counted
BY QuietSeen, AbortSeen DEF Ask, Counted

LEMMA ProbeSeen ==
  ASSUME Core, Seen, NEW p \in Procs, NEW x, NEW found, NEW missing,
         Probe(p, x, found, missing), UNCHANGED command,
         Live(p, x) => Found(found, repo), Pending(found, command[p]),
         Found(missing, repo), Pending(missing, command[p])
  PROVE  Seen' /\ ServerStep /\ Counted
BY QuietSeen, AbortSeen DEF Probe, Counted

(* Most states keep the requests of the transaction and are not walking.   *)
LEMMA PlainState ==
  ASSUME Core, Seen, NEW p \in Procs, NEW st, st.writes \in {proc[p].writes, {}},
         st.pc \notin {"get", "act", "delete"}
  PROVE  (\A r : Found(st, r)) /\ Pending(st, command[p])
BY DEF Found, Pending, Seen

LEMMA StepSeen ==
  ASSUME Core, Seen, NEW p \in Procs, Step(p)
  PROVE  Seen' /\ ServerStep /\ Counted
<1>0. /\ proc[p] \in States /\ Found(proc[p], repo) /\ Pending(proc[p], command[p])
      /\ UNCHANGED command
  BY ProcFacts DEF Seen, Step, Walk, Enter, Finish, Leave, Look, Get, SendMessage, DryRun, Delete,
     SendDelete, Check, Put, Read, PutBinary, Patch, PatchOverWeb, Annotate, PutAnnotations,
     StubPart, WriteRow
<1>a. \A pc : To(p, pc).pc = pc /\ To(p, pc).writes = proc[p].writes
              /\ To(p, pc).stack = proc[p].stack
  BY <1>0 DEF To, States
<1>b. \A pc \in Steps : To(p, pc) \in States
  BY <1>0 DEF To, States
<1>c. \A st : st \in {Skip(p), Descend(p), NextArgument(p)} =>
        st.writes \in {proc[p].writes, {}} /\ st.pc \notin {"get", "act", "delete"}
  BY <1>0 DEF Skip, Descend, NextArgument, States
<1>d. ASSUME Abort(p), UNCHANGED <<repo, stubs, faults>> PROVE Seen' /\ ServerStep /\ Counted
  BY <1>d, <1>0, AbortSeen DEF Counted
<1>1. CASE Enter(p)
  <2>1. FirstStep(p).writes = proc[p].writes /\ FirstStep(p).pc \notin {"get", "act", "delete"}
    BY <1>0, ProcFacts DEF FirstStep, To, States, CommandTypes
  <2> QED BY <1>1, <1>0, <2>1, PlainState, AskSeen DEF Enter
<1>2. CASE Finish(p)
  BY <1>2, <1>0, <1>a, PlainState, QuietSeen DEF Finish, Counted
<1>3. CASE Leave(p)
  <2>1. CASE Apply(proc[p].writes) /\ Go(p, NextArgument(p)) /\ UNCHANGED faults
    BY <2>1, <1>0, <1>c, PlainState, AppliedSeen DEF Counted
  <2>2. CASE Fault /\ Abort(p) /\ (Apply(proc[p].writes) \/ UNCHANGED <<repo, stubs>>)
    BY <2>2, <1>0, AbortSeen DEF Counted
  <2> QED BY <1>3, <2>1, <2>2 DEF Leave
<1>4. CASE Look(p)
  <2>1. CASE Ask(p, Skip(p))
    BY <2>1, <1>0, <1>c, PlainState, AskSeen
  <2>2. CASE Probe(p, Here(p), To(p, "get"), Skip(p))
    <3>1. Live(p, Here(p)) => Found(To(p, "get"), repo)
      BY <1>a DEF Live, Found, Here
    <3>2. Pending(To(p, "get"), command[p])
      BY <1>0, <1>a DEF Pending
    <3> QED BY <2>2, <3>1, <3>2, <1>0, <1>c, PlainState, ProbeSeen
  <2> QED BY <1>4, <2>1, <2>2 DEF Look
<1>5. CASE Get(p)
  <2>1. CASE Ask(p, To(p, "act"))
    <3>1. Found(To(p, "act"), repo) /\ Pending(To(p, "act"), command[p])
      BY <1>5, <1>0, <1>a DEF Get, Found, Pending
    <3> QED BY <2>1, <3>1, <1>0, AskSeen
  <2>2. CASE Go(p, [To(p, "leave") EXCEPT !.stack = <<>>]) /\ UNCHANGED <<repo, stubs, faults>>
    <3> DEFINE st == [To(p, "leave") EXCEPT !.stack = <<>>]
    <3>1. st.writes = proc[p].writes /\ st.pc = "leave"
      BY <1>0 DEF To, States
    <3>2. Go(p, st) /\ UNCHANGED <<repo, stubs, faults>>
      BY <2>2
    <3> HIDE DEF st
    <3> QED BY <3>1, <3>2, <1>0, PlainState, QuietSeen DEF Counted
  <2> QED BY <1>5, <2>1, <2>2, <1>d DEF Get
<1>6. CASE SendMessage(p) \/ DryRun(p)
  BY <1>6, <1>0, <1>c, PlainState, QuietSeen DEF SendMessage, DryRun, Counted
<1>7. CASE Delete(p)
  <2>1. Found(To(p, "delete"), repo) /\ Pending(To(p, "delete"), command[p])
    BY <1>7, <1>0, <1>a DEF Delete, Is, Found, Pending
  <2> QED BY <1>7, <2>1, <1>0, <1>c, PlainState, ProbeSeen DEF Delete
<1>8. CASE SendDelete(p)
  <2>1. Descend(p) \in States
    BY <1>8, WalkFit DEF SendDelete, Is, StackSteps, Fit
  <2> QED BY <1>8, <2>1, <1>0, <1>c, <1>d, PlainState, SendSeen DEF SendDelete
<1>9. CASE Check(p)
  <2> DEFINE rest == Tail(proc[p].stack)
             next == IF rest = <<>> THEN "put" ELSE "check"
             found == [proc[p] EXCEPT !.stack = rest,
                                      !.pc = IF Here(p) = Head(proc[p].left) THEN "leave" ELSE next]
             missing == [proc[p] EXCEPT !.stack = rest, !.pc = next, !.todo = <<Here(p)>> \o @]
  <2>1. found.writes = proc[p].writes /\ found.pc \in {"leave", "put", "check"}
        /\ missing.writes = proc[p].writes /\ missing.pc \in {"put", "check"}
    BY <1>0 DEF States
  <2>2. Probe(p, Here(p), found, missing)
    BY <1>9 DEF Check
  <2> HIDE DEF found, missing
  <2> QED BY <2>1, <2>2, <1>0, PlainState, ProbeSeen
<1>10. CASE Put(p)
  <2> DEFINE x == Head(proc[p].todo)
             rest == [proc[p] EXCEPT !.todo = Tail(proc[p].todo)]
             created == repo' = [repo EXCEPT ![x].status = "live"] /\ UNCHANGED stubs
  <2>1. CASE UNCHANGED <<repo, stubs, faults>> /\ (Go(p, To(p, "leave")) \/ Abort(p))
    BY <2>1, <1>0, <1>a, <1>d, PlainState, QuietSeen DEF Counted
  <2>2. CASE Fault /\ Abort(p) /\ UNCHANGED <<repo, stubs>>
    BY <2>2, <1>0, AbortSeen DEF Counted
  <2>3. CASE created /\ ~Refused(x) /\ ((Go(p, rest) /\ UNCHANGED faults) \/ (Fault /\ Abort(p)))
    <3>1. repo[x].status = "missing"
      BY <2>3 DEF Refused
    <3>2. ServerStep
      BY <2>3, <3>1 DEF ServerStep, Core, RepoTypes, Resources
    <3>3. rest.pc = "put" /\ rest.writes = proc[p].writes
      BY <1>10, <1>0 DEF Put, States
    <3> HIDE DEF rest, x
    <3>4. Found(rest, repo') /\ Pending(rest, command[p])
      BY <3>3, PlainState
    <3>5. CASE Go(p, rest)
      BY <2>3, <3>2, <3>4, <3>5, <1>0, GoSeen DEF Counted
    <3>6. CASE Abort(p)
      <4> DEFINE st == [proc[p] EXCEPT !.pc = "aborted", !.writes = {}]
      <4>1. Go(p, st) /\ Found(st, repo') /\ Pending(st, command[p])
        BY <3>6, AbortState DEF Abort, Found, Pending
      <4> HIDE DEF st
      <4> QED BY <2>3, <3>2, <4>1, <1>0, GoSeen DEF Counted
    <3> QED BY <2>3, <3>5, <3>6
  <2> QED BY <1>10, <2>1, <2>2, <2>3 DEF Put
<1>11. CASE Read(p)
  <2> DEFINE c == command[p]
             next == CASE c.type = "set" -> "patch"
                       [] c.type \in {"web", "web_model"} -> "edit"
                       [] c.type = "replace" -> "binary"
                       [] c.type = "annotate" -> IF HtmlFiles[Here(p)] = 0 THEN "leave" ELSE "annotate"
             st == [proc[p] EXCEPT !.pc = next, !.read = repo[Here(p)].titles, !.count = 0]
  <2>1. c.type \in {"set", "replace", "annotate", "web", "web_model"}
    BY <1>11, ProcFacts DEF Read, Sane
  <2>2. next \in {"patch", "edit", "binary", "leave", "annotate"}
    BY <2>1
  <2>3. st.pc = next /\ st.writes = proc[p].writes
    BY <1>0 DEF States
  <2>4. Ask(p, st) \/ (Abort(p) /\ UNCHANGED <<repo, stubs, faults>>)
    BY <1>11 DEF Read
  <2> HIDE DEF st, next
  <2> QED BY <2>2, <2>3, <2>4, <1>0, <1>d, PlainState, AskSeen
<1>12. CASE PutBinary(p)
  BY <1>12, <1>0, <1>a, <1>b, <1>d, PlainState, SendSeen DEF PutBinary, Steps
<1>13. CASE Patch(p) \/ PatchOverWeb(p)
  <2>1. \/ Go(p, To(p, "leave")) /\ UNCHANGED <<repo, stubs, faults>>
        \/ Abort(p) /\ UNCHANGED <<repo, stubs, faults>>
        \/ \E writes : Send(p, writes, To(p, "leave"))
    BY <1>13 DEF Patch, PatchOverWeb
  <2>2. To(p, "leave") \in States
    BY <1>b DEF Steps
  <2> QED BY <2>1, <2>2, <1>0, <1>a, <1>d, PlainState, QuietSeen, SendSeen DEF Counted
<1>14. CASE Annotate(p)
  <2> DEFINE k == proc[p].count
             then == IF k = HtmlFiles[Here(p)] THEN "leave" ELSE proc[p].pc
             found == [proc[p] EXCEPT !.count = 1]
             next == [proc[p] EXCEPT !.count = k + 1, !.pc = IF k = HtmlFiles[Here(p)] THEN "leave" ELSE @]
  <2>1. proc[p].pc = "annotate"
    BY <1>14 DEF Annotate, Is
  <2>2. found.pc = "annotate" /\ found.writes = proc[p].writes
    BY <2>1, <1>0 DEF States
  <2>3. next.pc \in {"leave", "annotate"} /\ next.writes = proc[p].writes /\ next \in States
    <3>1. then \in {"leave", "annotate"} /\ then \in Steps
      BY <2>1 DEF Steps
    <3>2. k + 1 \in Nat
      BY <1>0 DEF States
    <3>3. next = [proc[p] EXCEPT !.count = k + 1, !.pc = then]
      BY <1>0 DEF States
    <3> HIDE DEF k, then, next
    <3> QED BY <1>0, <3>1, <3>2, <3>3 DEF States
  <2>4. \/ Ask(p, found) \/ Ask(p, To(p, "container"))
        \/ SendAnnotation(p, next)
    BY <1>14 DEF Annotate
  <2> HIDE DEF k, then, found, next
  <2>5. CASE Ask(p, found) \/ Ask(p, To(p, "container"))
    BY <2>2, <2>5, <1>0, <1>a, PlainState, AskSeen
  <2>6. CASE SendAnnotation(p, next)
    BY <2>3, <2>6, <1>0, <1>d, PlainState, SendSeen DEF SendAnnotation
  <2> QED BY <2>4, <2>5, <2>6
<1>15. CASE PutAnnotations(p)
  <2> DEFINE next == [To(p, "annotate") EXCEPT !.count = 1]
  <2>1. next.pc = "annotate" /\ next.writes = proc[p].writes /\ next \in States
    BY <1>0 DEF To, States, Steps
  <2>2. SendAnnotation(p, next)
    BY <1>15 DEF PutAnnotations
  <2> HIDE DEF next
  <2> QED BY <2>1, <2>2, <1>0, <1>d, PlainState, SendSeen DEF SendAnnotation
<1>16. CASE StubPart(p)
  <2> DEFINE c == proc[p].count + 1
             next == [proc[p] EXCEPT !.count = c]
  <2>1. next.pc = "stub" /\ next.writes = proc[p].writes /\ next \in States
    <3>1. proc[p].pc = "stub" /\ c \in Nat
      BY <1>16, <1>0 DEF StubPart, Is, States
    <3> HIDE DEF c
    <3> QED BY <1>0, <3>1 DEF States
  <2>2. \/ Abort(p) /\ UNCHANGED <<repo, stubs, faults>>
        \/ \E writes : Send(p, writes, next)
        \/ Fault /\ Go(p, To(p, "leave")) /\ UNCHANGED <<repo, stubs>>
    BY <1>16 DEF StubPart
  <2> HIDE DEF next
  <2> QED BY <2>1, <2>2, <1>0, <1>a, <1>d, PlainState, QuietSeen, SendSeen DEF Counted
<1>17. CASE WriteRow(p)
  BY <1>17, <1>0, <1>a, PlainState, QuietSeen DEF WriteRow, Counted
<1> QED
  BY <1>1, <1>2, <1>3, <1>4, <1>5, <1>6, <1>7, <1>8, <1>9, <1>10, <1>11, <1>12, <1>13, <1>14,
     <1>15, <1>16, <1>17 DEF Step, Walk

(* What is in the log was there once; and unless a delete uses a           *)
(* transaction, no more of it is still there than requests have failed.    *)
NoTransactions == \A p \in Procs : command[p].type = "delete" => ~command[p].tx
Untrue == {x \in completed : repo[x].status = "live"}
LogPaid ==
  /\ \A x \in completed : repo[x].status # "missing"
  /\ NoTransactions => IsFiniteSet(Untrue) /\ Cardinality(Untrue) <= faults

LEMMA NoneAdded ==
  ASSUME Core, LogTypes, LogPaid, ServerStep, Counted, UNCHANGED command,
         completed' \subseteq Paths,
         \A x \in completed' \ completed : repo'[x].status = "gone"
  PROVE  LogPaid'
<1>1. \A x \in completed' : repo'[x].status # "missing"
  BY DEF LogTypes, LogPaid, ServerStep
<1>2. Untrue' \subseteq Untrue
  BY DEF LogTypes, LogPaid, ServerStep, Untrue
<1>3. ASSUME NoTransactions'
      PROVE  IsFiniteSet(Untrue') /\ Cardinality(Untrue') <= faults'
  <2>1. IsFiniteSet(Untrue) /\ Cardinality(Untrue) <= faults
    BY <1>3 DEF LogPaid, NoTransactions
  <2>2. IsFiniteSet(Untrue') /\ Cardinality(Untrue') <= Cardinality(Untrue)
    BY <1>2, <2>1, FS_Subset
  <2>3. faults \in Nat /\ (faults' = faults \/ faults' = faults + 1)
    BY CommandAssumption DEF Counted, Fault, Core
  <2>4. Cardinality(Untrue) \in Nat /\ Cardinality(Untrue') \in Nat
    BY <2>1, <2>2, FS_CardinalityType
  <2> QED BY <2>1, <2>2, <2>3, <2>4
<1> QED BY <1>1, <1>3 DEF LogPaid

LEMMA OneAdded ==
  ASSUME Core, LogTypes, LogPaid, Fault, UNCHANGED <<repo, command>>,
         NEW h \in Paths, repo[h].status # "missing", completed' = completed \cup {h}
  PROVE  LogPaid'
<1>1. \A x \in completed' : repo'[x].status # "missing"
  BY DEF LogPaid
<1>2. Untrue' \subseteq Untrue \cup {h}
  BY DEF Untrue
<1>3. ASSUME NoTransactions'
      PROVE  IsFiniteSet(Untrue') /\ Cardinality(Untrue') <= faults'
  <2>1. IsFiniteSet(Untrue) /\ Cardinality(Untrue) <= faults
    BY <1>3 DEF LogPaid, NoTransactions
  <2>2. /\ IsFiniteSet(Untrue \cup {h}) /\ Cardinality(Untrue) \in Nat
        /\ Cardinality(Untrue \cup {h}) <= Cardinality(Untrue) + 1
    <3>1. Cardinality(Untrue) \in Nat
      BY <2>1, FS_CardinalityType
    <3>2. /\ IsFiniteSet(Untrue \cup {h})
          /\ Cardinality(Untrue \cup {h}) = Cardinality(Untrue)
             \/ Cardinality(Untrue \cup {h}) = Cardinality(Untrue) + 1
      BY <2>1, FS_AddElement
    <3> QED BY <3>1, <3>2
  <2>3. IsFiniteSet(Untrue') /\ Cardinality(Untrue') <= Cardinality(Untrue \cup {h})
    BY <1>2, <2>2, FS_Subset
  <2>4. faults \in Nat /\ faults' = faults + 1
    BY CommandAssumption DEF Fault, Core
  <2>5. Cardinality(Untrue') \in Nat /\ Cardinality(Untrue \cup {h}) \in Nat
    BY <2>2, <2>3, FS_CardinalityType
  <2> QED BY <2>1, <2>2, <2>3, <2>4, <2>5
<1> QED BY <1>1, <1>3 DEF LogPaid

(* A delete without a transaction sees the server as it is. *)
LEMMA LiveIsLive ==
  ASSUME Seen, NEW p \in Procs, ~command[p].tx, NEW x
  PROVE  Live(p, x) <=> repo[x].status = "live"
BY DEF Seen, Pending, Live

LEMMA StepLogPaid ==
  ASSUME Core, LogTypes, Seen, LogPaid, NEW p \in Procs, Step(p)
  PROVE  LogPaid'
<1>1. ServerStep /\ Counted /\ LogTypes'
  BY StepSeen, LogsInv
<1>2. UNCHANGED command
  BY DEF Step, Walk, Enter, Finish, Leave, Look, Get, SendMessage, DryRun, Delete,
     SendDelete, Check, Put, Read, PutBinary, Patch, PatchOverWeb, Annotate, PutAnnotations,
     StubPart, WriteRow
<1>3. CASE UNCHANGED completed
  BY <1>1, <1>2, <1>3, NoneAdded DEF LogTypes
<1>4. ASSUME completed' = completed \cup {Here(p)}, Here(p) \in Paths, ~NoTransactions,
             repo[Here(p)].status # "missing"
      PROVE  LogPaid'
  BY <1>1, <1>2, <1>4 DEF LogPaid, NoTransactions, ServerStep, LogTypes
<1>5. CASE Delete(p)
  <2>1. /\ Here(p) \in Paths /\ repo[Here(p)].status # "missing" /\ proc[p] \in States
        /\ command[p].type = "delete"
    BY <1>5, HereFacts, ProcFacts DEF Delete, Is, StackSteps, Seen, Found, Here
  <2>2. Descend(p) # To(p, "delete")
    BY <2>1 DEF Descend, To, States
  <2>3. Descend(p) # [proc[p] EXCEPT !.pc = "aborted", !.writes = {}]
    BY <2>1 DEF Descend, States
  <2>4. completed' \in {completed, completed \cup {Here(p)}}
    BY <1>5 DEF Delete
  <2>5. CASE completed' # completed /\ NoTransactions
    <3>1. \A st : Go(p, st) => proc'[p] = st
      BY DEF Go, Core, ProcTypes
    <3>2. proc'[p] = Descend(p)
      BY <1>5, <2>5 DEF Delete
    <3>3. \/ ~Live(p, Here(p)) /\ UNCHANGED repo
          \/ Fault /\ UNCHANGED repo
      BY <1>5, <2>2, <2>3, <3>1, <3>2 DEF Delete, Probe, Abort
    <3>4. CASE Fault /\ UNCHANGED repo
      BY <1>2, <2>1, <2>4, <2>5, <3>4, OneAdded
    <3>5. CASE ~Live(p, Here(p)) /\ UNCHANGED repo
      <4>1. repo[Here(p)].status = "gone"
        BY <2>1, <2>5, <3>5, LiveIsLive DEF NoTransactions, Core, RepoTypes, Resources
      <4> QED BY <1>1, <1>2, <2>4, <3>5, <4>1, NoneAdded DEF LogTypes
    <3> QED BY <3>3, <3>4, <3>5
  <2> QED BY <1>3, <1>4, <2>1, <2>4, <2>5
<1>6. CASE SendDelete(p)
  <2> DEFINE request == {[op |-> "delete", path |-> Here(p)]}
  <2>1. /\ Here(p) \in Paths /\ repo[Here(p)].status # "missing" /\ proc[p] \in States
        /\ command[p].type = "delete"
    BY <1>6, HereFacts, ProcFacts DEF SendDelete, Is, StackSteps, Seen, Found, Here
  <2>2. completed' \in {completed, completed \cup {Here(p)}}
    BY <1>6 DEF SendDelete
  <2>3. CASE completed' # completed /\ NoTransactions
    <3>1. proc'[p].pc # "aborted"
      BY <1>6, <2>3 DEF SendDelete
    <3>2. ~Abort(p)
      BY <3>1, AbortState DEF Abort, Go, Core, ProcTypes
    <3>3. Live(p, Here(p)) /\ Apply(request)
      BY <1>6, <2>1, <2>3, <3>2 DEF SendDelete, Send, InTransaction, NoTransactions
    <3>4. repo[Here(p)].status = "live"
      BY <3>3 DEF Live
    <3>5. repo'[Here(p)].status = "gone"
      <4> DEFINE changes == {w \in request : w.op # "stub"}
      <4>1. repo' = [x \in Paths |-> Change(x, repo[x], changes)]
        BY <3>3 DEF Apply
      <4>2. \E w \in changes : w.op = "delete" /\ Here(p) \in Below(w.path)
        <5> DEFINE w == [op |-> "delete", path |-> Here(p)]
        <5>1. w \in changes /\ w.op = "delete" /\ w.path = Here(p)
          OBVIOUS
        <5>2. Here(p) \in Below(Here(p))
          BY <2>1 DEF Below
        <5> QED BY <5>1, <5>2
      <4> HIDE DEF changes
      <4>3. repo'[Here(p)].status = Change(Here(p), repo[Here(p)], changes).status
        BY <2>1, <4>1
      <4> QED BY <3>4, <4>2, <4>3, ChangeStatus
    <3> QED BY <1>1, <1>2, <2>2, <3>5, NoneAdded DEF LogTypes
  <2> QED BY <1>3, <1>4, <2>1, <2>2, <2>3
<1> QED
  BY <1>3, <1>5, <1>6 DEF Step, Walk, Enter, Finish, Leave, Look, Get, SendMessage, DryRun, Check,
     Put, Read, PutBinary, Patch, PatchOverWeb, Annotate, PutAnnotations, StubPart, WriteRow, Logs

(* Without transactions delete's log of completed items is true but for    *)
(* one entry per failed request, whatever other commands do (delete.py:47, *)
(* repo/__init__.py:245).                                                  *)
THEOREM DeletedAreGone == Spec => []DeleteLogIsTrue
<1> DEFINE Inv == CommandInv /\ Seen /\ LogPaid
<1>1. Init => Inv
  <2> SUFFICES ASSUME Init PROVE Seen /\ LogPaid
    BY InitInv
  <2>1. Seen
    BY DEF Init, Seen, Found, Pending
  <2>2. Untrue = {} /\ faults = 0
    BY DEF Init, Untrue
  <2>3. LogPaid
    BY <2>2, FS_EmptySet DEF Init, LogPaid
  <2> QED BY <2>1, <2>3
<1>2. Inv /\ [Next]_vars => Inv'
  <2> SUFFICES ASSUME Inv, [Next]_vars PROVE Inv'
    OBVIOUS
  <2>1. CommandInv'
    BY NextInv
  <2>2. CASE Next
    BY <2>1, <2>2, StepSeen, StepLogPaid DEF Next, CommandInv
  <2>3. CASE UNCHANGED vars
    BY <2>1, <2>3 DEF vars, Seen, LogPaid, Untrue, NoTransactions
  <2> QED BY <2>2, <2>3
<1>3. Inv => DeleteLogIsTrue
  BY DEF LogPaid, Untrue, NoTransactions, DeleteLogIsTrue
<1> QED BY <1>1, <1>2, <1>3, PTL DEF Spec

-----------------------------------------------------------------------------
(* Edits: what the processes that change titles, contents, annotations and *)
(* stubs have in hand, and what a step of theirs does to the repository.   *)

Editing == {"set", "replace", "web", "web_model"}
Walking == {"delete", "reindex", "create"}
Target(st) == Head(st.left)

(* A request is one that the command was called for, on the argument at    *)
(* hand; a PATCH deletes what was read.                                    *)
Request(p, st, w) ==
  /\ w.op = "delete" => command[p].type = "delete"
  /\ w.op = "put" =>
       /\ command[p].type = "replace" /\ st.pc \in {"binary", "patch", "leave"}
       /\ w.path = Target(st) /\ w.value = command[p].value
  /\ w.op = "patch" =>
       /\ command[p].type \in Editing /\ st.pc \in {"edit", "patch", "leave"}
       /\ w.path = Target(st) /\ w.old = st.read /\ w.new = {command[p].value}
       /\ w.old # w.new
       /\ command[p].type \in {"set", "web_model"} => command[p].value \notin Invalid
  /\ w.op = "annotate" =>
       command[p].type = "annotate" /\ w.path = Target(st) /\ \E k \in Nat : w.id = <<p, k>>
  /\ w.op = "stub" => command[p].type = "stub" /\ w.row = Target(st)

Patches(writes) == \E w \in writes : w.op = "patch"
Puts(writes) == \E w \in writes : w.op = "put"
Numbers(p, writes) == {k \in Nat \ {0} : \E w \in writes : w.op = "annotate" /\ w.id = <<p, k>>}

(* What replace and annotate commit is a whole edit.                       *)
WholeEdit(p, st, writes) ==
  /\ command[p].type = "replace" =>
       Puts(writes) /\ (st.read = {command[p].value} \/ Patches(writes))
  /\ command[p].type = "annotate" /\ command[p].tx =>
       Numbers(p, writes) = 1..HtmlFiles[Target(st)]

(* The arguments left are those of the command, none of them more often.   *)
Once(s, x) == \A j, k \in DOMAIN s : s[j] = x /\ s[k] = x => j = k
LeftOf(p, st) ==
  /\ \A k \in DOMAIN st.left : \E j \in DOMAIN command[p].args : st.left[k] = command[p].args[j]
  /\ \A x : Once(command[p].args, x) => Once(st.left, x)

Ready(p, st) ==
  /\ LeftOf(p, st)
  /\ st.pc \in {"look", "get", "act", "delete", "check", "put"} => command[p].type \in Walking
  /\ st.pc = "edit" => command[p].type \in {"web", "web_model"}
  /\ st.pc = "patch" => command[p].type \in {"set", "replace"}
  /\ st.pc = "binary" => command[p].type = "replace"
  /\ st.pc \in {"annotate", "container"} => command[p].type = "annotate"
  /\ st.pc = "container" => st.count = 0
  /\ st.pc \in {"read", "edit", "binary", "patch", "annotate", "container"} =>
       Head(st.stack) = Target(st)
  /\ ~command[p].tx \/ st.pc \in {"next", "read", "edit", "binary", "done", "aborted"} =>
       st.writes = {}
  /\ \A w \in st.writes : Request(p, st, w)
  /\ st.pc = "patch" /\ command[p].type = "replace" => Puts(st.writes)
  /\ command[p].type = "annotate" /\ command[p].tx =>
       /\ st.pc = "annotate" => Numbers(p, st.writes) = 1..(st.count - 1)
       /\ st.pc = "container" => Numbers(p, st.writes) = {}
  /\ st.pc = "leave" => WholeEdit(p, st, st.writes)

AllReady == \A p \in Procs : Ready(p, proc[p])

SameEdits ==
  /\ stubs' = stubs
  /\ \A x \in Paths : /\ repo'[x].titles = repo[x].titles
                      /\ repo'[x].content = repo[x].content
                      /\ repo'[x].annotations = repo[x].annotations

(* The server takes requests of p, whose next state is st.                 *)
Sends(p, st, writes) ==
  /\ proc[p].left # <<>> /\ st.read = proc[p].read
  /\ \A w \in writes : Request(p, proc[p], w)
  /\ WholeEdit(p, proc[p], writes)
  /\ command[p].type = "replace" => proc[p].pc = "leave"
  /\ Patches(writes) =>
       /\ proc[p].pc = "leave" => Patches(proc[p].writes)
       /\ \/ st.left = proc[p].left /\ st.pc = "aborted"
          \/ st.left = proc[p].left /\ st.pc = "leave" /\ ~Patches(st.writes)
          \/ st.left = Tail(proc[p].left)

(* Arguments are done with one after the other, and titles are read before *)
(* they are edited.                                                        *)
Onward(p, st) ==
  /\ proc[p].pc # "aborted"
  /\ \/ st.left = proc[p].left /\ (proc[p].pc = "leave" => st.pc = "aborted")
     \/ proc[p].pc = "leave" /\ st.pc = "next" /\ st.left = Tail(proc[p].left) /\ proc[p].left # <<>>
  /\ command[p].type \in Editing /\ st.pc \in {"edit", "binary", "patch", "leave"} =>
       \/ proc[p].pc \in {"edit", "binary", "patch"} /\ st.read = proc[p].read
       \/ SameEdits /\ st.read = repo[Target(st)].titles

StepEffect(p, st) ==
  /\ Go(p, st) /\ st \in States /\ UNCHANGED command
  /\ Ready(p, st) /\ Onward(p, st)
  /\ SameEdits \/ \E writes \in SUBSET Writes : Apply(writes) /\ Sends(p, st, writes)

-----------------------------------------------------------------------------
(* Steps by what they have in common. *)

LEMMA QuietEdits == UNCHANGED <<repo, stubs>> => SameEdits
BY DEF SameEdits

LEMMA AbortEffect ==
  ASSUME Core, NEW p \in Procs, Ready(p, proc[p]), proc[p].pc \notin {"done", "aborted"},
         Abort(p), UNCHANGED command,
         SameEdits \/ \E writes \in SUBSET Writes :
                        /\ Apply(writes) /\ proc[p].left # <<>>
                        /\ \A w \in writes : Request(p, proc[p], w)
                        /\ WholeEdit(p, proc[p], writes)
                        /\ command[p].type = "replace" => proc[p].pc = "leave"
                        /\ Patches(writes) /\ proc[p].pc = "leave" => Patches(proc[p].writes)
  PROVE  \E st : StepEffect(p, st)
<1> DEFINE st == [proc[p] EXCEPT !.pc = "aborted", !.writes = {}]
<1>1. proc[p] \in States
  BY ProcFacts
<1>2. /\ st \in States /\ st.pc = "aborted" /\ st.writes = {}
      /\ st.left = proc[p].left /\ st.read = proc[p].read
  BY <1>1 DEF States, Steps
<1>3. Go(p, st)
  BY DEF Abort
<1> HIDE DEF st
<1>4. Ready(p, st)
  BY <1>2 DEF Ready, LeftOf
<1>5. Onward(p, st)
  BY <1>2 DEF Onward
<1>6. ASSUME NEW writes \in SUBSET Writes, Apply(writes), proc[p].left # <<>>,
             \A w \in writes : Request(p, proc[p], w), WholeEdit(p, proc[p], writes),
             command[p].type = "replace" => proc[p].pc = "leave",
             Patches(writes) /\ proc[p].pc = "leave" => Patches(proc[p].writes)
      PROVE  Apply(writes) /\ Sends(p, st, writes)
  BY <1>2, <1>6 DEF Sends
<1>7. StepEffect(p, st)
  BY <1>2, <1>3, <1>4, <1>5, <1>6 DEF StepEffect
<1> QED BY <1>7

(* An answer, or an exception. *)
LEMMA AskEffect ==
  ASSUME Core, NEW p \in Procs, Ready(p, proc[p]), proc[p].pc \notin {"done", "aborted"},
         NEW st \in States, Ask(p, st), UNCHANGED command, Ready(p, st), Onward(p, st)
  PROVE  \E s : StepEffect(p, s)
<1>1. SameEdits
  BY QuietEdits DEF Ask
<1>2. CASE Go(p, st)
  BY <1>1, <1>2 DEF StepEffect
<1>3. CASE Abort(p)
  BY <1>1, <1>3, AbortEffect
<1> QED BY <1>2, <1>3 DEF Ask

(* A request. *)
LEMMA SendEffect ==
  ASSUME Core, NEW p \in Procs, Ready(p, proc[p]), proc[p].pc \notin {"leave", "done", "aborted"},
         proc[p].left # <<>>,
         NEW writes \in SUBSET Writes, NEW st \in States, Send(p, writes, st), UNCHANGED command,
         st.left = proc[p].left, st.read = proc[p].read, st.writes = proc[p].writes,
         \A w \in writes : Request(p, proc[p], w),
         Patches(writes) => st.pc = "leave",
         Onward(p, st),
         InTransaction(p) => Ready(p, [st EXCEPT !.writes = @ \cup writes]),
         ~InTransaction(p) => /\ Ready(p, st) /\ command[p].type # "replace"
                              /\ ~(command[p].type = "annotate" /\ command[p].tx)
  PROVE  \E s : StepEffect(p, s)
<1> DEFINE more == [st EXCEPT !.writes = @ \cup writes]
<1>1. CASE InTransaction(p) /\ UNCHANGED <<repo, stubs>> /\ Go(p, more)
  <2>1. /\ more \in States /\ more.pc = st.pc /\ more.left = st.left /\ more.read = st.read
    BY DEF States
  <2>2. Ready(p, more)
    BY <1>1
  <2>3. Go(p, more) /\ SameEdits
    BY <1>1, QuietEdits
  <2> HIDE DEF more
  <2>4. Onward(p, more)
    BY <2>1 DEF Onward, Target
  <2>5. StepEffect(p, more)
    BY <2>1, <2>2, <2>3, <2>4 DEF StepEffect
  <2> QED BY <2>5
<1>2. CASE UNCHANGED <<repo, stubs>> /\ Abort(p)
  BY <1>2, QuietEdits, AbortEffect
<1>3. ASSUME ~InTransaction(p) PROVE WholeEdit(p, proc[p], writes)
  BY <1>3 DEF WholeEdit
<1>4. CASE ~InTransaction(p) /\ Apply(writes) /\ Abort(p)
  BY <1>3, <1>4, AbortEffect
<1>5. CASE ~InTransaction(p) /\ Apply(writes) /\ Go(p, st)
  <2>1. Patches(writes) => ~Patches(st.writes)
    <3>1. ASSUME Patches(writes) PROVE st.writes = {}
      <4>1. command[p].type \in Editing /\ proc[p].pc \in {"edit", "patch"}
        BY <3>1 DEF Patches, Request
      <4>2. ~command[p].tx
        BY <1>5, <4>1, ProcFacts, UseAssumption DEF InTransaction, Editing
      <4> QED BY <4>2 DEF Ready
    <3> QED BY <3>1 DEF Patches
  <2>2. Sends(p, st, writes)
    BY <1>3, <1>5, <2>1 DEF Sends
  <2>3. StepEffect(p, st)
    BY <1>5, <2>2 DEF StepEffect
  <2> QED BY <2>3
<1> QED BY <1>1, <1>2, <1>4, <1>5 DEF Send

(* The steps of walk() and create_at_path() keep the argument and the      *)
(* requests.                                                               *)
WalkSteps == {"look", "get", "act", "delete", "check", "put"}
Walked(p, st) ==
  /\ st \in States /\ st.pc \in WalkSteps \cup {"leave"}
  /\ st.left = proc[p].left /\ st.writes = proc[p].writes /\ st.read = proc[p].read

LEMMA WalkedOn ==
  ASSUME Core, NEW p \in Procs, Ready(p, proc[p]), proc[p].pc \in WalkSteps,
         NEW st, Walked(p, st)
  PROVE  Ready(p, st) /\ Onward(p, st)
<1>1. command[p].type \in Walking
  BY DEF Ready, WalkSteps
<1>2. \A w \in proc[p].writes : Request(p, st, w)
  BY <1>1 DEF Ready, Request, Walking, Editing, Walked, Target
<1>3. Ready(p, st)
  BY <1>1, <1>2 DEF Ready, Walking, LeftOf, WholeEdit, Walked, WalkSteps
<1>4. Onward(p, st)
  BY <1>1 DEF Onward, Walking, Editing, Walked, WalkSteps
<1> QED BY <1>3, <1>4

LEMMA WalkEffect ==
  ASSUME Core, NEW p \in Procs, Ready(p, proc[p]), proc[p].pc \in WalkSteps,
         NEW st, Walked(p, st), Go(p, st), SameEdits, UNCHANGED command
  PROVE  \E s : StepEffect(p, s)
<1>1. StepEffect(p, st)
  BY WalkedOn DEF StepEffect, Walked
<1> QED BY <1>1

LEMMA WalkAbort ==
  ASSUME Core, NEW p \in Procs, Ready(p, proc[p]), proc[p].pc \in WalkSteps,
         Abort(p), SameEdits, UNCHANGED command
  PROVE  \E s : StepEffect(p, s)
BY AbortEffect DEF WalkSteps

LEMMA WalkAsks ==
  ASSUME Core, NEW p \in Procs, Ready(p, proc[p]), proc[p].pc \in WalkSteps,
         NEW st, Walked(p, st), Ask(p, st), UNCHANGED command
  PROVE  \E s : StepEffect(p, s)
BY WalkEffect, WalkAbort, QuietEdits DEF Ask

LEMMA WalkProbes ==
  ASSUME Core, NEW p \in Procs, Ready(p, proc[p]), proc[p].pc \in WalkSteps,
         NEW x, NEW found, NEW missing, Walked(p, found), Walked(p, missing),
         Probe(p, x, found, missing), UNCHANGED command
  PROVE  \E s : StepEffect(p, s)
BY WalkEffect, WalkAbort, QuietEdits DEF Probe

LEMMA WalkStates ==
  ASSUME Core, NEW p \in Procs, proc[p].pc \in WalkSteps \ {"put"}
  PROVE  /\ Walked(p, To(p, "get")) /\ Walked(p, To(p, "act")) /\ Walked(p, To(p, "delete"))
         /\ Walked(p, To(p, "leave")) /\ Walked(p, Skip(p)) /\ Walked(p, Descend(p))
         /\ Walked(p, [To(p, "leave") EXCEPT !.stack = <<>>])
<1>1. proc[p] \in States /\ proc[p].pc \in StackSteps
  BY ProcFacts DEF WalkSteps, StackSteps
<1>2. Skip(p) \in States /\ Descend(p) \in States
  BY <1>1, WalkFit DEF Fit
<1>3. Walked(p, Skip(p))
  BY <1>1, <1>2 DEF Walked, Skip, States, WalkSteps
<1>4. Walked(p, Descend(p))
  <2> DEFINE rest == (IF command[p].recursive THEN Members[Here(p)] ELSE <<>>) \o Tail(proc[p].stack)
             next == IF rest = <<>> THEN "leave" ELSE "look"
  <2>1. Descend(p) = [proc[p] EXCEPT !.stack = rest, !.pc = next] /\ next \in {"leave", "look"}
    BY DEF Descend
  <2> HIDE DEF rest, next
  <2> QED BY <1>1, <1>2, <2>1 DEF Walked, States, WalkSteps
<1>5. \A pc \in {"get", "act", "delete", "leave"} : Walked(p, To(p, pc))
  BY <1>1 DEF Walked, To, States, Steps, WalkSteps
<1>6. Walked(p, [To(p, "leave") EXCEPT !.stack = <<>>])
  <2> DEFINE st == [To(p, "leave") EXCEPT !.stack = <<>>]
  <2>1. st \in States
    BY <1>1, ShortSequences DEF To, States, Steps
  <2>2. /\ st.pc = "leave" /\ st.left = proc[p].left /\ st.writes = proc[p].writes
        /\ st.read = proc[p].read
    BY <1>1 DEF To, States
  <2> HIDE DEF st
  <2> QED BY <2>1, <2>2 DEF Walked, st
<1> QED BY <1>3, <1>4, <1>5, <1>6

LEMMA WalkStepEffect ==
  ASSUME Core, NEW p \in Procs, Ready(p, proc[p]), Walk(p) PROVE \E s : StepEffect(p, s)
<1>1. CASE Look(p)
  <2>1. proc[p].pc \in WalkSteps \ {"put"} /\ UNCHANGED command
    BY <1>1 DEF Look, WalkSteps
  <2> QED BY <1>1, <2>1, WalkStates, WalkAsks, WalkProbes DEF Look
<1>2. CASE Get(p)
  <2>1. proc[p].pc \in WalkSteps \ {"put"} /\ UNCHANGED command
    BY <1>2 DEF Get, WalkSteps
  <2> QED BY <1>2, <2>1, WalkStates, WalkAsks, WalkAbort, WalkEffect, QuietEdits DEF Get
<1>3. CASE SendMessage(p) \/ DryRun(p)
  <2>1. /\ proc[p].pc \in WalkSteps \ {"put"} /\ UNCHANGED <<command, repo, stubs>>
        /\ Go(p, Descend(p))
    BY <1>3 DEF SendMessage, DryRun, Is, WalkSteps
  <2> QED BY <2>1, WalkStates, WalkEffect, QuietEdits
<1>4. CASE Delete(p)
  <2>1. /\ proc[p].pc \in WalkSteps \ {"put"} /\ UNCHANGED command
        /\ Probe(p, Here(p), To(p, "delete"), Descend(p))
    BY <1>4 DEF Delete, Is, WalkSteps
  <2> QED BY <2>1, WalkStates, WalkProbes
<1>5. CASE SendDelete(p)
  <2> DEFINE writes == {[op |-> "delete", path |-> Here(p)]}
  <2>1. /\ proc[p].pc = "delete" /\ UNCHANGED command /\ command[p].type = "delete"
        /\ \/ Send(p, writes, Descend(p))
           \/ Abort(p) /\ UNCHANGED <<repo, stubs>>
    BY <1>5 DEF SendDelete, Is
  <2>2. proc[p].pc \in WalkSteps \ {"put"} /\ Walked(p, Descend(p)) /\ Here(p) \in Paths
        /\ proc[p].left # <<>>
    BY <2>1, WalkStates, HereFacts, ProcFacts DEF WalkSteps, StackSteps, Sane
  <2>3. /\ writes \in SUBSET Writes /\ ~Patches(writes)
        /\ \A st : \A w \in writes : Request(p, st, w)
    BY <2>1, <2>2 DEF Writes, Patches, Request
  <2>4. /\ Ready(p, Descend(p)) /\ Onward(p, Descend(p)) /\ Descend(p) \in States
        /\ Descend(p).left = proc[p].left /\ Descend(p).read = proc[p].read
        /\ Descend(p).writes = proc[p].writes /\ Descend(p).pc \in WalkSteps \cup {"leave"}
    BY <2>2, WalkedOn DEF Walked
  <2>5. InTransaction(p) => Ready(p, [Descend(p) EXCEPT !.writes = @ \cup writes])
    <3> DEFINE st == Descend(p)
               more == [st EXCEPT !.writes = @ \cup writes]
    <3> HIDE DEF writes, st
    <3>1. /\ more.pc = st.pc /\ more.left = st.left /\ more.writes = st.writes \cup writes
          /\ more.stack = st.stack /\ more.count = st.count
      BY <2>4 DEF States, st
    <3> HIDE DEF more
    <3>2. \A w \in more.writes : Request(p, more, w)
      <4>1. \A w \in st.writes : Request(p, st, w)
        BY <2>4 DEF Ready, st
      <4> QED BY <2>1, <2>3, <3>1, <4>1 DEF Request, Editing
    <3>3. InTransaction(p) => Ready(p, more)
      BY <2>1, <2>4, <3>1, <3>2 DEF Ready, LeftOf, WholeEdit, InTransaction, WalkSteps, Target, st
    <3> QED BY <3>3 DEF st, more
  <2> HIDE DEF writes
  <2>6. CASE Send(p, writes, Descend(p))
    BY <2>1, <2>2, <2>3, <2>4, <2>5, <2>6, SendEffect
  <2>7. CASE Abort(p) /\ UNCHANGED <<repo, stubs>>
    BY <2>1, <2>2, <2>7, WalkAbort, QuietEdits
  <2> QED BY <2>1, <2>6, <2>7
<1> QED BY <1>1, <1>2, <1>3, <1>4, <1>5 DEF Walk

LEMMA CheckEffect ==
  ASSUME Core, NEW p \in Procs, Ready(p, proc[p]), Check(p) PROVE \E s : StepEffect(p, s)
<1> DEFINE rest == Tail(proc[p].stack)
           next == IF rest = <<>> THEN "put" ELSE "check"
           goal == IF Here(p) = Head(proc[p].left) THEN "leave" ELSE next
           later == <<Here(p)>> \o proc[p].todo
           found == [proc[p] EXCEPT !.stack = rest, !.pc = goal]
           missing == [proc[p] EXCEPT !.stack = rest, !.pc = next, !.todo = later]
<1>1. proc[p].pc = "check" /\ UNCHANGED command /\ Probe(p, Here(p), found, missing)
  BY DEF Check
<1>2. proc[p].pc \in StackSteps /\ proc[p].pc \in WalkSteps /\ proc[p] \in States
  BY <1>1, ProcFacts DEF StackSteps, WalkSteps
<1>3. rest \in Seq(Paths) /\ later \in Seq(Paths)
  BY <1>2, HereFacts, PutInFront DEF States
<1>4. next \in {"put", "check"} /\ goal \in {"leave", "put", "check"}
  OBVIOUS
<1> HIDE DEF rest, next, goal, later
<1>5. found \in States /\ missing \in States
  BY <1>2, <1>3, <1>4 DEF States, Steps
<1>6. Walked(p, found) /\ Walked(p, missing)
  BY <1>2, <1>4, <1>5 DEF Walked, States, WalkSteps
<1> QED BY <1>1, <1>2, <1>6, WalkProbes

LEMMA PutEffect ==
  ASSUME Core, NEW p \in Procs, Ready(p, proc[p]), Put(p) PROVE \E s : StepEffect(p, s)
<1> DEFINE x == Head(proc[p].todo)
           created == repo' = [repo EXCEPT ![x].status = "live"] /\ UNCHANGED stubs
           rest == Tail(proc[p].todo)
           st == [proc[p] EXCEPT !.todo = rest]
<1>1. /\ proc[p].pc = "put" /\ UNCHANGED command /\ proc[p] \in States
      /\ \/ UNCHANGED <<repo, stubs>> /\ (Go(p, To(p, "leave")) \/ Abort(p))
         \/ proc[p].todo # <<>> /\ created /\ (Go(p, st) \/ Abort(p))
         \/ UNCHANGED <<repo, stubs>> /\ Abort(p)
  BY ProcFacts DEF Put
<1>2. created => SameEdits
  BY DEF SameEdits, Core, RepoTypes, Resources
<1>3. Walked(p, To(p, "leave")) /\ proc[p].pc \in WalkSteps
  BY <1>1 DEF Walked, To, States, Steps, WalkSteps
<1>4. ASSUME proc[p].todo # <<>> PROVE Walked(p, st)
  <2>1. rest \in Seq(Paths)
    BY <1>1, <1>4, HeadAndTail DEF States
  <2> HIDE DEF rest
  <2> QED BY <1>1, <2>1 DEF Walked, States, WalkSteps
<1> QED BY <1>1, <1>2, <1>3, <1>4, WalkEffect, WalkAbort, QuietEdits

LEMMA EnterEffect ==
  ASSUME Core, NEW p \in Procs, Ready(p, proc[p]), Enter(p) PROVE \E s : StepEffect(p, s)
<1> DEFINE st == FirstStep(p)
<1>1. /\ proc[p].pc = "next" /\ proc[p].left # <<>> /\ Ask(p, st) /\ UNCHANGED command
      /\ proc[p] \in States /\ command[p].type \in CommandTypes
  BY ProcFacts DEF Enter
<1>2. st \in States
  BY <1>1, FirstStepFits
<1>3. /\ st.left = proc[p].left /\ st.writes = proc[p].writes
      /\ st.pc \in {"look", "check"} => command[p].type \in Walking
      /\ st.pc \in {"look", "check", "stub", "read"}
      /\ st.pc = "read" => Head(st.stack) = Head(st.left)
  <2>1. CASE command[p].type \in {"delete", "reindex"}
    BY <1>1, <2>1 DEF FirstStep, States, Walking
  <2>2. CASE command[p].type = "create"
    BY <1>1, <2>2 DEF FirstStep, States, Walking
  <2>3. CASE command[p].type = "stub"
    BY <1>1, <2>3 DEF FirstStep, States, To
  <2>4. CASE command[p].type \in {"set", "replace", "annotate", "web", "web_model"}
    BY <1>1, <2>4 DEF FirstStep, States
  <2> QED BY <1>1, <2>1, <2>2, <2>3, <2>4 DEF CommandTypes
<1> HIDE DEF st
<1>4. st.writes = {}
  BY <1>1, <1>3 DEF Ready
<1>5. Ready(p, st)
  BY <1>1, <1>3, <1>4 DEF Ready, LeftOf, Target
<1>6. Onward(p, st)
  BY <1>1, <1>3 DEF Onward
<1> QED BY <1>1, <1>2, <1>5, <1>6, AskEffect

LEMMA FinishEffect ==
  ASSUME Core, NEW p \in Procs, Ready(p, proc[p]), Finish(p) PROVE \E s : StepEffect(p, s)
<1> DEFINE st == To(p, "done")
<1>1. /\ proc[p].pc = "next" /\ Go(p, st) /\ UNCHANGED command /\ SameEdits
      /\ proc[p] \in States
  BY ProcFacts, QuietEdits DEF Finish
<1>2. /\ st \in States /\ st.pc = "done" /\ st.left = proc[p].left /\ st.writes = proc[p].writes
  BY <1>1 DEF To, States, Steps
<1> HIDE DEF st
<1>3. Ready(p, st)
  BY <1>1, <1>2 DEF Ready, LeftOf
<1>4. Onward(p, st)
  BY <1>1, <1>2 DEF Onward
<1>5. StepEffect(p, st)
  BY <1>1, <1>2, <1>3, <1>4 DEF StepEffect
<1> QED BY <1>5

LEMMA LeaveEffect ==
  ASSUME Core, NEW p \in Procs, Ready(p, proc[p]), Leave(p) PROVE \E s : StepEffect(p, s)
<1> DEFINE st == NextArgument(p)  writes == proc[p].writes
<1>1. /\ proc[p].pc = "leave" /\ UNCHANGED command /\ proc[p] \in States
      /\ Sane(proc[p], command[p]) /\ proc[p].left # <<>> /\ writes \in SUBSET Writes
      /\ \/ Apply(writes) /\ Go(p, st)
         \/ Abort(p) /\ (Apply(writes) \/ UNCHANGED <<repo, stubs>>)
  BY ProcFacts DEF Leave, Sane, States
<1>2. /\ \A w \in writes : Request(p, proc[p], w)
      /\ WholeEdit(p, proc[p], writes)
  BY <1>1 DEF Ready
<1>3. CASE Apply(writes) /\ Go(p, st)
  <2>1. st \in States /\ st.pc = "next" /\ st.left = Tail(proc[p].left) /\ st.writes = {}
        /\ st.read = proc[p].read
    <3>1. Fit(p, st)
      BY <1>1, LeaveFit
    <3> QED BY <1>1, <3>1 DEF Fit, NextArgument, States
  <2>2. /\ \A k \in DOMAIN st.left : k + 1 \in DOMAIN proc[p].left
                                     /\ st.left[k] = proc[p].left[k + 1]
        /\ DOMAIN st.left \subseteq Nat
    <3>1. PICK S \in {Paths, StubRows} : proc[p].left \in Seq(S)
      BY <1>1 DEF States
    <3>2. Tail(proc[p].left) \in Seq(S)
      BY <1>1, <3>1, HeadAndTail
    <3>3. \A k \in DOMAIN Tail(proc[p].left) : k + 1 \in DOMAIN proc[p].left
                                           /\ Tail(proc[p].left)[k] = proc[p].left[k + 1]
      BY <1>1, <3>1, HeadAndTail
    <3>4. DOMAIN Tail(proc[p].left) \subseteq Nat
      BY <3>2
    <3> QED BY <2>1, <3>3, <3>4
  <2> HIDE DEF st, writes
  <2>3. LeftOf(p, st)
    <3>1. \A x : Once(proc[p].left, x) => Once(st.left, x)
      BY <2>2 DEF Once
    <3> QED BY <2>2, <3>1 DEF LeftOf, Ready
  <2>4. Ready(p, st)
    BY <2>1, <2>3 DEF Ready
  <2>5. Onward(p, st)
    BY <1>1, <2>1 DEF Onward
  <2>6. Sends(p, st, writes)
    BY <1>1, <1>2, <2>1 DEF Sends, writes
  <2>7. StepEffect(p, st)
    BY <1>1, <1>3, <2>1, <2>4, <2>5, <2>6 DEF StepEffect
  <2> QED BY <2>7
<1>4. CASE Abort(p) /\ (Apply(writes) \/ UNCHANGED <<repo, stubs>>)
  BY <1>1, <1>2, <1>4, AbortEffect, QuietEdits
<1> QED BY <1>1, <1>3, <1>4

-----------------------------------------------------------------------------
(* The steps that read and edit. *)

LEMMA EditStates ==
  ASSUME Core, NEW p \in Procs, NEW pc \in Steps
  PROVE  LET st == To(p, pc) IN
         /\ st \in States /\ st.pc = pc /\ st.left = proc[p].left /\ st.writes = proc[p].writes
         /\ st.read = proc[p].read /\ st.stack = proc[p].stack /\ st.count = proc[p].count
BY ProcFacts DEF To, States

LEMMA ReadEffect ==
  ASSUME Core, NEW p \in Procs, Ready(p, proc[p]), Read(p) PROVE \E s : StepEffect(p, s)
<1> DEFINE x == Here(p)
           next == CASE command[p].type = "set" -> "patch"
                     [] command[p].type \in {"web", "web_model"} -> "edit"
                     [] command[p].type = "replace" -> "binary"
                     [] command[p].type = "annotate" ->
                          IF HtmlFiles[x] = 0 THEN "leave" ELSE "annotate"
           st == [proc[p] EXCEPT !.pc = next, !.read = repo[x].titles, !.count = 0]
<1>1. /\ proc[p].pc = "read" /\ UNCHANGED command
      /\ IF Live(p, x) THEN Ask(p, st) ELSE Abort(p) /\ UNCHANGED <<repo, stubs, faults>>
  BY DEF Read
<1>2. /\ proc[p] \in States /\ Sane(proc[p], command[p]) /\ x \in Paths /\ x = Target(proc[p])
      /\ proc[p].stack # <<>> /\ proc[p].left # <<>> /\ proc[p].writes = {}
      /\ Head(proc[p].stack) = x
  BY <1>1, ProcFacts, HereFacts DEF Sane, StackSteps, Ready, Here
<1>3. repo[x].titles \subseteq Values
  BY <1>2 DEF Core, RepoTypes, Resources
<1>4. /\ next \in {"patch", "edit", "binary", "leave", "annotate"}
      /\ next = "patch" => command[p].type = "set"
      /\ next = "edit" => command[p].type \in {"web", "web_model"}
      /\ next = "binary" => command[p].type = "replace"
      /\ next \in {"leave", "annotate"} => command[p].type = "annotate"
      /\ next = "leave" => HtmlFiles[x] = 0
  BY <1>1, <1>2 DEF Sane
<1> HIDE DEF next, x
<1>5. /\ st \in States /\ st.pc = next /\ st.left = proc[p].left /\ st.writes = {}
      /\ st.stack = proc[p].stack /\ st.read = repo[x].titles /\ st.count = 0
  BY <1>2, <1>3, <1>4 DEF States, Steps
<1> HIDE DEF st
<1>6. Numbers(p, {}) = {} /\ 1..0 = {} /\ 1..(0 - 1) = {}
  BY DEF Numbers
<1>7. Ready(p, st)
  <2>1. LeftOf(p, st)
    BY <1>5 DEF Ready, LeftOf
  <2>2. Head(st.stack) = Target(st) /\ Target(st) = x
    BY <1>2, <1>5 DEF Target
  <2>3. next = "leave" => WholeEdit(p, st, st.writes)
    BY <1>4, <1>5, <1>6, <2>2 DEF WholeEdit
  <2> QED BY <1>4, <1>5, <1>6, <2>1, <2>2, <2>3 DEF Ready
<1>8. Onward(p, st) \/ ~SameEdits
  BY <1>1, <1>2, <1>5 DEF Onward, Target
<1>9. CASE Ask(p, st)
  BY <1>1, <1>5, <1>7, <1>8, <1>9, AskEffect, QuietEdits DEF Ask
<1>10. CASE Abort(p) /\ UNCHANGED <<repo, stubs, faults>>
  BY <1>1, <1>10, AbortEffect, QuietEdits
<1> QED BY <1>1, <1>9, <1>10

(* A request of the argument at hand stays one.                            *)
LEMMA RequestKept ==
  ASSUME NEW p \in Procs, NEW st, NEW w, Request(p, proc[p], w),
         st.left = proc[p].left, st.read = proc[p].read, st.pc \in {"patch", "leave"}
  PROVE  Request(p, st, w)
BY DEF Request, Target

LEMMA EditFacts ==
  ASSUME Core, NEW p \in Procs, Ready(p, proc[p]),
         proc[p].pc \in {"edit", "binary", "patch", "annotate", "container"}
  PROVE  /\ proc[p].left # <<>> /\ Here(p) = Target(proc[p]) /\ Here(p) \in Paths
         /\ proc[p] \in States /\ command[p].type \in {"set", "replace", "annotate", "web", "web_model"}
         /\ ~InTransaction(p) => command[p].type # "replace"
                                 /\ ~(command[p].type = "annotate" /\ command[p].tx)
         /\ proc[p].pc \notin {"leave", "done", "aborted"}
<1>1. proc[p].pc \in StackSteps
  BY DEF StackSteps
<1> QED BY <1>1, ProcFacts, HereFacts, UseAssumption DEF Ready, Here, Sane, InTransaction

LEMMA PutBinaryEffect ==
  ASSUME Core, NEW p \in Procs, Ready(p, proc[p]), PutBinary(p) PROVE \E s : StepEffect(p, s)
<1> DEFINE st == To(p, "patch")
           writes == {[op |-> "put", path |-> Here(p), value |-> command[p].value]}
           more == [st EXCEPT !.writes = @ \cup writes]
<1>1. /\ proc[p].pc = "binary" /\ command[p].type = "replace" /\ UNCHANGED command
      /\ Send(p, writes, st) \/ (Abort(p) /\ UNCHANGED <<repo, stubs>>)
  BY DEF PutBinary, Is
<1>2. /\ proc[p].left # <<>> /\ Here(p) = Target(proc[p]) /\ Here(p) \in Paths
      /\ InTransaction(p) /\ proc[p].writes = {} /\ Head(proc[p].stack) = Target(proc[p])
      /\ proc[p] \in States
  BY <1>1, EditFacts DEF Ready
<1>3. /\ st \in States /\ st.pc = "patch" /\ st.left = proc[p].left /\ st.writes = {}
      /\ st.read = proc[p].read /\ st.stack = proc[p].stack
  BY <1>2, EditStates DEF Steps
<1>4. /\ writes \in SUBSET Writes /\ ~Patches(writes) /\ Puts(writes)
      /\ \A w \in writes : /\ w.op = "put" /\ w.path = Target(proc[p])
                           /\ w.value = command[p].value
  BY <1>2, ProcFacts DEF Writes, Patches, Puts
<1> HIDE DEF st, writes
<1>5. /\ more.pc = "patch" /\ more.left = proc[p].left /\ more.writes = writes
      /\ more.read = proc[p].read /\ more.stack = proc[p].stack
  BY <1>3 DEF States
<1> HIDE DEF more
<1>6. \A w \in writes : Request(p, proc[p], w) /\ Request(p, more, w)
  BY <1>1, <1>4, <1>5 DEF Request, Target
<1>7. Ready(p, more)
  <2>1. LeftOf(p, more) /\ Head(more.stack) = Target(more)
    BY <1>2, <1>5 DEF LeftOf, Ready, Target
  <2>2. command[p].tx
    BY <1>2 DEF InTransaction
  <2> QED BY <1>1, <1>4, <1>5, <1>6, <2>1, <2>2 DEF Ready
<1>8. Onward(p, st)
  BY <1>1, <1>3 DEF Onward
<1>9. CASE Send(p, writes, st)
  BY <1>1, <1>2, <1>3, <1>4, <1>6, <1>7, <1>8, <1>9, SendEffect DEF more
<1>10. CASE Abort(p) /\ UNCHANGED <<repo, stubs>>
  BY <1>1, <1>10, AbortEffect, QuietEdits
<1> QED BY <1>1, <1>9, <1>10

(* The PATCH of set, replace and the web service, or none without change.  *)
LEMMA PatchEffects ==
  ASSUME Core, NEW p \in Procs, Ready(p, proc[p]), Patch(p) \/ PatchOverWeb(p)
  PROVE  \E s : StepEffect(p, s)
<1> DEFINE st == To(p, "leave")
           write == [op |-> "patch", path |-> Here(p), old |-> proc[p].read,
                     new |-> {command[p].value}]
           writes == {write}
           more == [st EXCEPT !.writes = @ \cup writes]
           accepted == command[p].type \in {"set", "web_model"} => command[p].value \notin Invalid
<1>1. /\ proc[p].pc \in {"edit", "patch"} /\ UNCHANGED command
      /\ \/ /\ Go(p, st) /\ UNCHANGED <<repo, stubs>>
            /\ command[p].type = "replace" => proc[p].read = {command[p].value}
         \/ Send(p, writes, st) /\ accepted /\ proc[p].read # {command[p].value}
         \/ Abort(p) /\ UNCHANGED <<repo, stubs>>
  <2>1. ASSUME Patch(p)
        PROVE  /\ proc[p].pc = "patch" /\ command[p].type \in {"set", "replace"}
               /\ UNCHANGED command
               /\ \/ /\ Go(p, st) /\ UNCHANGED <<repo, stubs>>
                     /\ command[p].type = "replace" => proc[p].read = {command[p].value}
                  \/ Send(p, writes, st) /\ accepted /\ proc[p].read # {command[p].value}
                  \/ Abort(p) /\ UNCHANGED <<repo, stubs>>
    <3>1. proc[p].pc = "patch" /\ command[p].type \in {"set", "replace"}
      BY <2>1 DEF Patch, Ready
    <3> QED BY <2>1, <3>1 DEF Patch
  <2>2. ASSUME PatchOverWeb(p)
        PROVE  /\ proc[p].pc = "edit" /\ command[p].type \in {"web", "web_model"}
               /\ UNCHANGED command
               /\ \/ Go(p, st) /\ UNCHANGED <<repo, stubs>>
                  \/ Send(p, writes, st) /\ accepted /\ proc[p].read # {command[p].value}
                  \/ Abort(p) /\ UNCHANGED <<repo, stubs>>
    <3>1. proc[p].pc = "edit" /\ command[p].type \in {"web", "web_model"}
      BY <2>2 DEF PatchOverWeb, Ready
    <3> QED BY <2>2, <3>1 DEF PatchOverWeb
  <2> QED BY <2>1, <2>2
<1>2. /\ proc[p].left # <<>> /\ Here(p) = Target(proc[p]) /\ Here(p) \in Paths
      /\ proc[p] \in States /\ command[p].type \in Editing
      /\ ~InTransaction(p) => command[p].type # "replace"
  BY <1>1, EditFacts DEF Ready, Editing
<1>3. /\ st \in States /\ st.pc = "leave" /\ st.left = proc[p].left /\ st.writes = proc[p].writes
      /\ st.read = proc[p].read
  BY EditStates DEF Steps
<1>4. writes \in SUBSET Writes /\ Patches(writes)
  BY <1>1, PatchWrites DEF Patches
<1>5. ASSUME accepted, proc[p].read # {command[p].value} PROVE Request(p, proc[p], write)
  BY <1>1, <1>2, <1>5 DEF Request
<1> HIDE DEF st, write, accepted
<1>6. /\ more.pc = "leave" /\ more.left = proc[p].left
      /\ more.writes = proc[p].writes \cup writes /\ more.read = proc[p].read
  BY <1>3 DEF States
<1> HIDE DEF more
<1>7. LeftOf(p, st) /\ LeftOf(p, more) /\ \A w \in proc[p].writes : Request(p, proc[p], w)
  BY <1>3, <1>6 DEF LeftOf, Ready
<1>8. Onward(p, st)
  BY <1>1, <1>3 DEF Onward
<1>9. (command[p].type = "replace" => Puts(proc[p].writes))
      /\ (proc[p].writes = {} \/ command[p].tx)
  BY <1>1, <1>2 DEF Ready, Editing
<1>10. ASSUME command[p].type = "replace" => proc[p].read = {command[p].value}
       PROVE  Ready(p, st)
  <2>1. WholeEdit(p, st, st.writes)
    BY <1>2, <1>3, <1>9, <1>10 DEF WholeEdit, Editing
  <2>2. \A w \in st.writes : Request(p, st, w)
    BY <1>3, <1>7, RequestKept
  <2> QED BY <1>2, <1>3, <1>7, <1>9, <2>1, <2>2 DEF Ready, Editing
<1>11. CASE Send(p, writes, st) /\ accepted /\ proc[p].read # {command[p].value}
  <2>1. \A w \in writes : Request(p, proc[p], w)
    BY <1>5, <1>11
  <2>2. ASSUME InTransaction(p) PROVE Ready(p, more)
    <3>1. WholeEdit(p, more, more.writes)
      BY <1>2, <1>4, <1>6, <1>9 DEF WholeEdit, Editing, Puts, Patches
    <3>2. \A w \in more.writes : Request(p, more, w)
      BY <1>6, <1>7, <2>1, RequestKept
    <3>3. command[p].tx
      BY <2>2 DEF InTransaction
    <3> QED BY <1>2, <1>6, <1>7, <3>1, <3>2, <3>3 DEF Ready, Editing
  <2>3. ~InTransaction(p) => Ready(p, st)
    BY <1>2, <1>10
  <2>4. ~(command[p].type = "annotate" /\ command[p].tx)
    BY <1>2 DEF Editing
  <2>5. proc[p].pc \notin {"leave", "done", "aborted"}
    BY <1>1
  <2> HIDE DEF writes
  <2>6. InTransaction(p) => Ready(p, [st EXCEPT !.writes = @ \cup writes])
    BY <2>2 DEF more
  <2> QED BY <1>1, <1>2, <1>3, <1>4, <1>8, <1>11, <2>1, <2>3, <2>4, <2>5, <2>6, SendEffect
<1>12. CASE /\ Go(p, st) /\ UNCHANGED <<repo, stubs>>
            /\ command[p].type = "replace" => proc[p].read = {command[p].value}
  <2>1. StepEffect(p, st)
    BY <1>1, <1>3, <1>8, <1>10, <1>12, QuietEdits DEF StepEffect
  <2> QED BY <2>1
<1>13. CASE Abort(p) /\ UNCHANGED <<repo, stubs>>
  BY <1>1, <1>13, AbortEffect, QuietEdits
<1> QED BY <1>1, <1>11, <1>12, <1>13

LEMMA NumberAdded ==
  ASSUME NEW p, NEW w, NEW writes, NEW k \in Nat, w.op = "annotate", w.id = <<p, k>>
  PROVE  Numbers(p, writes \cup {w}) = Numbers(p, writes) \cup ({k} \ {0})
<1>1. \A n : w.id = <<p, n>> <=> n = k
  OBVIOUS
<1> QED BY <1>1 DEF Numbers

(* An annotation that is sent and the state after it: one more is made.    *)
LEMMA AnnotationEffect ==
  ASSUME Core, NEW p \in Procs, Ready(p, proc[p]), command[p].type = "annotate",
         proc[p].pc \in {"annotate", "container"}, NEW st, NEW next \in {"annotate", "leave"},
         NEW c \in Nat, st = [proc[p] EXCEPT !.pc = next, !.count = c],
         c = proc[p].count + 1, SendAnnotation(p, st), UNCHANGED command,
         next = "leave" => proc[p].count = HtmlFiles[Target(proc[p])]
  PROVE  \E s : StepEffect(p, s)
<1> DEFINE k == proc[p].count
           write == [op |-> "annotate", path |-> Here(p), id |-> <<p, k>>]
           writes == {write}
           more == [st EXCEPT !.writes = @ \cup writes]
<1>1. /\ proc[p].left # <<>> /\ Here(p) = Target(proc[p]) /\ Here(p) \in Paths
      /\ proc[p] \in States /\ k \in Nat
      /\ ~InTransaction(p) => ~command[p].tx
      /\ Head(proc[p].stack) = Target(proc[p])
      /\ HtmlFiles[Target(proc[p])] \in Nat
  BY EditFacts, CommandAssumption DEF Ready, States
<1>2. Send(p, writes, st) \/ (Abort(p) /\ UNCHANGED <<repo, stubs>>)
  BY DEF SendAnnotation
<1>3. /\ st \in States /\ st.pc = next /\ st.left = proc[p].left /\ st.writes = proc[p].writes
      /\ st.read = proc[p].read /\ st.stack = proc[p].stack /\ st.count = c
  BY <1>1 DEF States, Steps
<1>4. writes \in SUBSET Writes /\ ~Patches(writes)
  BY <1>1 DEF Writes, Patches
<1>5. write.op = "annotate" /\ write.path = Target(proc[p]) /\ write.id = <<p, k>>
  BY <1>1
<1> HIDE DEF k, write, writes
<1>6. Numbers(p, proc[p].writes \cup writes) = Numbers(p, proc[p].writes) \cup ({k} \ {0})
  <2>1. k \in Nat /\ write.op = "annotate" /\ write.id = <<p, k>>
    BY <1>1, <1>5
  <2>2. Numbers(p, proc[p].writes \cup {write}) = Numbers(p, proc[p].writes) \cup ({k} \ {0})
    BY <2>1, NumberAdded
  <2> QED BY <2>2 DEF writes
<1>7. command[p].tx => Numbers(p, proc[p].writes \cup writes) = 1..k
  <2>1. CASE proc[p].pc = "annotate" /\ command[p].tx
    <3>1. Numbers(p, proc[p].writes) = 1..(k - 1)
      BY <2>1 DEF Ready, k
    <3>2. k \in Nat => 1..(k - 1) \cup ({k} \ {0}) = 1..k
      OBVIOUS
    <3> QED BY <1>1, <1>6, <3>1, <3>2
  <2>2. CASE proc[p].pc = "container" /\ command[p].tx
    <3>1. Numbers(p, proc[p].writes) = {} /\ k = 0
      BY <2>2 DEF Ready, k
    <3>2. {} \cup ({0} \ {0}) = 1..0
      OBVIOUS
    <3> QED BY <1>6, <3>1, <3>2
  <2> QED BY <2>1, <2>2
<1>8. /\ more.pc = next /\ more.left = proc[p].left /\ more.writes = proc[p].writes \cup writes
      /\ more.read = proc[p].read /\ more.stack = proc[p].stack /\ more.count = c
  BY <1>3 DEF States
<1> HIDE DEF more
<1>9. /\ Request(p, proc[p], write) /\ Request(p, more, write)
      /\ \A w \in proc[p].writes : Request(p, st, w) /\ Request(p, more, w)
  <2>1. \A w \in proc[p].writes : Request(p, proc[p], w)
    BY DEF Ready
  <2> QED BY <1>1, <1>3, <1>5, <1>8, <2>1 DEF Request, Target, Editing
<1>10. LeftOf(p, st) /\ LeftOf(p, more)
  BY <1>3, <1>8 DEF LeftOf, Ready
<1>11. k = c - 1 /\ c = k + 1 /\ Target(st) = Target(proc[p]) /\ Target(more) = Target(proc[p])
  BY <1>1, <1>3, <1>8 DEF Target, k
<1>12. ASSUME ~command[p].tx PROVE Ready(p, st)
  BY <1>1, <1>3, <1>9, <1>10, <1>11, <1>12 DEF Ready, WholeEdit
<1>13. ASSUME command[p].tx PROVE Ready(p, more)
  <2>1. next = "leave" => WholeEdit(p, more, more.writes)
    BY <1>7, <1>8, <1>11 DEF WholeEdit, k
  <2>2. \A w \in more.writes : Request(p, more, w)
    BY <1>8, <1>9 DEF writes
  <2> QED BY <1>1, <1>7, <1>8, <1>10, <1>11, <1>13, <2>1, <2>2 DEF Ready
<1>14. Onward(p, st)
  BY <1>1, <1>3 DEF Onward, Editing
<1>15. CASE Send(p, writes, st)
  <2>1. InTransaction(p) => Ready(p, [st EXCEPT !.writes = @ \cup writes])
    BY <1>13 DEF more, InTransaction
  <2>2. \A w \in writes : Request(p, proc[p], w)
    BY <1>9 DEF writes
  <2>3. proc[p].pc \notin {"leave", "done", "aborted"}
    OBVIOUS
  <2>4. ~InTransaction(p) => /\ Ready(p, st) /\ command[p].type # "replace"
                             /\ ~(command[p].type = "annotate" /\ command[p].tx)
    BY <1>1, <1>12
  <2> QED BY <1>1, <1>3, <1>4, <1>14, <1>15, <2>1, <2>2, <2>3, <2>4, SendEffect
<1>16. CASE Abort(p) /\ UNCHANGED <<repo, stubs>>
  BY <1>16, AbortEffect, QuietEdits
<1> QED BY <1>2, <1>15, <1>16

LEMMA AnnotateEffect ==
  ASSUME Core, NEW p \in Procs, Ready(p, proc[p]), Annotate(p) PROVE \E s : StepEffect(p, s)
<1> DEFINE k == proc[p].count
           last == k = HtmlFiles[Here(p)]
           next == IF last THEN "leave" ELSE "annotate"
           found == [proc[p] EXCEPT !.count = 1]
           c == k + 1
           st == [proc[p] EXCEPT !.pc = next, !.count = c]
<1>1. /\ proc[p].pc = "annotate" /\ command[p].type = "annotate" /\ UNCHANGED command
      /\ proc[p] \in States /\ k \in Nat /\ Here(p) = Target(proc[p])
  BY EditFacts DEF Annotate, Is, States
<1>2. [proc[p] EXCEPT !.count = k + 1, !.pc = IF last THEN "leave" ELSE @] = st
  BY <1>1 DEF States
<1>3. \/ k = 0 /\ (Ask(p, found) \/ Ask(p, To(p, "container")))
      \/ k # 0 /\ SendAnnotation(p, st)
  BY <1>2 DEF Annotate
<1>4. CASE k # 0 /\ SendAnnotation(p, st)
  <2>1. next \in {"annotate", "leave"} /\ c \in Nat /\ c = proc[p].count + 1
        /\ (next = "leave" => k = HtmlFiles[Target(proc[p])])
    BY <1>1
  <2> HIDE DEF next, c
  <2> QED BY <1>1, <1>4, <2>1, AnnotationEffect
<1>5. CASE k = 0 /\ (Ask(p, found) \/ Ask(p, To(p, "container")))
  <2>1. ASSUME NEW s \in States, Ask(p, s), s.pc \in {"annotate", "container"},
               s.left = proc[p].left, s.writes = proc[p].writes, s.read = proc[p].read,
               s.stack = proc[p].stack, s.count = IF s.pc = "container" THEN 0 ELSE 1
        PROVE  \E r : StepEffect(p, r)
    <3>1. 1..(0 - 1) = {} /\ 1..(1 - 1) = {}
      OBVIOUS
    <3>2. \A w \in proc[p].writes : Request(p, s, w)
      <4>1. \A w \in proc[p].writes : Request(p, proc[p], w)
        BY DEF Ready
      <4> QED BY <1>1, <2>1, <4>1 DEF Request, Target, Editing
    <3>3. Ready(p, s)
      BY <1>1, <1>5, <2>1, <3>1, <3>2 DEF Ready, LeftOf, Target
    <3>4. Onward(p, s)
      BY <1>1, <2>1 DEF Onward, Editing
    <3> QED BY <1>1, <2>1, <3>3, <3>4, AskEffect
  <2>2. /\ found \in States /\ found.pc = "annotate" /\ found.left = proc[p].left
        /\ found.writes = proc[p].writes /\ found.read = proc[p].read
        /\ found.stack = proc[p].stack /\ found.count = 1
    BY <1>1 DEF States
  <2> HIDE DEF found
  <2>3. CASE Ask(p, found)
    BY <2>1, <2>2, <2>3
  <2>4. CASE Ask(p, To(p, "container"))
    <3> DEFINE s == To(p, "container")
    <3>1. /\ s \in States /\ s.pc = "container" /\ s.left = proc[p].left
          /\ s.writes = proc[p].writes /\ s.read = proc[p].read
          /\ s.stack = proc[p].stack /\ s.count = 0
      BY <1>5, EditStates DEF Steps
    <3> HIDE DEF s
    <3> QED BY <2>1, <2>4, <3>1 DEF s
  <2> QED BY <1>5, <2>3, <2>4
<1> QED BY <1>3, <1>4, <1>5

LEMMA PutAnnotationsEffect ==
  ASSUME Core, NEW p \in Procs, Ready(p, proc[p]), PutAnnotations(p) PROVE \E s : StepEffect(p, s)
<1>1. /\ proc[p].pc = "container" /\ command[p].type = "annotate" /\ UNCHANGED command
      /\ proc[p] \in States /\ proc[p].count = 0
      /\ SendAnnotation(p, [To(p, "annotate") EXCEPT !.count = 1])
  BY ProcFacts DEF PutAnnotations, Is, Ready
<1>2. [To(p, "annotate") EXCEPT !.count = 1] = [proc[p] EXCEPT !.pc = "annotate", !.count = 1]
  BY <1>1 DEF To, States
<1>3. 1 = proc[p].count + 1 /\ 1 \in Nat
  BY <1>1
<1> QED BY <1>1, <1>2, <1>3, AnnotationEffect

LEMMA StubEffect ==
  ASSUME Core, NEW p \in Procs, Ready(p, proc[p]), StubPart(p) \/ WriteRow(p)
  PROVE  \E s : StepEffect(p, s)
<1> DEFINE r == Head(proc[p].left)
           k == proc[p].count
           c == k + 1
           writes == {[op |-> "stub", row |-> r, part |-> PartOrder[k]]}
           st == [proc[p] EXCEPT !.count = c]
<1>1. /\ proc[p].pc = "stub" /\ UNCHANGED command
      /\ proc[p] \in States /\ Sane(proc[p], command[p])
      /\ \/ k <= 5 /\ Send(p, writes, st)
         \/ Go(p, To(p, "leave")) /\ UNCHANGED <<repo, stubs>>
         \/ Abort(p) /\ UNCHANGED <<repo, stubs>>
  BY ProcFacts DEF StubPart, WriteRow, Is
<1>2. /\ command[p].type = "stub" /\ k \in Nat \ {0} /\ proc[p].left # <<>>
      /\ proc[p].left \in Seq(StubRows)
  BY <1>1 DEF Sane, States
<1>3. r \in StubRows /\ r = Target(proc[p])
  BY <1>2, HeadAndTail DEF Target
<1> DEFINE fits(s) == /\ s \in States /\ s.pc \in {"stub", "leave"} /\ s.left = proc[p].left
                      /\ s.read = proc[p].read
<1>4. ASSUME NEW s, fits(s), \A w \in s.writes : Request(p, proc[p], w),
             ~command[p].tx => s.writes = {}
      PROVE  Ready(p, s) /\ Onward(p, s)
  <2>1. \A w \in s.writes : Request(p, s, w)
    BY <1>2, <1>4 DEF Request, Target, Editing
  <2> QED BY <1>1, <1>2, <1>4, <2>1 DEF Ready, Onward, Editing, WholeEdit, LeftOf
<1>5. (\A w \in proc[p].writes : Request(p, proc[p], w)) /\ (~command[p].tx => proc[p].writes = {})
  BY DEF Ready
<1>6. CASE k <= 5 /\ Send(p, writes, st)
  <2>1. PartOrder[k] \in Parts
    <3>1. k \in 1..5
      BY <1>2, <1>6
    <3> QED BY <3>1 DEF PartOrder, Parts
  <2>2. /\ writes \in SUBSET Writes /\ ~Patches(writes)
        /\ \A w \in writes : Request(p, proc[p], w)
    BY <1>2, <1>3, <2>1 DEF Writes, Patches, Request
  <2>3. c \in Nat
    BY <1>2
  <2> HIDE DEF c, writes
  <2>4. fits(st) /\ st.writes = proc[p].writes
    BY <1>1, <2>3 DEF States
  <2>5. fits([st EXCEPT !.writes = @ \cup writes])
        /\ [st EXCEPT !.writes = @ \cup writes].writes = proc[p].writes \cup writes
    BY <1>1, <2>2, <2>4 DEF States
  <2>6. InTransaction(p) => Ready(p, [st EXCEPT !.writes = @ \cup writes])
    BY <1>4, <1>5, <2>2, <2>5 DEF InTransaction
  <2>7. Ready(p, st) /\ Onward(p, st)
    BY <1>4, <1>5, <2>4
  <2>8. proc[p].pc \notin {"leave", "done", "aborted"}
    BY <1>1
  <2> HIDE DEF st
  <2> QED BY <1>1, <1>2, <1>6, <2>2, <2>4, <2>6, <2>7, <2>8, SendEffect
<1>7. CASE Go(p, To(p, "leave")) /\ UNCHANGED <<repo, stubs>>
  <2>1. fits(To(p, "leave")) /\ To(p, "leave").writes = proc[p].writes
    BY EditStates DEF Steps
  <2>2. StepEffect(p, To(p, "leave"))
    BY <1>1, <1>4, <1>5, <1>7, <2>1, QuietEdits DEF StepEffect
  <2> QED BY <2>2
<1>8. CASE Abort(p) /\ UNCHANGED <<repo, stubs>>
  BY <1>1, <1>8, AbortEffect, QuietEdits
<1> QED BY <1>1, <1>6, <1>7, <1>8

(* The effect of a step, and what the processes keep.                      *)
LEMMA StepEdits ==
  ASSUME Core, AllReady, NEW p \in Procs, Step(p) PROVE \E s : StepEffect(p, s)
<1>1. Ready(p, proc[p])
  BY DEF AllReady
<1> QED
  BY <1>1, EnterEffect, FinishEffect, LeaveEffect, WalkStepEffect, CheckEffect, PutEffect,
     ReadEffect, PutBinaryEffect, PatchEffects, AnnotateEffect, PutAnnotationsEffect, StubEffect
     DEF Step

LEMMA ReadyStep ==
  ASSUME Core, AllReady, NEW p \in Procs, NEW st, StepEffect(p, st) PROVE AllReady'
<1>1. /\ \A q \in Procs : proc'[q] = IF q = p THEN st ELSE proc[q]
      /\ command' = command /\ Ready(p, st)
  BY DEF StepEffect, Go, Core, ProcTypes
<1>2. \A q \in Procs : Ready(q, proc'[q])
  BY <1>1 DEF AllReady
<1>3. \A q \in Procs : \A s : Ready(q, s) <=> Ready(q, s)'
  BY <1>1 DEF Ready, LeftOf, Request, WholeEdit, Target
<1> QED BY <1>2, <1>3 DEF AllReady

LEMMA ReadyInit == Init => AllReady
BY DEF Init, AllReady, Ready, LeftOf

-----------------------------------------------------------------------------
(* Titles. *)

(* What the requests of a process make of titles, contents and annotations.*)
LEMMA AppliedEdits ==
  ASSUME Core, NEW writes \in SUBSET Writes, Apply(writes), NEW x \in Paths
  PROVE  LET on(op) == {w \in writes : w.op = op /\ x = w.path} IN
         /\ repo'[x].titles = (repo[x].titles \ UNION {w.old \ w.new : w \in on("patch")})
                                \cup UNION {w.new \ w.old : w \in on("patch")}
         /\ on("put") = {} => repo'[x].content = repo[x].content
         /\ on("put") # {} => \E w \in on("put") : repo'[x].content = w.value
         /\ repo'[x].annotations = repo[x].annotations \cup {w.id : w \in on("annotate")}
<1> DEFINE on(op) == {w \in writes : w.op = op /\ x = w.path}
           changes == {w \in writes : w.op # "stub"}
           in(op) == {w \in changes : w.op = op /\ x = w.path}
<1>1. repo'[x] = Change(x, repo[x], changes)
  BY DEF Apply
<1>2. in("patch") = on("patch") /\ in("put") = on("put") /\ in("annotate") = on("annotate")
  OBVIOUS
<1>3. /\ Change(x, repo[x], changes).titles =
           (repo[x].titles \ UNION {w.old \ w.new : w \in in("patch")})
             \cup UNION {w.new \ w.old : w \in in("patch")}
      /\ Change(x, repo[x], changes).content =
           IF in("put") = {} THEN repo[x].content ELSE (CHOOSE w \in in("put") : TRUE).value
      /\ Change(x, repo[x], changes).annotations =
           repo[x].annotations \cup {w.id : w \in in("annotate")}
  BY DEF Change
<1>4. in("put") # {} => (CHOOSE w \in in("put") : TRUE) \in in("put")
  OBVIOUS
<1> HIDE DEF in, on
<1> QED BY <1>1, <1>2, <1>3, <1>4 DEF on

Wants(p) == command[p].value

(* A PATCH of p reaches x. *)
Patched(p, st, x) ==
  /\ proc[p].left # <<>> /\ x = Target(proc[p]) /\ p \in Editors(x)
  /\ proc[p].pc \in {"edit", "patch", "leave"} /\ proc[p].read # {Wants(p)}
  /\ repo'[x].titles = (repo[x].titles \ (proc[p].read \ {Wants(p)}))
                         \cup ({Wants(p)} \ proc[p].read)
  /\ command[p].type \in {"set", "web_model"} => Wants(p) \notin Invalid
  /\ proc[p].pc = "leave" => Patches(proc[p].writes)
  /\ \/ st.left = proc[p].left /\ st.pc = "aborted"
     \/ st.left = proc[p].left /\ st.pc = "leave" /\ ~Patches(st.writes)
     \/ st.left = Tail(proc[p].left)

LEMMA LeftFacts ==
  ASSUME Core, NEW p \in Procs, Ready(p, proc[p]), proc[p].left # <<>>
  PROVE  /\ 1 \in DOMAIN proc[p].left /\ Target(proc[p]) = proc[p].left[1]
         /\ \E j \in DOMAIN command[p].args : Target(proc[p]) = command[p].args[j]
         /\ DOMAIN proc[p].left \subseteq Nat
         /\ \A k \in DOMAIN Tail(proc[p].left) :
              /\ k \in Nat /\ k + 1 \in DOMAIN proc[p].left /\ k + 1 # 1
              /\ Tail(proc[p].left)[k] = proc[p].left[k + 1]
<1>1. proc[p].left \in Seq(Paths) \/ proc[p].left \in Seq(StubRows)
  BY ProcFacts DEF States
<1>2. /\ 1 \in DOMAIN proc[p].left /\ Target(proc[p]) = proc[p].left[1]
      /\ DOMAIN proc[p].left \subseteq Nat
      /\ \A k \in DOMAIN Tail(proc[p].left) :
              /\ k \in Nat /\ k + 1 \in DOMAIN proc[p].left /\ k + 1 # 1
              /\ Tail(proc[p].left)[k] = proc[p].left[k + 1]
  BY <1>1, HeadAndTail DEF Target
<1> QED BY <1>2 DEF Ready, LeftOf

LEMMA TitleEffect ==
  ASSUME Core, AllReady, NEW p \in Procs, NEW st, StepEffect(p, st), NEW x \in Paths
  PROVE  repo'[x].titles = repo[x].titles \/ Patched(p, st, x)
<1>1. CASE SameEdits
  BY <1>1 DEF SameEdits
<1>2. ASSUME NEW writes \in SUBSET Writes, Apply(writes), Sends(p, st, writes)
      PROVE  repo'[x].titles = repo[x].titles \/ Patched(p, st, x)
  <2> DEFINE patches == {w \in writes : w.op = "patch" /\ x = w.path}
             old == UNION {w.old \ w.new : w \in patches}
             new == UNION {w.new \ w.old : w \in patches}
  <2>1. repo'[x].titles = (repo[x].titles \ old) \cup new
    BY <1>2, AppliedEdits
  <2>2. \A w \in patches :
          /\ command[p].type \in Editing /\ proc[p].pc \in {"edit", "patch", "leave"}
          /\ x = Target(proc[p]) /\ w.old = proc[p].read /\ w.new = {Wants(p)}
          /\ w.old # w.new
          /\ command[p].type \in {"set", "web_model"} => Wants(p) \notin Invalid
    BY <1>2 DEF Sends, Request, Wants
  <2>3. CASE patches = {}
    BY <2>1, <2>3
  <2>4. CASE patches # {}
    <3>1. PICK w \in patches : TRUE
      BY <2>4
    <3>2. old = proc[p].read \ {Wants(p)} /\ new = {Wants(p)} \ proc[p].read
      BY <2>2, <3>1
    <3>3. Patches(writes) /\ proc[p].left # <<>>
      BY <1>2, <3>1 DEF Patches, Sends
    <3>4. p \in Editors(x)
      <4>1. Ready(p, proc[p])
        BY DEF AllReady
      <4>2. \E j \in DOMAIN command[p].args : x = command[p].args[j]
        BY <2>2, <3>1, <3>3, <4>1, LeftFacts
      <4> QED BY <2>2, <3>1, <4>2 DEF Editors, Editing
    <3> HIDE DEF patches, old, new
    <3> QED BY <1>2, <2>1, <2>2, <3>1, <3>2, <3>3, <3>4 DEF Patched, Sends
  <2> QED BY <2>3, <2>4
<1> QED BY <1>1, <1>2 DEF StepEffect

Visiting(p, x) ==
  /\ proc[p].left # <<>> /\ Target(proc[p]) = x
  /\ proc[p].pc \in {"edit", "binary", "patch", "leave"}

(* A PATCH of p to x may still come.                                       *)
Ahead(p, x) ==
  /\ proc[p].pc # "aborted"
  /\ \E k \in DOMAIN proc[p].left :
       proc[p].left[k] = x /\ (k = 1 /\ proc[p].pc = "leave" => Patches(proc[p].writes))

(* Before the first edit of a title has reached the server, whoever visits *)
(* the resource has read its only value.                                   *)
Untouched(x) ==
  \E v : repo[x].titles = {v} /\ \A p \in Editors(x) : Visiting(p, x) => proc[p].read = {v}

(* Then its values are asked for; and a value that only one edit asks for  *)
(* is not there before, so that the edit does not take it for one that it  *)
(* need not insert.                                                        *)
Touched(x) ==
  /\ repo[x].titles \subseteq {Wants(p) : p \in Editors(x)}
  /\ AskedOnce(x) =>
       /\ repo[x].titles # {}
       /\ \A p \in Editors(x) : Ahead(p, x) =>
            /\ Wants(p) \notin repo[x].titles
            /\ Visiting(p, x) /\ Wants(p) \in proc[p].read => proc[p].read = {Wants(p)}

TitlesKept == \A x \in Paths : Untouched(x) \/ Touched(x)

(* Who visits a resource after a step did before, or has just read it. *)
LEMMA StepVisits ==
  ASSUME Core, AllReady, NEW p \in Procs, NEW st, StepEffect(p, st), NEW x \in Paths,
         NEW q \in Editors(x)
  PROVE  /\ q \in Procs /\ (q # p => proc'[q] = proc[q]) /\ (q = p => proc'[q] = st)
         /\ Visiting(q, x)' => \/ Visiting(q, x) /\ proc'[q].read = proc[q].read
                               \/ q = p /\ SameEdits /\ proc'[q].read = repo[x].titles
<1>1. /\ \A r \in Procs : proc'[r] = IF r = p THEN st ELSE proc[r]
      /\ q \in Procs /\ command[q].type \in Editing
  BY DEF StepEffect, Go, Core, ProcTypes, Editors, Editing
<1>2. CASE q # p
  BY <1>1, <1>2 DEF Visiting
<1>3. CASE q = p
  <2>1. Onward(p, st)
    BY DEF StepEffect
  <2> QED BY <1>1, <1>3, <2>1 DEF Visiting, Onward, Target
<1> QED BY <1>1, <1>2, <1>3

LEMMA StepAhead ==
  ASSUME Core, AllReady, NEW p \in Procs, NEW st, StepEffect(p, st), NEW x \in Paths,
         NEW q \in Editors(x), Ahead(q, x)'
  PROVE  Ahead(q, x) /\ ~(q = p /\ AskedOnce(x) /\ Patched(p, st, x))
<1>0. proc[p].left # <<>> => Tail(proc[p].left) # proc[p].left
  <2>1. proc[p].left \in Seq(Paths) \/ proc[p].left \in Seq(StubRows)
    BY ProcFacts DEF States
  <2>2. ASSUME NEW S, NEW s \in Seq(S), s # <<>> PROVE Tail(s) # s
    <3>1. Len(Tail(s)) = Len(s) - 1 /\ Len(s) \in Nat
      BY <2>2, HeadAndTail
    <3> QED BY <3>1
  <2> QED BY <2>1, <2>2
<1>1. /\ \A r \in Procs : proc'[r] = IF r = p THEN st ELSE proc[r]
      /\ q \in Procs /\ Ready(p, proc[p])
  BY DEF StepEffect, Go, Core, ProcTypes, Editors, AllReady
<1>2. CASE q # p
  BY <1>1, <1>2 DEF Ahead
<1>3. CASE q = p
  <2>1. Onward(p, st) /\ proc'[q] = st
    BY <1>1, <1>3 DEF StepEffect
  <2>2. PICK k \in DOMAIN st.left :
          st.left[k] = x /\ (k = 1 /\ st.pc = "leave" => Patches(st.writes))
    BY <2>1 DEF Ahead
  <2>3. st.pc # "aborted" /\ proc[p].pc # "aborted"
    BY <2>1 DEF Ahead, Onward
  <2>4. CASE st.left = proc[p].left
    <3>1. proc[p].pc # "leave"
      BY <1>0, <2>1, <2>3, <2>4 DEF Onward
    <3>2. Ahead(p, x)
      BY <2>2, <2>3, <2>4, <3>1 DEF Ahead
    <3>3. ASSUME AskedOnce(x), Patched(p, st, x) PROVE FALSE
      <4>1. /\ proc[p].left # <<>> /\ x = proc[p].left[1] /\ 1 \in DOMAIN proc[p].left
        BY <1>1, <3>3, LeftFacts DEF Patched
      <4>2. Once(proc[p].left, x)
        BY <1>1, <1>3, <3>3 DEF AskedOnce, Once, Ready, LeftOf
      <4>3. k = 1
        BY <2>2, <2>4, <4>1, <4>2 DEF Once
      <4>4. st.pc = "leave" => Patches(st.writes)
        BY <2>2, <4>3
      <4> QED BY <1>0, <2>3, <2>4, <3>3, <4>1, <4>4 DEF Patched
    <3> QED BY <1>3, <3>2, <3>3
  <2>5. CASE st.left = Tail(proc[p].left) /\ proc[p].left # <<>>
    <3>1. k + 1 \in DOMAIN proc[p].left /\ k + 1 # 1 /\ proc[p].left[k + 1] = x
      BY <1>1, <2>2, <2>5, LeftFacts
    <3>2. Ahead(p, x)
      BY <2>3, <3>1 DEF Ahead
    <3>3. ASSUME AskedOnce(x), Patched(p, st, x) PROVE FALSE
      <4>1. x = proc[p].left[1] /\ 1 \in DOMAIN proc[p].left
        BY <1>1, <2>5, <3>3, LeftFacts DEF Patched
      <4>2. Once(proc[p].left, x)
        BY <1>1, <1>3, <3>3 DEF AskedOnce, Once, Ready, LeftOf
      <4> QED BY <3>1, <4>1, <4>2 DEF Once
    <3> QED BY <1>3, <3>2, <3>3
  <2> QED BY <2>1, <2>4, <2>5 DEF Onward
<1> QED BY <1>2, <1>3

LEMMA TitlesStep ==
  ASSUME Core, AllReady, TitlesKept, NEW p \in Procs, NEW st, StepEffect(p, st)
  PROVE  TitlesKept'
<1> SUFFICES ASSUME NEW x \in Paths PROVE Untouched(x)' \/ Touched(x)'
  BY DEF TitlesKept
<1>1. /\ UNCHANGED command /\ Editors(x)' = Editors(x) /\ AskedOnce(x)' = AskedOnce(x)
      /\ \A q : Wants(q)' = Wants(q)
  BY DEF StepEffect, Editors, AskedOnce, Wants
<1>2. CASE Untouched(x) /\ repo'[x].titles = repo[x].titles
  <2>1. PICK v : repo[x].titles = {v} /\ \A q \in Editors(x) : Visiting(q, x) => proc[q].read = {v}
    BY <1>2 DEF Untouched
  <2>2. \A q \in Editors(x) : Visiting(q, x)' => proc'[q].read = {v}
    BY <2>1, StepVisits
  <2> QED BY <1>1, <1>2, <2>1, <2>2 DEF Untouched
<1>3. CASE Untouched(x) /\ Patched(p, st, x)
  <2>1. PICK v : repo[x].titles = {v} /\ \A q \in Editors(x) : Visiting(q, x) => proc[q].read = {v}
    BY <1>3 DEF Untouched
  <2>2. proc[p].read = {v} /\ p \in Editors(x)
    BY <1>3, <2>1 DEF Patched, Visiting
  <2>3. repo'[x].titles = {Wants(p)}
    BY <1>3, <2>1, <2>2 DEF Patched
  <2>4. ASSUME AskedOnce(x), NEW q \in Editors(x), Ahead(q, x)'
        PROVE  /\ Wants(q) \notin repo'[x].titles
               /\ Visiting(q, x)' /\ Wants(q) \in proc'[q].read => proc'[q].read = {Wants(q)}
    <3>1. q # p
      BY <1>3, <2>4, StepAhead
    <3>2. Wants(q) # Wants(p)
      BY <2>2, <2>4, <3>1 DEF AskedOnce, Wants
    <3>3. Visiting(q, x)' => proc'[q].read = {v}
      BY <2>1, <3>1, StepVisits
    <3> QED BY <2>3, <3>2, <3>3
  <2> QED BY <1>1, <2>2, <2>3, <2>4 DEF Touched
<1>4. CASE Touched(x) /\ repo'[x].titles = repo[x].titles
  <2>1. ASSUME AskedOnce(x), NEW q \in Editors(x), Ahead(q, x)'
        PROVE  /\ Wants(q) \notin repo'[x].titles
               /\ Visiting(q, x)' /\ Wants(q) \in proc'[q].read => proc'[q].read = {Wants(q)}
    <3>1. Wants(q) \notin repo[x].titles
          /\ (Visiting(q, x) /\ Wants(q) \in proc[q].read => proc[q].read = {Wants(q)})
      BY <1>4, <2>1, StepAhead DEF Touched
    <3> QED BY <1>4, <3>1, StepVisits
  <2> QED BY <1>1, <1>4, <2>1 DEF Touched
<1>5. CASE Touched(x) /\ Patched(p, st, x)
  <2>1. repo'[x].titles \subseteq {Wants(q) : q \in Editors(x)}
    BY <1>5 DEF Touched, Patched
  <2>2. ASSUME AskedOnce(x)
        PROVE  Wants(p) \notin proc[p].read
    <3>1. Ready(p, proc[p])
      BY DEF AllReady
    <3>2. Ahead(p, x) /\ Visiting(p, x) /\ p \in Editors(x)
      BY <1>5, <3>1, LeftFacts DEF Ahead, Patched, Visiting
    <3> QED BY <1>5, <2>2, <3>2 DEF Touched, Patched
  <2>3. AskedOnce(x) => repo'[x].titles # {}
    BY <1>5, <2>2 DEF Patched
  <2>4. ASSUME AskedOnce(x), NEW q \in Editors(x), Ahead(q, x)'
        PROVE  /\ Wants(q) \notin repo'[x].titles
               /\ Visiting(q, x)' /\ Wants(q) \in proc'[q].read => proc'[q].read = {Wants(q)}
    <3>1. q # p /\ Ahead(q, x)
      BY <1>5, <2>4, StepAhead
    <3>2. Wants(q) # Wants(p)
      BY <1>5, <2>4, <3>1 DEF AskedOnce, Wants, Patched
    <3>3. Wants(q) \notin repo[x].titles
          /\ (Visiting(q, x) /\ Wants(q) \in proc[q].read => proc[q].read = {Wants(q)})
      BY <1>5, <2>4, <3>1 DEF Touched
    <3>4. Wants(q) \notin repo'[x].titles
      BY <1>5, <3>2, <3>3 DEF Patched
    <3> QED BY <3>1, <3>3, <3>4, StepVisits
  <2> QED BY <1>1, <2>1, <2>3, <2>4 DEF Touched
<1> QED BY <1>2, <1>3, <1>4, <1>5, TitleEffect DEF TitlesKept

LEMMA TitlesInit == Init => TitlesKept
<1> SUFFICES ASSUME Init, NEW x \in Paths PROVE Untouched(x)
  BY DEF TitlesKept
<1>1. PICK v \in Values \ Invalid : repo[x].titles = {v}
  BY DEF Init
<1>2. \A p \in Editors(x) : ~Visiting(p, x)
  BY DEF Init, Editors, Visiting
<1> QED BY <1>1, <1>2 DEF Untouched

LEMMA KeptIsBounded ==
  ASSUME TitlesKept PROVE TitlesBounded
<1> SUFFICES ASSUME NEW x \in Paths
             PROVE  /\ \/ Cardinality(repo[x].titles) <= 1
                       \/ Cardinality(repo[x].titles) <= Cardinality(Editors(x))
                    /\ AskedOnce(x) => repo[x].titles # {}
  BY DEF TitlesBounded
<1>1. CASE Untouched(x)
  <2>1. PICK v : repo[x].titles = {v}
    BY <1>1 DEF Untouched
  <2>2. Cardinality({v}) = 1
    BY FS_Singleton
  <2> QED BY <2>1, <2>2
<1>2. CASE Touched(x)
  <2> DEFINE values == {Wants(p) : p \in Editors(x)}
  <2>1. IsFiniteSet(Editors(x))
    BY CommandAssumption, FS_Subset DEF Editors
  <2>2. IsFiniteSet(values) /\ Cardinality(values) <= Cardinality(Editors(x))
    <3>1. [p \in Editors(x) |-> Wants(p)] \in Surjection(Editors(x), values)
      BY DEF Surjection
    <3> QED BY <2>1, <3>1, FS_Surjection
  <2>3. IsFiniteSet(repo[x].titles) /\ Cardinality(repo[x].titles) <= Cardinality(values)
    BY <1>2, <2>2, FS_Subset DEF Touched
  <2>4. /\ Cardinality(repo[x].titles) \in Nat /\ Cardinality(values) \in Nat
        /\ Cardinality(Editors(x)) \in Nat
    BY <2>1, <2>2, <2>3, FS_CardinalityType
  <2> QED BY <1>2, <2>2, <2>3, <2>4 DEF Touched
<1> QED BY <1>1, <1>2 DEF TitlesKept

LEMMA AcceptedStep ==
  ASSUME Core, AllReady, TitlesAccepted, NEW p \in Procs, NEW st, StepEffect(p, st)
  PROVE  TitlesAccepted'
<1> SUFFICES ASSUME NEW x \in Paths, NEW v \in Invalid, v \in repo'[x].titles
             PROVE  \E q \in Editors(x) : command[q].type \in {"web", "replace"} /\ Wants(q) = v
  BY DEF StepEffect, TitlesAccepted, Editors, Wants
<1>1. CASE v \in repo[x].titles
  BY <1>1 DEF TitlesAccepted, Wants
<1>2. CASE v \notin repo[x].titles
  <2>1. Patched(p, st, x)
    BY <1>2, TitleEffect
  <2> QED BY <1>2, <2>1 DEF Patched, Editors
<1> QED BY <1>1, <1>2

-----------------------------------------------------------------------------
(* Names of files, and annotations. *)

Lone(x) == \A p, q \in Editors(x) : p = q /\ command[p].type = "replace"

(* Whoever replaces the file has read the name of the one that is there.   *)
NamesKept ==
  \A x \in Paths : Lone(x) =>
    /\ repo[x].titles = {repo[x].content}
    /\ \A p \in Editors(x) : Visiting(p, x) => proc[p].read = {repo[x].content}

(* A commit of replace makes its value both the content and the title.     *)
LEMMA ReplaceEffect ==
  ASSUME Core, AllReady, NEW p \in Procs, NEW st, command[p].type = "replace",
         NEW writes \in SUBSET Writes, Apply(writes), Sends(p, st, writes), NEW x \in Paths
  PROVE  \/ x # Target(proc[p]) /\ repo'[x].content = repo[x].content
         \/ /\ x = Target(proc[p]) /\ repo'[x].content = Wants(p) /\ proc[p].left # <<>>
            /\ proc[p].pc = "leave"
            /\ proc[p].read = {Wants(p)} \/ Patched(p, st, x)
<1> DEFINE puts == {w \in writes : w.op = "put" /\ x = w.path}
<1>1. \A w \in writes : w.op = "put" => w.path = Target(proc[p]) /\ w.value = Wants(p)
  BY DEF Sends, Request, Wants
<1>2. PICK w \in writes : w.op = "put"
  BY DEF Sends, WholeEdit, Puts
<1>3. CASE x # Target(proc[p])
  <2>1. puts = {}
    BY <1>1, <1>3
  <2> QED BY <1>3, <2>1, AppliedEdits
<1>4. CASE x = Target(proc[p])
  <2>1. puts # {} /\ proc[p].pc = "leave" /\ proc[p].left # <<>>
    BY <1>1, <1>2, <1>4 DEF Sends
  <2>2. repo'[x].content = Wants(p)
    BY <1>1, <2>1, AppliedEdits
  <2>3. ASSUME proc[p].read # {Wants(p)} PROVE Patched(p, st, x)
    <3> DEFINE patches == {v \in writes : v.op = "patch" /\ x = v.path}
               old == UNION {v.old \ v.new : v \in patches}
               new == UNION {v.new \ v.old : v \in patches}
    <3>1. repo'[x].titles = (repo[x].titles \ old) \cup new
      BY AppliedEdits
    <3>2. \A v \in patches : v.old = proc[p].read /\ v.new = {Wants(p)}
      BY DEF Sends, Request, Wants
    <3>3. PICK v \in patches : TRUE
      BY <1>4, <2>3 DEF Sends, Request, WholeEdit, Patches, Wants
    <3>4. old = proc[p].read \ {Wants(p)} /\ new = {Wants(p)} \ proc[p].read
      BY <3>2, <3>3
    <3>5. p \in Editors(x)
      <4>1. Ready(p, proc[p])
        BY DEF AllReady
      <4> QED BY <1>4, <2>1, <4>1, LeftFacts DEF Editors
    <3>6. Patches(writes)
      BY <3>3 DEF Patches
    <3> HIDE DEF patches, old, new
    <3> QED BY <1>4, <2>1, <2>3, <3>1, <3>4, <3>5, <3>6 DEF Patched, Sends
  <2> QED BY <1>4, <2>1, <2>2, <2>3
<1> QED BY <1>3, <1>4

LEMMA NamesStep ==
  ASSUME Core, AllReady, NamesKept, NEW p \in Procs, NEW st, StepEffect(p, st)
  PROVE  NamesKept'
<1>0. UNCHANGED command /\ proc' = [proc EXCEPT ![p] = st] /\ Onward(p, st)
  BY DEF StepEffect, Go
<1> SUFFICES ASSUME NEW x \in Paths, Lone(x)
             PROVE  /\ repo'[x].titles = {repo'[x].content}
                    /\ \A q \in Editors(x) : Visiting(q, x)' => proc'[q].read = {repo'[x].content}
  BY <1>0 DEF NamesKept, Lone, Editors
<1>1. /\ repo[x].titles = {repo[x].content}
      /\ \A q \in Editors(x) : Visiting(q, x) => proc[q].read = {repo[x].content}
  BY DEF NamesKept
<1>2. CASE repo'[x].titles = repo[x].titles /\ repo'[x].content = repo[x].content
  BY <1>1, <1>2, StepVisits
<1>3. CASE SameEdits
  BY <1>2, <1>3 DEF SameEdits
<1>4. ASSUME NEW writes \in SUBSET Writes, Apply(writes), Sends(p, st, writes)
      PROVE  /\ repo'[x].titles = {repo'[x].content}
             /\ \A q \in Editors(x) : Visiting(q, x)' => proc'[q].read = {repo'[x].content}
  <2>1. CASE p \notin Editors(x)
    <3>1. repo'[x].titles = repo[x].titles
      BY <2>1, TitleEffect DEF Patched
    <3>2. repo'[x].content = repo[x].content
      <4> DEFINE puts == {w \in writes : w.op = "put" /\ x = w.path}
      <4>1. \A w \in puts : command[p].type = "replace" /\ x = Target(proc[p])
        BY <1>4 DEF Sends, Request
      <4>2. Ready(p, proc[p]) /\ proc[p].left # <<>>
        BY <1>4 DEF AllReady, Sends
      <4>3. puts = {}
        BY <2>1, <4>1, <4>2, LeftFacts DEF Editors
      <4> QED BY <1>4, <4>3, AppliedEdits
    <3> QED BY <1>2, <3>1, <3>2
  <2>2. CASE p \in Editors(x)
    <3>1. command[p].type = "replace" /\ \A q \in Editors(x) : q = p
      BY <2>2 DEF Lone
    <3>2. CASE x # Target(proc[p])
      <4>1. repo'[x].content = repo[x].content
        BY <1>4, <3>1, <3>2, ReplaceEffect
      <4>2. repo'[x].titles = repo[x].titles
        BY <3>2, TitleEffect DEF Patched
      <4> QED BY <1>2, <4>1, <4>2
    <3>3. CASE x = Target(proc[p])
      <4>1. /\ repo'[x].content = Wants(p) /\ proc[p].left # <<>> /\ proc[p].pc = "leave"
            /\ proc[p].read = {Wants(p)} \/ Patched(p, st, x)
        BY <1>4, <3>1, <3>3, ReplaceEffect
      <4>2. Visiting(p, x) /\ proc[p].read = {repo[x].content}
        BY <1>1, <2>2, <3>3, <4>1 DEF Visiting
      <4>3. repo'[x].titles = {Wants(p)}
        <5>1. CASE Patched(p, st, x)
          BY <1>1, <4>2, <5>1 DEF Patched
        <5>2. CASE ~Patched(p, st, x)
          BY <1>1, <4>1, <4>2, <5>2, TitleEffect
        <5> QED BY <5>1, <5>2
      <4>4. st.pc \in {"aborted", "next"}
        BY <1>0, <4>1 DEF Onward
      <4>5. \A q \in Editors(x) : ~Visiting(q, x)'
        BY <2>2, <3>1, <4>4, StepVisits DEF Visiting
      <4> QED BY <4>1, <4>3, <4>5
    <3> QED BY <3>2, <3>3
  <2> QED BY <2>1, <2>2
<1> QED BY <1>3, <1>4 DEF StepEffect

LEMMA NamesInit == Init => NamesKept
BY DEF Init, NamesKept, Visiting, Editors

(* The annotations of a page that are made by others stay the same.        *)
LEMMA AnnotatedStep ==
  ASSUME Core, AllReady, AnnotatedWhole, NEW p \in Procs, NEW st, StepEffect(p, st)
  PROVE  AnnotatedWhole'
<1> DEFINE made(q, x) == {k \in 1..HtmlFiles[x] : <<q, k>> \in repo[x].annotations}
           after(q, x) == {k \in 1..HtmlFiles[x] : <<q, k>> \in repo'[x].annotations}
<1> SUFFICES ASSUME NEW q \in Procs, NEW x \in Paths, command[q].tx
             PROVE  after(q, x) \in {{}, 1..HtmlFiles[x]}
  BY DEF StepEffect, AnnotatedWhole
<1>1. made(q, x) \in {{}, 1..HtmlFiles[x]}
  BY DEF AnnotatedWhole
<1>2. CASE repo'[x].annotations = repo[x].annotations
  BY <1>1, <1>2
<1>3. CASE SameEdits
  BY <1>2, <1>3 DEF SameEdits
<1>4. ASSUME NEW writes \in SUBSET Writes, Apply(writes), Sends(p, st, writes)
      PROVE  after(q, x) \in {{}, 1..HtmlFiles[x]}
  <2> DEFINE new == {w \in writes : w.op = "annotate" /\ x = w.path}
  <2>1. repo'[x].annotations = repo[x].annotations \cup {w.id : w \in new}
    BY <1>4, AppliedEdits
  <2>2. \A w \in new : /\ command[p].type = "annotate" /\ x = Target(proc[p])
                       /\ \E k \in Nat : w.id = <<p, k>>
    BY <1>4 DEF Sends, Request
  <2>3. CASE q # p
    <3>1. \A k : <<q, k>> \notin {w.id : w \in new}
      BY <2>2, <2>3
    <3> QED BY <1>1, <2>1, <3>1
  <2>4. CASE q = p
    <3>1. CASE new = {}
      BY <1>2, <2>1, <3>1
    <3>2. CASE new # {}
      <4>1. Numbers(p, writes) = 1..HtmlFiles[x] /\ HtmlFiles[x] \in Nat
        BY <1>4, <2>2, <2>4, <3>2, CommandAssumption DEF Sends, WholeEdit
      <4>2. command[p].type = "annotate" /\ x = Target(proc[p])
        BY <2>2, <3>2
      <4>3. \A w \in writes : w.op = "annotate" => w \in new
        BY <1>4, <4>2 DEF Sends, Request
      <4>4. \A k \in 1..HtmlFiles[x] : <<p, k>> \in {w.id : w \in new}
        BY <4>1, <4>3 DEF Numbers
      <4> QED BY <2>1, <2>4, <4>4
    <3> QED BY <3>1, <3>2
  <2> QED BY <2>3, <2>4
<1> QED BY <1>3, <1>4 DEF StepEffect

-----------------------------------------------------------------------------
(* stub: the parts of the row at hand. *)

(* A part that the repository has, or that the transaction will bring.     *)
Made(st, there, r, part) ==
  \/ part \in there[r]
  \/ \E w \in st.writes : w.op = "stub" /\ w.row = r /\ w.part = part

StubReady ==
  \A p \in Procs : Is(p, "stub", "stub") =>
    /\ proc[p].count \in 1..6
    /\ \A j \in 1..(proc[p].count - 1) : Made(proc[p], stubs, Target(proc[p]), PartOrder[j])

(* A process answers for a row that is written and not whole.              *)
Answers(p, r) ==
  /\ command[p].type = "stub" /\ proc[p].left # <<>> /\ Target(proc[p]) = r
  /\ \/ proc[p].pc = "aborted"
     \/ proc[p].pc = "leave" /\ \A part \in Parts : Made(proc[p], stubs, r, part)

RowsKept == \A r \in written : Whole(r) \/ \E p \in Procs : Answers(p, r)

StubInv == written \subseteq StubRows /\ StubReady /\ RowsKept

LEMMA AppliedStubs ==
  ASSUME Core, NEW writes \in SUBSET Writes, Apply(writes), NEW r \in StubRows
  PROVE  /\ stubs[r] \subseteq stubs'[r] /\ stubs'[r] \subseteq Parts
         /\ \A w \in writes : w.op = "stub" /\ w.row = r => w.part \in stubs'[r]
<1>1. stubs'[r] = stubs[r] \cup {w.part : w \in {v \in writes : v.op = "stub" /\ v.row = r}}
  BY DEF Apply
<1>2. \A w \in writes : w.op = "stub" => w.part \in Parts
  BY DEF Writes
<1> QED BY <1>1, <1>2 DEF Core, RepoTypes

(* The rows of the other processes: the parts made stay.                   *)
LEMMA OthersKept ==
  ASSUME StubInv, NEW p \in Procs, NEW st, Core, Go(p, st), UNCHANGED command,
         \A r \in StubRows : stubs[r] \subseteq stubs'[r] /\ stubs'[r] \subseteq Parts
  PROVE  /\ proc' = [proc EXCEPT ![p] = st] /\ proc'[p] = st
         /\ \A q \in Procs : q # p => proc'[q] = proc[q]
         /\ \A q \in Procs : q # p /\ Is(q, "stub", "stub")' =>
              /\ proc'[q].count \in 1..6
              /\ \A j \in 1..(proc'[q].count - 1) : Made(proc'[q], stubs', Target(proc'[q]), PartOrder[j])
         /\ \A r \in written : \/ Whole(r)' \/ \E q \in Procs : Answers(q, r)'
                               \/ Answers(p, r)
<1>1. /\ proc' = [proc EXCEPT ![p] = st] /\ proc'[p] = st
      /\ \A q \in Procs : q # p => proc'[q] = proc[q]
  BY DEF Go, Core, ProcTypes
<1>2. \A part : \A q \in Procs, r \in StubRows :
              q # p /\ Made(proc[q], stubs, r, part) => Made(proc'[q], stubs', r, part)
  BY <1>1 DEF Made
<1>3. ASSUME NEW q \in Procs, q # p, Is(q, "stub", "stub")'
      PROVE  /\ proc'[q].count \in 1..6
             /\ \A j \in 1..(proc'[q].count - 1) : Made(proc'[q], stubs', Target(proc'[q]), PartOrder[j])
  <2>1. Is(q, "stub", "stub") /\ proc'[q] = proc[q]
    BY <1>1, <1>3 DEF Is
  <2>2. proc[q].left \in Seq(StubRows) /\ proc[q].left # <<>>
    BY <2>1, ProcFacts DEF Is, Sane
  <2>3. Target(proc[q]) \in StubRows
    BY <2>2, HeadAndTail DEF Target
  <2>4. /\ proc[q].count \in 1..6
        /\ \A j \in 1..(proc[q].count - 1) : Made(proc[q], stubs, Target(proc[q]), PartOrder[j])
    BY <2>1 DEF StubInv, StubReady
  <2>5. \A j \in 1..(proc[q].count - 1) : Made(proc'[q], stubs', Target(proc[q]), PartOrder[j])
    BY <1>2, <1>3, <2>3, <2>4
  <2> QED BY <2>1, <2>4, <2>5
<1>4. ASSUME NEW r \in written, ~Answers(p, r)
      PROVE  Whole(r)' \/ \E q \in Procs : Answers(q, r)'
  <2>1. r \in StubRows
    BY DEF StubInv
  <2>2. CASE Whole(r)
    <3>1. stubs'[r] = Parts
      BY <2>1, <2>2 DEF Whole
    <3> QED BY <3>1 DEF Whole
  <2>3. CASE ~Whole(r)
    <3>1. PICK q \in Procs : Answers(q, r)
      BY <2>3 DEF StubInv, RowsKept
    <3>2. q # p
      BY <1>4, <3>1
    <3>3. Answers(q, r)'
      <4>1. \A part \in Parts : Made(proc[q], stubs, r, part) => Made(proc'[q], stubs', r, part)
        BY <1>2, <2>1, <3>2
      <4> QED BY <1>1, <3>1, <3>2, <4>1 DEF Answers
    <3> QED BY <3>3
  <2> QED BY <2>2, <2>3
<1> QED BY <1>1, <1>3, <1>4

(* A step after which p is not in the middle of a row, and has not let a   *)
(* row go that it answers for.                                             *)
LEMMA StubKept ==
  ASSUME StubInv, NEW p \in Procs, NEW st, Core, Go(p, st), UNCHANGED <<command, written>>,
         \A r \in StubRows : stubs[r] \subseteq stubs'[r] /\ stubs'[r] \subseteq Parts,
         command[p].type = "stub" /\ st.pc = "stub" =>
           /\ st.count \in 1..6
           /\ \A j \in 1..(st.count - 1) : Made(st, stubs', Target(st), PartOrder[j]),
         \A r \in written : Answers(p, r) => Whole(r)' \/ Answers(p, r)'
  PROVE  StubInv'
<1>1. /\ proc'[p] = st
      /\ \A q \in Procs : q # p /\ Is(q, "stub", "stub")' =>
              /\ proc'[q].count \in 1..6
              /\ \A j \in 1..(proc'[q].count - 1) : Made(proc'[q], stubs', Target(proc'[q]), PartOrder[j])
      /\ \A r \in written : \/ Whole(r)' \/ \E q \in Procs : Answers(q, r)'
                            \/ Answers(p, r)
  BY OthersKept
<1>2. StubReady'
  <2> SUFFICES ASSUME NEW q \in Procs, Is(q, "stub", "stub")'
               PROVE  /\ proc'[q].count \in 1..6
                      /\ \A j \in 1..(proc'[q].count - 1) : Made(proc'[q], stubs', Target(proc'[q]), PartOrder[j])
    BY DEF StubReady
  <2>1. CASE q # p
    BY <1>1, <2>1
  <2>2. CASE q = p
    <3>1. command[p].type = "stub" /\ st.pc = "stub"
      BY <1>1, <2>2 DEF Is
    <3> QED BY <1>1, <2>2, <3>1
  <2> QED BY <2>1, <2>2
<1>3. RowsKept'
  BY <1>1 DEF RowsKept
<1> QED BY <1>2, <1>3 DEF StubInv

LEMMA QuietStubs ==
  ASSUME Core, UNCHANGED stubs
  PROVE  \A r \in StubRows : stubs[r] \subseteq stubs'[r] /\ stubs'[r] \subseteq Parts
BY DEF Core, RepoTypes

(* An exception: whoever answered for a row does so for good.              *)
LEMMA StubAbort ==
  ASSUME StubInv, NEW p \in Procs, Core, Abort(p), UNCHANGED <<command, written>>,
         \A r \in StubRows : stubs[r] \subseteq stubs'[r] /\ stubs'[r] \subseteq Parts
  PROVE  StubInv'
<1> DEFINE st == [proc[p] EXCEPT !.pc = "aborted", !.writes = {}]
<1>1. st.pc = "aborted" /\ st.left = proc[p].left
  BY ProcFacts DEF States
<1>2. Go(p, st)
  BY DEF Abort
<1>3. proc'[p] = st
  BY <1>2 DEF Go, Core, ProcTypes
<1> HIDE DEF st
<1>4. \A r \in written : Answers(p, r) => Answers(p, r)'
  BY <1>1, <1>3 DEF Answers, Target
<1> QED BY <1>1, <1>2, <1>4, StubKept

LEMMA StubPartStep ==
  ASSUME StubInv, NEW p \in Procs, Core, StubPart(p) PROVE StubInv'
<1> DEFINE r == Head(proc[p].left)
           k == proc[p].count
           c == k + 1
           write == [op |-> "stub", row |-> r, part |-> PartOrder[k]]
           writes == {write}
           st == [proc[p] EXCEPT !.count = c]
           more == [st EXCEPT !.writes = @ \cup writes]
<1>1. /\ proc[p].pc = "stub" /\ command[p].type = "stub" /\ k <= 5
      /\ UNCHANGED <<command, written>>
      /\ proc[p] \in States /\ Sane(proc[p], command[p])
      /\ \/ Send(p, writes, st)
         \/ Go(p, To(p, "leave")) /\ UNCHANGED <<repo, stubs>>
         \/ Abort(p) /\ UNCHANGED <<repo, stubs>>
  BY ProcFacts DEF StubPart, Is, Logs
<1>2. /\ k \in 1..6 /\ proc[p].left # <<>> /\ proc[p].left \in Seq(StubRows)
      /\ \A j \in 1..(k - 1) : Made(proc[p], stubs, Target(proc[p]), PartOrder[j])
  BY <1>1 DEF Sane, StubInv, StubReady, Is
<1>3. r \in StubRows /\ r = Target(proc[p]) /\ c \in 1..6 /\ c \in Nat /\ c - 1 = k
      /\ PartOrder[k] \in Parts
  <2>1. k \in 1..5
    BY <1>1, <1>2
  <2>2. PartOrder[k] \in Parts
    BY <2>1 DEF PartOrder, Parts
  <2>3. r \in StubRows /\ r = Target(proc[p])
    BY <1>2, HeadAndTail DEF Target
  <2>4. c \in 1..6 /\ c \in Nat /\ c - 1 = k
    BY <2>1
  <2> QED BY <2>2, <2>3, <2>4
<1>4. writes \in SUBSET Writes
  BY <1>3 DEF Writes
<1>5. write.op = "stub" /\ write.row = r /\ write.part = PartOrder[k]
  OBVIOUS
<1>6. \A q : ~Answers(p, q)
  BY <1>1 DEF Answers
<1> HIDE DEF c, write, r
<1>7. /\ st.pc = "stub" /\ st.left = proc[p].left /\ st.writes = proc[p].writes /\ st.count = c
      /\ more.pc = "stub" /\ more.left = proc[p].left /\ more.count = c
      /\ more.writes = proc[p].writes \cup writes /\ st \in States
  BY <1>1, <1>3 DEF States
<1> HIDE DEF st, more
<1>8. CASE Abort(p) /\ UNCHANGED <<repo, stubs>>
  BY <1>1, <1>8, StubAbort, QuietStubs
<1>9. CASE Go(p, To(p, "leave")) /\ UNCHANGED <<repo, stubs>>
  <2>1. To(p, "leave").pc = "leave"
    BY <1>1 DEF To, States
  <2> QED BY <1>1, <1>6, <1>9, <2>1, StubKept, QuietStubs
<1>10. CASE Apply(writes) /\ Abort(p)
  BY <1>1, <1>4, <1>10, StubAbort, AppliedStubs
<1> DEFINE grown == \A q \in StubRows : stubs[q] \subseteq stubs'[q] /\ stubs'[q] \subseteq Parts
<1>11. ASSUME NEW s, s \in {st, more}, Go(p, s), grown,
              \A j \in 1..(c - 1) : Made(s, stubs', r, PartOrder[j])
       PROVE  StubInv'
  <2>1. s.pc = "stub" /\ s.count = c /\ Target(s) = r
    BY <1>3, <1>7, <1>11 DEF Target
  <2> QED BY <1>1, <1>3, <1>6, <1>11, <2>1, StubKept
<1>12. CASE Apply(writes) /\ Go(p, st)
  <2>1. grown /\ PartOrder[k] \in stubs'[r]
    BY <1>3, <1>4, <1>5, <1>12, AppliedStubs
  <2>3. \A part : Made(proc[p], stubs, r, part) => Made(st, stubs', r, part)
    BY <1>3, <1>7, <2>1 DEF Made
  <2>4. Made(st, stubs', r, PartOrder[k])
    BY <2>1 DEF Made
  <2>5. \A j \in 1..(c - 1) : j = k \/ j \in 1..(k - 1)
    BY <1>2, <1>3
  <2>6. \A j \in 1..(c - 1) : Made(st, stubs', r, PartOrder[j])
    BY <1>2, <1>3, <2>3, <2>4, <2>5
  <2> QED BY <1>11, <1>12, <2>1, <2>6
<1>13. CASE UNCHANGED <<repo, stubs>> /\ Go(p, more)
  <2>1. grown
    BY <1>13, QuietStubs
  <2>3. \A part : Made(proc[p], stubs, r, part) => Made(more, stubs', r, part)
    BY <1>3, <1>7, <1>13 DEF Made
  <2>4. Made(more, stubs', r, PartOrder[k])
    BY <1>5, <1>7 DEF Made
  <2>5. \A j \in 1..(c - 1) : j = k \/ j \in 1..(k - 1)
    BY <1>2, <1>3
  <2>6. \A j \in 1..(c - 1) : Made(more, stubs', r, PartOrder[j])
    BY <1>2, <1>3, <2>3, <2>4, <2>5
  <2> QED BY <1>11, <1>13, <2>1, <2>6
<1>14. CASE UNCHANGED <<repo, stubs>> /\ Abort(p)
  BY <1>8, <1>14
<1> QED BY <1>1, <1>8, <1>9, <1>10, <1>12, <1>13, <1>14 DEF Send, more

LEMMA WriteRowStep ==
  ASSUME StubInv, NEW p \in Procs, Core, WriteRow(p) PROVE StubInv'
<1> DEFINE r == Head(proc[p].left)  st == To(p, "leave")
<1>1. /\ proc[p].pc = "stub" /\ command[p].type = "stub" /\ proc[p].count = 6
      /\ written' = written \cup {r} /\ Go(p, st) /\ UNCHANGED <<stubs, command>>
      /\ proc[p] \in States /\ Sane(proc[p], command[p])
  BY ProcFacts DEF WriteRow, Is
<1>2. /\ proc[p].left # <<>> /\ proc[p].left \in Seq(StubRows)
      /\ \A j \in 1..5 : Made(proc[p], stubs, Target(proc[p]), PartOrder[j])
  BY <1>1 DEF Sane, StubInv, StubReady, Is
<1>3. r \in StubRows /\ r = Target(proc[p])
  BY <1>2, HeadAndTail DEF Target
<1>4. st.pc = "leave" /\ st.left = proc[p].left /\ st.writes = proc[p].writes
  BY <1>1 DEF To, States
<1> HIDE DEF st
<1>5. \A part \in Parts : Made(st, stubs', Target(proc[p]), part)
  <2>1. \A part \in Parts : \E j \in 1..5 : part = PartOrder[j]
    <3>1. /\ PartOrder[1] = "item" /\ PartOrder[2] = "container" /\ PartOrder[3] = "binary"
          /\ PartOrder[4] = "description" /\ PartOrder[5] = "link"
      BY DEF PartOrder
    <3>2. 1 \in 1..5 /\ 2 \in 1..5 /\ 3 \in 1..5 /\ 4 \in 1..5 /\ 5 \in 1..5
      OBVIOUS
    <3> QED BY <3>1, <3>2 DEF Parts
  <2>2. \A part \in Parts : Made(proc[p], stubs, Target(proc[p]), part)
    BY <1>2, <2>1
  <2> QED BY <1>1, <1>4, <2>2 DEF Made
<1>6. /\ proc'[p] = st
      /\ \A q \in Procs : q # p /\ Is(q, "stub", "stub")' =>
              /\ proc'[q].count \in 1..6
              /\ \A j \in 1..(proc'[q].count - 1) :
                   Made(proc'[q], stubs', Target(proc'[q]), PartOrder[j])
      /\ \A x \in written : \/ Whole(x)' \/ \E q \in Procs : Answers(q, x)'
                            \/ Answers(p, x)
  BY <1>1, OthersKept, QuietStubs
<1>7. \A x : x = Target(proc[p]) => Answers(p, x)'
  BY <1>1, <1>2, <1>4, <1>5, <1>6 DEF Answers, Target
<1>8. StubReady'
  <2> SUFFICES ASSUME NEW q \in Procs, Is(q, "stub", "stub")'
               PROVE  /\ proc'[q].count \in 1..6
                      /\ \A j \in 1..(proc'[q].count - 1) :
                           Made(proc'[q], stubs', Target(proc'[q]), PartOrder[j])
    BY DEF StubReady
  <2>1. q # p
    BY <1>4, <1>6 DEF Is
  <2> QED BY <1>6, <2>1
<1>9. RowsKept'
  <2>1. \A x \in written' : x \in written \/ x = Target(proc[p])
    BY <1>1, <1>3
  <2>2. \A x : ~Answers(p, x)
    BY <1>1 DEF Answers
  <2> QED BY <1>6, <1>7, <2>1, <2>2 DEF RowsKept
<1> QED BY <1>1, <1>3, <1>8, <1>9 DEF StubInv

(* The end of a row's transaction: what was made is there. *)
LEMMA StubLeaveStep ==
  ASSUME StubInv, NEW p \in Procs, Core, Leave(p) PROVE StubInv'
<1> DEFINE st == NextArgument(p)  writes == proc[p].writes
<1>1. /\ proc[p].pc = "leave" /\ proc[p].left # <<>> /\ UNCHANGED <<command, written>>
      /\ writes \in SUBSET Writes /\ proc[p] \in States
      /\ \/ Apply(writes) /\ Go(p, st)
         \/ Abort(p) /\ (Apply(writes) \/ UNCHANGED <<repo, stubs>>)
  BY LeaveFit, ProcFacts DEF Leave, Logs
<1>2. CASE Apply(writes) /\ Go(p, st)
  <2>1. \A r \in StubRows : stubs[r] \subseteq stubs'[r] /\ stubs'[r] \subseteq Parts
    BY <1>1, <1>2, AppliedStubs
  <2>2. st.pc = "next"
    BY <1>1 DEF NextArgument, States
  <2>3. ASSUME NEW r \in written, Answers(p, r) PROVE Whole(r)'
    <3>1. r \in StubRows /\ \A part \in Parts : Made(proc[p], stubs, r, part)
      BY <1>1, <2>3 DEF StubInv, Answers
    <3>2. \A part \in Parts : part \in stubs'[r]
      BY <1>1, <1>2, <2>1, <3>1, AppliedStubs DEF Made
    <3>3. stubs'[r] = Parts
      BY <2>1, <3>1, <3>2
    <3> QED BY <3>3 DEF Whole
  <2> HIDE DEF st
  <2> QED BY <1>1, <1>2, <2>1, <2>2, <2>3, StubKept
<1>3. CASE Abort(p) /\ (Apply(writes) \/ UNCHANGED <<repo, stubs>>)
  BY <1>1, <1>3, StubAbort, AppliedStubs, QuietStubs
<1> QED BY <1>1, <1>2, <1>3

LEMMA StubEnterStep ==
  ASSUME StubInv, NEW p \in Procs, Core, Enter(p) PROVE StubInv'
<1> DEFINE st == FirstStep(p)
<1>1. /\ proc[p].pc = "next" /\ UNCHANGED <<command, written, stubs>> /\ proc[p] \in States
      /\ Go(p, st) \/ Abort(p)
  BY ProcFacts DEF Enter, Ask, Logs
<1>2. command[p].type = "stub" => st.count = 1
  BY <1>1 DEF FirstStep, To, States
<1>3. \A r : ~Answers(p, r)
  BY <1>1 DEF Answers
<1> HIDE DEF st
<1>4. command[p].type = "stub" => st.count \in 1..6 /\ 1..(st.count - 1) = {}
  BY <1>2
<1>5. CASE Go(p, st)
  BY <1>1, <1>3, <1>4, <1>5, StubKept, QuietStubs
<1>6. CASE Abort(p)
  BY <1>1, <1>6, StubAbort, QuietStubs
<1> QED BY <1>1, <1>5, <1>6

(* The steps of the other commands. *)
LEMMA OtherStubStep ==
  ASSUME StubInv, NEW p \in Procs, Core, AllReady, NEW st, StepEffect(p, st),
         command[p].type # "stub", UNCHANGED written
  PROVE  StubInv'
<1>1. Go(p, st) /\ UNCHANGED command
  BY DEF StepEffect
<1>2. \A r \in StubRows : stubs[r] \subseteq stubs'[r] /\ stubs'[r] \subseteq Parts
  BY QuietStubs, AppliedStubs DEF StepEffect, SameEdits
<1>3. \A r : ~Answers(p, r)
  BY DEF Answers
<1> QED BY <1>1, <1>2, <1>3, StubKept

LEMMA StubStep ==
  ASSUME StubInv, NEW p \in Procs, Core, AllReady, Step(p) PROVE StubInv'
<1>1. Ready(p, proc[p]) /\ Sane(proc[p], command[p])
  BY ProcFacts DEF AllReady
<1>2. CASE command[p].type = "stub"
  <2>1. ~(Walk(p) \/ Check(p) \/ Put(p))
    BY <1>1, <1>2 DEF Walk, Look, Get, SendMessage, DryRun, Delete, SendDelete, Check, Put, Is,
                      Ready, Walking
  <2>2. ~(Read(p) \/ PutBinary(p) \/ Patch(p) \/ PatchOverWeb(p) \/ Annotate(p) \/ PutAnnotations(p))
    BY <1>1, <1>2 DEF Read, PutBinary, Patch, PatchOverWeb, Annotate, PutAnnotations, Is, Ready, Sane
  <2>3. CASE Finish(p)
    <3>1. /\ proc[p].pc = "next" /\ Go(p, To(p, "done")) /\ UNCHANGED <<command, written, stubs>>
          /\ To(p, "done").pc = "done"
      BY <2>3, ProcFacts DEF Finish, Logs, To, States
    <3>2. \A r : ~Answers(p, r)
      BY <3>1 DEF Answers
    <3> QED BY <3>1, <3>2, StubKept, QuietStubs
  <2> QED BY <2>1, <2>2, <2>3, StubEnterStep, StubLeaveStep, StubPartStep, WriteRowStep DEF Step
<1>3. CASE command[p].type # "stub"
  <2>1. UNCHANGED written
    BY <1>3 DEF Step, Enter, Finish, Leave, Walk, Look, Get, SendMessage, DryRun, Delete,
                SendDelete, Check, Put, Read, PutBinary, Patch, PatchOverWeb, Annotate,
                PutAnnotations, StubPart, WriteRow, Is, Logs
  <2>2. PICK st : StepEffect(p, st)
    BY StepEdits
  <2> QED BY <1>3, <2>1, <2>2, OtherStubStep
<1> QED BY <1>2, <1>3

LEMMA RowsAreWhole ==
  ASSUME StubInv PROVE WrittenIsWhole
<1> DEFINE rows == {r \in written : ~Whole(r)}
           all == {p \in Procs : command[p].type = "stub"}
           some == {p \in all : \E r \in rows : Answers(p, r)}
<1>1. IsFiniteSet(all)
  BY CommandAssumption, FS_Subset
<1>2. IsFiniteSet(some) /\ Cardinality(some) <= Cardinality(all)
  BY <1>1, FS_Subset
<1>3. \A r \in rows : \E p \in some : Target(proc[p]) = r
  BY DEF StubInv, RowsKept, Answers
<1>4. \A p \in some : Target(proc[p]) \in rows
  BY DEF Answers
<1>5. [p \in some |-> Target(proc[p])] \in Surjection(some, rows)
  BY <1>3, <1>4 DEF Surjection
<1>6. IsFiniteSet(rows) /\ Cardinality(rows) <= Cardinality(some)
  BY <1>2, <1>5, FS_Surjection
<1>7. /\ Cardinality(rows) \in Nat /\ Cardinality(some) \in Nat /\ Cardinality(all) \in Nat
  BY <1>1, <1>2, <1>6, FS_CardinalityType
<1> QED BY <1>2, <1>6, <1>7 DEF WrittenIsWhole

-----------------------------------------------------------------------------
EditsInv ==
  /\ AllReady /\ TitlesKept /\ TitlesAccepted /\ NamesKept /\ AnnotatedWhole /\ StubInv

LEMMA EditsInit == Init => EditsInv
<1> SUFFICES ASSUME Init PROVE EditsInv
  OBVIOUS
<1>1. TitlesAccepted /\ AnnotatedWhole
  BY CommandAssumption DEF Init, TitlesAccepted, AnnotatedWhole
<1>2. StubInv
  BY DEF Init, StubInv, StubReady, RowsKept, Is
<1> QED BY <1>1, <1>2, ReadyInit, TitlesInit, NamesInit DEF EditsInv

LEMMA EditsNext == CommandInv /\ EditsInv /\ [Next]_vars => EditsInv'
<1> SUFFICES ASSUME Core, EditsInv, [Next]_vars PROVE EditsInv'
  BY DEF CommandInv
<1>1. ASSUME NEW p \in Procs, Step(p) PROVE EditsInv'
  <2>1. PICK st : StepEffect(p, st)
    BY <1>1, StepEdits DEF EditsInv
  <2> QED BY <1>1, <2>1, ReadyStep, TitlesStep, AcceptedStep, NamesStep, AnnotatedStep, StubStep
             DEF EditsInv
<1>2. CASE UNCHANGED vars
  <2>1. UNCHANGED <<repo, stubs, command, proc, written>>
    BY <1>2 DEF vars
  <2>2. AllReady' /\ TitlesKept'
    <3>1. AllReady'
      BY <2>1 DEF EditsInv, AllReady, Ready, LeftOf, Request, WholeEdit
    <3>2. \A p, x : Visiting(p, x)' = Visiting(p, x) /\ Ahead(p, x)' = Ahead(p, x) /\ Wants(p)' = Wants(p)
      BY <2>1 DEF Visiting, Ahead, Wants
    <3>3. \A x : Editors(x)' = Editors(x) /\ AskedOnce(x)' = AskedOnce(x)
      BY <2>1 DEF Editors, AskedOnce
    <3>4. \A x : Untouched(x) => Untouched(x)'
      BY <2>1, <3>2, <3>3 DEF Untouched
    <3>5. \A x : Touched(x) => Touched(x)'
      BY <2>1, <3>2, <3>3 DEF Touched
    <3> QED BY <3>1, <3>4, <3>5 DEF EditsInv, TitlesKept
  <2>3. TitlesAccepted' /\ NamesKept' /\ AnnotatedWhole'
    BY <2>1 DEF EditsInv, TitlesAccepted, NamesKept, Lone, Visiting, Editors, AnnotatedWhole
  <2>4. StubInv'
    BY <2>1 DEF EditsInv, StubInv, StubReady, RowsKept, Answers, Whole, Is
  <2> QED BY <2>2, <2>3, <2>4 DEF EditsInv
<1> QED BY <1>1, <1>2 DEF Next

(* Whatever processes run, in any order and with any failing requests: a   *)
(* title has no more values than edits, and one at least where no two      *)
(* edits ask for the same; none that its model refuses unless nobody asked *)
(* it; the name of the file at hand, if only replace edits it; all         *)
(* annotations of a page or none; and rows are written for whole items,    *)
(* but for one row per process.                                            *)
THEOREM EditsWhole == Spec => []EditsAreWhole
<1>1. Init => CommandInv /\ EditsInv
  BY InitInv, EditsInit
<1>2. CommandInv /\ EditsInv /\ [Next]_vars => (CommandInv /\ EditsInv)'
  BY NextInv, EditsNext
<1>3. CommandInv /\ EditsInv => EditsAreWhole
  <2>1. NamesKept => TitleIsName
    BY DEF NamesKept, TitleIsName, Lone
  <2> QED BY <2>1, KeptIsBounded, RowsAreWhole DEF EditsInv, EditsAreWhole
<1> QED BY <1>1, <1>2, <1>3, PTL DEF Spec

=============================================================================

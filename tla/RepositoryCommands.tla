------------------------- MODULE RepositoryCommands -------------------------
(***************************************************************************)
(* The commands that work on the repository one request at a time: create, *)
(* delete, reindex, set, replace, annotate, extractocr and stub, and the   *)
(* PATCH of the web service, with or without a model.  Several processes   *)
(* run one command each over the same tree of resources, some in           *)
(* transactions; requests fail and connections break.                      *)
(***************************************************************************)
EXTENDS Integers, Sequences, FiniteSets

CONSTANTS Paths,
          Ancestors,   \* per path: its containers up to the root, nearest first
          Members,     \* per path: what a traversed predicate leads to, in order
          HtmlFiles,   \* per path: the number of its files to annotate from
          Living,      \* the paths that exist at first
          Values, Invalid,     \* titles; those that the model does not accept
          StubRows, Sourceless, \* rows of stub's CSV; those whose file is missing
          Procs, Commands,     \* processes; the commands they may run
          MaxFaults            \* bound on failing requests

CommandTypes == {"create", "delete", "reindex", "set", "replace", "annotate", "stub",
                 "web", "web_model"}

ASSUME CommandAssumption ==
  /\ Living \subseteq Paths
  /\ Ancestors \in [Paths -> Seq(Paths)] /\ Members \in [Paths -> Seq(Paths)]
  /\ HtmlFiles \in [Paths -> Nat] /\ Values # {} /\ Invalid \subseteq Values
  /\ Commands \subseteq [type : CommandTypes, args : Seq(Paths) \cup Seq(StubRows),
                         value : Values, recursive : BOOLEAN, tx : BOOLEAN, dry : BOOLEAN]
  /\ \A w \in Commands : w.args \in Seq(IF w.type = "stub" THEN StubRows ELSE Paths)
  /\ IsFiniteSet(Procs) /\ MaxFaults \in Nat

(* Only delete has a dry run; replace always opens a transaction.          *)
ASSUME UseAssumption ==
  \A w \in Commands : (w.dry => w.type = "delete") /\ (w.type = "replace" => w.tx)

Above(x) == {Ancestors[x][k] : k \in DOMAIN Ancestors[x]}

(* Paths form a tree: the ancestors of an ancestor come after it, and what *)
(* is there at first is in containers that are there.                      *)
ASSUME TreeAssumption ==
  \A x \in Paths : \A k \in DOMAIN Ancestors[x] :
    /\ \A z \in Above(Ancestors[x][k]) : \E j \in DOMAIN Ancestors[x] : j > k /\ Ancestors[x][j] = z
    /\ x \in Living => Ancestors[x][k] \in Living

VARIABLES
  repo,       \* per path: its status, titles, binary content and annotations
  stubs,      \* per row of stub's CSV: the parts of it in the repository
  command,    \* per process: the command it runs
  proc,       \* per process: its step, the arguments left, the paths to walk or
              \* check, the paths to create, the titles read, and the requests
              \* in its transaction
  completed,  \* delete's log of completed items
  messages,   \* what reindex has sent: a path and whether it was removed
  written,    \* the rows stub has written to its output with their URI
  faults

vars == <<repo, stubs, command, proc, completed, messages, written, faults>>

Parts == {"item", "container", "binary", "description", "link"}
Resources == [status : {"missing", "live", "gone"}, titles : SUBSET Values,
              content : Values, annotations : SUBSET (Procs \X Nat)]

Writes ==
  [op : {"delete"}, path : Paths] \cup [op : {"put"}, path : Paths, value : Values]
  \cup [op : {"patch"}, path : Paths, old : SUBSET Values, new : SUBSET Values]
  \cup [op : {"annotate"}, path : Paths, id : Procs \X Nat]
  \cup [op : {"stub"}, row : StubRows, part : Parts]

Steps == {"next", "look", "get", "act", "delete", "check", "put", "read", "edit", "binary",
          "patch", "annotate", "container", "stub", "leave", "done", "aborted"}
States == [pc : Steps, left : Seq(Paths) \cup Seq(StubRows), stack : Seq(Paths),
           todo : Seq(Paths), read : SUBSET Values, count : Nat, writes : SUBSET Writes]

TypeOK ==
  /\ repo \in [Paths -> Resources]
  /\ stubs \in [StubRows -> SUBSET Parts]
  /\ command \in [Procs -> Commands]
  /\ proc \in [Procs -> States]
  /\ \A p \in Procs :
       /\ proc[p].left \in Seq(IF command[p].type = "stub" THEN StubRows ELSE Paths)
       /\ proc[p].pc \in {"look", "get", "act", "delete", "check", "edit", "patch"} => proc[p].stack # <<>>
  /\ completed \subseteq Paths /\ written \subseteq StubRows
  /\ messages \subseteq [path : Paths, removed : BOOLEAN]
  /\ faults \in 0..MaxFaults

Init ==
  /\ \E v \in Values \ Invalid :
       repo = [x \in Paths |-> [status |-> IF x \in Living THEN "live" ELSE "missing",
                                titles |-> {v}, content |-> v, annotations |-> {}]]
  /\ stubs = [r \in StubRows |-> {}]
  /\ command \in [Procs -> Commands]
  /\ proc = [p \in Procs |-> [pc |-> "next", left |-> command[p].args, stack |-> <<>>,
                              todo |-> <<>>, read |-> {}, count |-> 0, writes |-> {}]]
  /\ completed = {} /\ messages = {} /\ written = {} /\ faults = 0

Fault == faults < MaxFaults /\ faults' = faults + 1

-----------------------------------------------------------------------------
(* The repository. *)

Below(x) == {y \in Paths : y = x \/ x \in Above(y)}

(* What a set of accepted requests makes of a resource.  A DELETE removes  *)
(* what the resource contains and leaves tombstones; a PATCH carries the   *)
(* difference between what was read and what is wanted.                    *)
Change(x, resource, writes) ==
  LET on(op) == {w \in writes : w.op = op /\ x = w.path}
      old == UNION {w.old \ w.new : w \in on("patch")}
      new == UNION {w.new \ w.old : w \in on("patch")}
      gone == \E w \in writes : w.op = "delete" /\ x \in Below(w.path)
  IN [status |-> IF gone /\ resource.status = "live" THEN "gone" ELSE resource.status,
      titles |-> (resource.titles \ old) \cup new,
      content |-> IF on("put") = {} THEN resource.content ELSE (CHOOSE w \in on("put") : TRUE).value,
      annotations |-> resource.annotations \cup {w.id : w \in on("annotate")}]

Apply(writes) ==
  /\ repo' = [x \in Paths |-> Change(x, repo[x], {w \in writes : w.op # "stub"})]
  /\ stubs' = [r \in StubRows |->
                 stubs[r] \cup {w.part : w \in {v \in writes : v.op = "stub" /\ v.row = r}}]

(* A process sees the repository with the requests of its transaction.     *)
Live(p, x) ==
  /\ repo[x].status = "live"
  /\ \A w \in proc[p].writes : w.op = "delete" => x \notin Below(w.path)

InTransaction(p) == command[p].tx /\ ~command[p].dry

Is(p, type, pc) == command[p].type = type /\ proc[p].pc = pc
Go(p, state) == proc' = [proc EXCEPT ![p] = state]
To(p, pc) == [proc[p] EXCEPT !.pc = pc]

(* An exception ends the command; an open transaction is rolled back.      *)
Abort(p) == Go(p, [proc[p] EXCEPT !.pc = "aborted", !.writes = {}])

(* A request: accepted, or failing before or after the server has it.      *)
Send(p, writes, next) ==
  IF InTransaction(p)
  THEN /\ UNCHANGED <<repo, stubs>>
       /\ \/ Go(p, [next EXCEPT !.writes = @ \cup writes]) /\ UNCHANGED faults
          \/ Fault /\ Abort(p)
  ELSE \/ Apply(writes) /\ Go(p, next) /\ UNCHANGED faults
       \/ Fault /\ Abort(p) /\ (Apply(writes) \/ UNCHANGED <<repo, stubs>>)

(* A request that only reads. *)
Ask(p, next) ==
  /\ UNCHANGED <<repo, stubs>>
  /\ \/ Go(p, next) /\ UNCHANGED faults
     \/ Fault /\ Abort(p)

(* HEAD: any error status counts as not there. *)
Probe(p, x, found, missing) ==
  /\ UNCHANGED <<repo, stubs>>
  /\ \/ Go(p, IF Live(p, x) THEN found ELSE missing) /\ UNCHANGED faults
     \/ Live(p, x) /\ Fault /\ Go(p, missing)
     \/ Fault /\ Abort(p)

Logs == <<completed, messages, written>>

-----------------------------------------------------------------------------
(* The loop over the arguments, each in a transaction if asked for.        *)

FirstStep(p) ==
  LET x == Head(proc[p].left)  state == [proc[p] EXCEPT !.stack = <<x>>, !.todo = <<>>] IN
  CASE command[p].type \in {"delete", "reindex"} -> [state EXCEPT !.pc = "look"]
    [] command[p].type = "create" -> [state EXCEPT !.pc = "check", !.stack = <<x>> \o Ancestors[x]]
    [] command[p].type = "stub" -> [To(p, "stub") EXCEPT !.count = 1]
    [] OTHER -> [state EXCEPT !.pc = "read"]

Enter(p) ==
  /\ proc[p].pc = "next" /\ proc[p].left # <<>>
  /\ Ask(p, FirstStep(p))
  /\ UNCHANGED <<command, Logs>>

Finish(p) ==
  /\ proc[p].pc = "next" /\ proc[p].left = <<>>
  /\ Go(p, To(p, "done"))
  /\ UNCHANGED <<repo, stubs, command, Logs, faults>>

NextArgument(p) == [proc[p] EXCEPT !.pc = "next", !.left = Tail(@), !.writes = {}]

(* The end of the with statement. *)
Leave(p) ==
  /\ proc[p].pc = "leave"
  /\ \/ Apply(proc[p].writes) /\ Go(p, NextArgument(p)) /\ UNCHANGED faults
     \/ /\ InTransaction(p) /\ Fault /\ Abort(p)
        /\ Apply(proc[p].writes) \/ UNCHANGED <<repo, stubs>>
  /\ UNCHANGED <<command, Logs>>

-----------------------------------------------------------------------------
(* walk(): delete and reindex. *)

Here(p) == Head(proc[p].stack)
Skip(p) ==
  [proc[p] EXCEPT !.stack = Tail(@), !.pc = IF Tail(proc[p].stack) = <<>> THEN "leave" ELSE "look"]

DescendFurther(p) ==
  [proc[p] EXCEPT !.pc = "look",
     !.stack = (IF command[p].recursive THEN Members[Here(p)] ELSE <<>>) \o Tail(@)]

(* What the resource that was read links to is visited next. *)
Descend(p) ==
  LET rest == (IF command[p].recursive THEN Members[Here(p)] ELSE <<>>) \o Tail(proc[p].stack)
  IN [proc[p] EXCEPT !.stack = rest, !.pc = IF rest = <<>> THEN "leave" ELSE "look"]

(* is_gone and exists.  The tombstone of the first resource is reindexed   *)
(* too; walk() does not pass include_tombstones on, so others are not.     *)
Look(p) ==
  /\ proc[p].pc = "look"
  /\ IF command[p].type = "reindex" /\ Here(p) = Head(proc[p].left) /\ repo[Here(p)].status = "gone"
     THEN /\ Ask(p, Skip(p))
          /\ messages' = IF proc'[p].pc = "aborted" THEN messages
                         ELSE messages \cup {[path |-> Here(p), removed |-> TRUE]}
     ELSE Probe(p, Here(p), To(p, "get"), Skip(p)) /\ UNCHANGED messages
  /\ UNCHANGED <<command, completed, written>>

(* read(): of a resource removed since, delete takes a 404 or 410 of the   *)
(* GET request as the end of this walk, but not one of its HEAD request.   *)
Get(p) ==
  /\ proc[p].pc = "get"
  /\ IF Live(p, Here(p))
     THEN Ask(p, To(p, "act"))
     ELSE /\ \/ Abort(p)
             \/ command[p].type = "delete" /\ Go(p, [To(p, "leave") EXCEPT !.stack = <<>>])
          /\ UNCHANGED <<repo, stubs, faults>>
  /\ UNCHANGED <<command, Logs>>

SendMessage(p) ==
  /\ Is(p, "reindex", "act")
  /\ messages' = messages \cup {[path |-> Here(p), removed |-> FALSE]}
  /\ Go(p, Descend(p))
  /\ UNCHANGED <<repo, stubs, command, completed, written, faults>>

DryRunLogged(p) ==
  /\ Is(p, "delete", "act") /\ command[p].dry
  /\ Go(p, Descend(p))
  /\ completed' = completed \cup {Here(p)}
  /\ UNCHANGED <<repo, stubs, command, messages, written, faults>>

DryRun(p) ==
  /\ Is(p, "delete", "act") /\ command[p].dry
  /\ Go(p, Descend(p))
  /\ UNCHANGED <<repo, stubs, command, Logs, faults>>

(* delete() asks again whether the resource exists; if not, it only says   *)
(* so, and the command logs it as deleted.                                 *)
Delete(p) ==
  /\ Is(p, "delete", "act") /\ ~command[p].dry
  /\ Probe(p, Here(p), To(p, "delete"), Descend(p))
  /\ completed' = IF proc'[p] = Descend(p) THEN completed \cup {Here(p)} ELSE completed
  /\ UNCHANGED <<command, messages, written>>

SendDelete(p) ==
  /\ Is(p, "delete", "delete")
  /\ IF Live(p, Here(p))
     THEN Send(p, {[op |-> "delete", path |-> Here(p)]}, Descend(p))
     ELSE Abort(p) /\ UNCHANGED <<repo, stubs, faults>>
  /\ completed' = IF proc'[p].pc = "aborted" THEN completed ELSE completed \cup {Here(p)}
  /\ UNCHANGED <<command, messages, written>>

Walk(p) == Look(p) \/ Get(p) \/ SendMessage(p) \/ DryRun(p) \/ Delete(p) \/ SendDelete(p)

-----------------------------------------------------------------------------
(* create_at_path(): the path and all its ancestors are checked, and those *)
(* not found are put, shortest path first.                                 *)

CheckLongestFirst(p) ==
  LET rest == Tail(proc[p].stack)
      next == IF rest = <<>> THEN "put" ELSE "check"
      isTarget == Here(p) = Head(proc[p].left)
      found == [proc[p] EXCEPT !.stack = rest, !.pc = IF isTarget THEN "leave" ELSE next]
      missing == [proc[p] EXCEPT !.stack = rest, !.pc = next, !.todo = Append(@, Here(p))]
  IN /\ proc[p].pc = "check"
     /\ Probe(p, Here(p), found, missing)
     /\ UNCHANGED <<command, Logs>>

Check(p) ==
  LET rest == Tail(proc[p].stack)
      next == IF rest = <<>> THEN "put" ELSE "check"
      isTarget == Here(p) = Head(proc[p].left)
      found == [proc[p] EXCEPT !.stack = rest, !.pc = IF isTarget THEN "leave" ELSE next]
      missing == [proc[p] EXCEPT !.stack = rest, !.pc = next, !.todo = <<Here(p)>> \o @]
  IN /\ proc[p].pc = "check"
     /\ Probe(p, Here(p), found, missing)
     /\ UNCHANGED <<command, Logs>>

(* PUT.  Any answer but 201 is a ClientError: what exists already, has a   *)
(* tombstone, or is below one.                                             *)
Refused(x) ==
  \/ repo[x].status # "missing"
  \/ \E z \in Above(x) : repo[z].status = "gone"

Put(p) ==
  LET x == Head(proc[p].todo)
      created == repo' = [repo EXCEPT ![x].status = "live"] /\ UNCHANGED stubs
      rest == Tail(proc[p].todo)
  IN /\ proc[p].pc = "put"
     /\ IF proc[p].todo = <<>>
        THEN Go(p, To(p, "leave")) /\ UNCHANGED <<repo, stubs, faults>>
        ELSE IF Refused(x)
             THEN Abort(p) /\ UNCHANGED <<repo, stubs, faults>>
             ELSE \/ created /\ Go(p, [proc[p] EXCEPT !.todo = rest]) /\ UNCHANGED faults
                  \/ Fault /\ Abort(p) /\ (created \/ UNCHANGED <<repo, stubs>>)
     /\ UNCHANGED <<command, Logs>>

-----------------------------------------------------------------------------
(* set and replace, annotate and extractocr: read, then send requests.     *)

Read(p) ==
  LET x == Here(p)  c == command[p]
      next == CASE c.type = "set" -> "patch"
                [] c.type \in {"web", "web_model"} -> "edit"
                [] c.type = "replace" -> "binary"
                [] c.type = "annotate" -> IF HtmlFiles[x] = 0 THEN "leave" ELSE "annotate"
  IN /\ proc[p].pc = "read"
     /\ IF Live(p, x)
        THEN Ask(p, [proc[p] EXCEPT !.pc = next, !.read = repo[x].titles, !.count = 0])
        ELSE Abort(p) /\ UNCHANGED <<repo, stubs, faults>>
     /\ UNCHANGED <<command, Logs>>

PutBinary(p) ==
  /\ Is(p, "replace", "binary")
  /\ IF Live(p, Here(p))
     THEN Send(p, {[op |-> "put", path |-> Here(p), value |-> command[p].value]}, To(p, "patch"))
     ELSE Abort(p) /\ UNCHANGED <<repo, stubs, faults>>
  /\ UNCHANGED <<command, Logs>>

PatchOnlyInserts(p) ==
  LET c == command[p] IN
  /\ proc[p].pc = "patch"
  /\ IF (c.type = "set" /\ c.value \in Invalid) \/ ~Live(p, Here(p))
     THEN Go(p, To(p, "leave")) /\ UNCHANGED <<repo, stubs, faults>>
     ELSE Send(p, {[op |-> "patch", path |-> Here(p), old |-> {}, new |-> {c.value}]}, To(p, "leave"))
  /\ UNCHANGED <<command, Logs>>

(* The title becomes the new value; set validates the result, and skips    *)
(* the resource if it is invalid.  Without a change there is no request.   *)
Patch(p) ==
  LET c == command[p]  new == {c.value}  old == proc[p].read IN
  /\ proc[p].pc = "patch"
  /\ IF (c.type = "set" /\ c.value \in Invalid) \/ old = new
     THEN Go(p, To(p, "leave")) /\ UNCHANGED <<repo, stubs, faults>>
     ELSE IF Live(p, Here(p))
          THEN Send(p, {[op |-> "patch", path |-> Here(p), old |-> old, new |-> new]}, To(p, "leave"))
          ELSE Abort(p) /\ UNCHANGED <<repo, stubs, faults>>
  /\ UNCHANGED <<command, Logs>>

(* The web service's PATCH: the SPARQL update is applied to what was read, *)
(* and the result validated if the request names a model.  Every failure   *)
(* is an error response.                                                   *)
PatchOverWeb(p) ==
  LET c == command[p]  new == {c.value}  old == proc[p].read IN
  /\ proc[p].pc = "edit"
  /\ IF (c.type = "web_model" /\ c.value \in Invalid) \/ (old # new /\ ~Live(p, Here(p)))
     THEN Abort(p) /\ UNCHANGED <<repo, stubs, faults>>
     ELSE IF old = new
          THEN Go(p, To(p, "leave")) /\ UNCHANGED <<repo, stubs, faults>>
          ELSE Send(p, {[op |-> "patch", path |-> Here(p), old |-> old, new |-> new]}, To(p, "leave"))
  /\ UNCHANGED <<command, Logs>>

(* One annotation per HTML file or text block, in the page's container for *)
(* annotations (number 0), which is made if a HEAD request does not find   *)
(* it.                                                                     *)
HasContainer(p, x) ==
  \E id \in repo[x].annotations \cup {w.id : w \in {v \in proc[p].writes : v.op = "annotate"}} :
     id[2] = 0

SendAnnotation(p, next) ==
  IF Live(p, Here(p)) /\ ~(proc[p].count = 0 /\ HasContainer(p, Here(p)))
  THEN Send(p, {[op |-> "annotate", path |-> Here(p), id |-> <<p, proc[p].count>>]}, next)
  ELSE Abort(p) /\ UNCHANGED <<repo, stubs, faults>>

Annotate(p) ==
  LET x == Here(p)  k == proc[p].count
      found == [proc[p] EXCEPT !.count = 1] IN
  /\ Is(p, "annotate", "annotate")
  /\ IF k = 0
     THEN Ask(p, IF HasContainer(p, x) THEN found ELSE To(p, "container"))
     ELSE SendAnnotation(p, [proc[p] EXCEPT !.count = k + 1,
                                            !.pc = IF k = HtmlFiles[x] THEN "leave" ELSE @])
  /\ UNCHANGED <<command, Logs>>

PutAnnotations(p) ==
  /\ Is(p, "annotate", "container")
  /\ SendAnnotation(p, [To(p, "annotate") EXCEPT !.count = 1])
  /\ UNCHANGED <<command, Logs>>

-----------------------------------------------------------------------------
(* stub: the item, its files container, the binary, the description of the *)
(* binary and the link to it, in this order.                               *)

PartOrder == <<"item", "container", "binary", "description", "link">>

(* A ClientError of a POST or PUT is caught inside the with statement,     *)
(* whose end commits what there is; a missing file and the RepositoryError *)
(* of a PATCH are not caught.                                              *)
StubPart(p) ==
  LET r == Head(proc[p].left)  k == proc[p].count  part == PartOrder[k] IN
  /\ Is(p, "stub", "stub") /\ k <= 5
  /\ IF part = "binary" /\ r \in Sourceless
     THEN Abort(p) /\ UNCHANGED <<repo, stubs, faults>>
     ELSE \/ Send(p, {[op |-> "stub", row |-> r, part |-> part]}, [proc[p] EXCEPT !.count = k + 1])
          \/ /\ k <= 3 /\ Fault /\ Go(p, To(p, "leave"))
             /\ UNCHANGED <<repo, stubs>>
  /\ UNCHANGED <<command, Logs>>

WriteRow(p) ==
  /\ Is(p, "stub", "stub") /\ proc[p].count = 6
  /\ written' = written \cup {Head(proc[p].left)}
  /\ Go(p, To(p, "leave"))
  /\ UNCHANGED <<repo, stubs, command, completed, messages, faults>>

-----------------------------------------------------------------------------
Step(p) ==
  \/ Enter(p) \/ Finish(p) \/ Leave(p) \/ Walk(p) \/ Check(p) \/ Put(p) \/ Read(p) \/ PutBinary(p)
  \/ Patch(p) \/ PatchOverWeb(p) \/ Annotate(p) \/ PutAnnotations(p) \/ StubPart(p) \/ WriteRow(p)

Next == \E p \in Procs : Step(p)

Spec == Init /\ [][Next]_vars

-----------------------------------------------------------------------------
(* Properties. *)

(* delete's log records "the URIs of deleted resources" (delete.py:47).    *)
(* Without transactions, what is in it is gone, but for one resource per   *)
(* failed HEAD request, which delete() takes for a resource that is gone.  *)
DeleteLogIsTrue ==
  (\A p \in Procs : command[p].type = "delete" => ~command[p].tx) =>
    Cardinality({x \in completed : repo[x].status = "live"}) <= faults

(* Whatever create and delete do to each other, no resource is left        *)
(* without its ancestors: paths are put shortest first (base.py:199), and  *)
(* a removed ancestor leaves a tombstone.                                  *)
TreeIsClosed ==
  \A x \in Paths : repo[x].status = "live" =>
    \A z \in Above(x) : repo[z].status = "live"

Editors(x) == {p \in Procs : command[p].type \in {"set", "replace", "web", "web_model"}
                              /\ x \in {command[p].args[k] : k \in DOMAIN command[p].args}}

(* Processes that set a title at the same time each delete what they have  *)
(* read and insert their own: a title may get as many values as there are  *)
(* processes that edit it, but never more.  It never loses all of them,    *)
(* unless several edits ask for the same value: two that read the values   *)
(* {1, 2} when one wants 1 and the other 2 leave none.                     *)
AskedOnce(x) ==
  /\ \A p, q \in Editors(x) : command[p].value = command[q].value => p = q
  /\ \A p \in Editors(x) : \A j, k \in DOMAIN command[p].args :
       command[p].args[j] = x /\ command[p].args[k] = x => j = k
TitlesBounded ==
  \A x \in Paths :
    /\ \/ Cardinality(repo[x].titles) <= 1
       \/ Cardinality(repo[x].titles) <= Cardinality(Editors(x))
    /\ AskedOnce(x) => repo[x].titles # {}

(* A title the model does not accept gets in only by a PATCH request that  *)
(* names no model, or as the name of a replaced file.                      *)
TitlesAccepted ==
  \A x \in Paths, v \in Invalid : v \in repo[x].titles =>
    \E p \in Editors(x) : command[p].type \in {"web", "replace"} /\ command[p].value = v

(* replace changes a binary and its title together: while one process      *)
(* edits at a time the title is the name of the file that is there.        *)
TitleIsName ==
  \A x \in Paths :
    (\A p, q \in Editors(x) : p = q /\ command[p].type = "replace")
      => repo[x].titles = {repo[x].content}

(* annotate leaves all annotations of a page or none, in its transaction.  *)
AnnotatedWhole ==
  \A p \in Procs, x \in Paths :
    LET made == {k \in 1..HtmlFiles[x] : <<p, k>> \in repo[x].annotations}
    IN command[p].tx => made \in {{}, 1..HtmlFiles[x]}

(* The URI that stub writes to its output is that of a whole item, but for *)
(* the one row whose commit fails, which ends the command.                 *)
Whole(r) == stubs[r] = Parts
WrittenIsWhole ==
  Cardinality({r \in written : ~Whole(r)}) <= Cardinality({p \in Procs : command[p].type = "stub"})

(* The edits of all commands together (the parts are described above).     *)
EditsAreWhole == TitlesBounded /\ TitlesAccepted /\ TitleIsName /\ AnnotatedWhole /\ WrittenIsWhole
=============================================================================

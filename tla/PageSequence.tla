---------------------------- MODULE PageSequence ----------------------------
(***************************************************************************)
(* The pages of one item: create_page_sequence() makes the page resources, *)
(* their files and the chain of proxies that orders them, request by       *)
(* request; get_sequence() follows the chain, a request for every proxy;   *)
(* fixpageorder reads the chain and relinks its proxies by the page        *)
(* numbers in their titles.                                                *)
(***************************************************************************)
EXTENDS Integers, Sequences, FiniteSets

CONSTANTS Files,      \* file names
          Rows,       \* the file groups an item may have, in row order: is
                      \* there a page number in its label, which, and its files
          Fixers,     \* processes that run fixpageorder
          MaxFixes,   \* bound on the runs of fixpageorder
          MaxFollow,  \* bound on the proxies one iteration follows
          MaxFaults   \* bound on failing requests

ASSUME PageAssumption ==
  /\ Rows \subseteq Seq([numbered : BOOLEAN, number : Nat, files : Seq(Files)]) /\ <<>> \notin Rows
  /\ MaxFixes \in Nat /\ MaxFollow \in Nat /\ MaxFaults \in Nat

VARIABLES
  row, tx,    \* the file groups; does the caller use a transaction?
  repo,       \* the item as everybody sees it
  txn,        \* the item as the creator's transaction sees it
  creator,    \* create_page_sequence(): its step, page and the files left
  fixer,      \* per fixer: its step, the proxy to read, what it has read, the
              \* positions to relink, what its transaction holds
  reader,     \* an export: its step, the proxy to read, what it has yielded
  relinked,   \* has a fixer committed since the reader began?
  overlapped, \* have two runs of fixpageorder been going on at once?
  fixes, faults

vars == <<row, tx, repo, txn, creator, fixer, reader, relinked, overlapped,
          fixes, faults>>

Pages == 1..Len(row)
None == 0
Number(p) == row[p].number

(* The item before: no container, page, file or proxy.                     *)
Bare == [members_container |-> FALSE, proxies_container |-> FALSE,
         pages |-> {}, files_containers |-> {}, binaries |-> {}, described |-> {},
         has_file |-> {}, has_member |-> {}, proxies |-> {},
         prev |-> [p \in Pages |-> {}], next |-> [p \in Pages |-> {}],
         first |-> None, last |-> None]

Items ==
  [members_container : BOOLEAN, proxies_container : BOOLEAN,
   pages : SUBSET Pages, files_containers : SUBSET Pages, binaries : SUBSET (Pages \X Files),
   described : SUBSET (Pages \X Files), has_file : SUBSET (Pages \X Files),
   has_member : SUBSET Pages, proxies : SUBSET Pages,
   prev : [Pages -> SUBSET Pages], next : [Pages -> SUBSET Pages],
   first : Pages \cup {None}, last : Pages \cup {None}]

Links == [proxy : Pages, prev : SUBSET Pages, next : SUBSET Pages]

TypeOK ==
  /\ row \in Rows /\ tx \in BOOLEAN
  /\ repo \in Items /\ txn \in Items
  /\ creator \in [pc : {"members", "put_members", "page", "files", "put_files", "binary",
                        "describe", "attach", "member", "reread", "proxies", "proxy", "link",
                        "finish", "commit", "done", "failed"},
                  page : Pages, left : Seq(Files)]
  /\ creator.pc \in {"files", "put_files", "binary", "describe", "attach"} => creator.left # <<>>
  /\ fixer \in [Fixers -> [pc : {"idle", "follow", "patch", "commit"}, dry : BOOLEAN,
                           at : Pages \cup {None}, got : Seq(Links), todo : Nat,
                           writes : SUBSET [old : Links, new : Links]]]
  /\ reader \in [pc : {"idle", "follow", "done", "failed"}, at : Pages \cup {None},
                 yielded : Seq([page : Pages, files : SUBSET Files])]
  /\ relinked \in BOOLEAN /\ overlapped \in BOOLEAN
  /\ fixes \in 0..MaxFixes /\ faults \in 0..MaxFaults

NotFixing == [pc |-> "idle", dry |-> FALSE, at |-> None, got |-> <<>>, todo |-> 0,
              writes |-> {}]

Init ==
  /\ row \in Rows /\ tx \in BOOLEAN
  /\ repo = Bare /\ txn = Bare
  /\ creator = [pc |-> "members", page |-> 1, left |-> row[1].files]
  /\ fixer = [x \in Fixers |-> NotFixing]
  /\ reader = [pc |-> "idle", at |-> None, yielded |-> <<>>]
  /\ relinked = FALSE /\ overlapped = FALSE /\ fixes = 0 /\ faults = 0

Fault == faults < MaxFaults /\ faults' = faults + 1
Others == <<row, tx, fixer, reader, relinked, overlapped, fixes>>

-----------------------------------------------------------------------------
(* create_page_sequence(). *)

work == IF tx THEN txn ELSE repo

Keep(w) == IF tx THEN txn' = w /\ UNCHANGED repo ELSE repo' = w /\ UNCHANGED txn

(* The exception of a failing request, which the server may have carried   *)
(* out, goes through every caller; a transaction is rolled back.           *)
Fails(w) ==
  /\ Fault
  /\ creator' = [creator EXCEPT !.pc = "failed"]
  /\ txn' = Bare
  /\ repo' \in IF tx THEN {repo} ELSE {repo, w}

(* A request that turns the item into w, and what is done next. *)
Request(w, next) ==
  /\ \/ Keep(w) /\ creator' = next /\ UNCHANGED faults
     \/ Fails(w)
  /\ UNCHANGED Others

To(pc) == [creator EXCEPT !.pc = pc]
n == creator.page
file == <<n, Head(creator.left)>>

(* exists: any error status of the HEAD request counts as not there. *)
Exists(there, found, missing) ==
  \/ Request(work, To(IF there THEN found ELSE missing))
  \/ /\ there /\ Fault /\ creator' = To(missing)
     /\ UNCHANGED <<repo, txn>> /\ UNCHANGED Others

(* PUT of a container: for one that exists the answer is not 201, which is *)
(* a ClientError.                                                          *)
PutContainer(there, w, next) ==
  IF there
  THEN /\ creator' = To("failed") /\ txn' = Bare
       /\ UNCHANGED <<repo, faults>> /\ UNCHANGED Others
  ELSE Request(w, next)

HeadMembers ==
  creator.pc = "members" /\ Exists(work.members_container, "page", "put_members")

PutMembers ==
  /\ creator.pc = "put_members"
  /\ PutContainer(work.members_container, [work EXCEPT !.members_container = TRUE], To("page"))

WithSomeFiles(left) == [creator EXCEPT !.left = left, !.pc = "files"]

WithFiles(left) == [creator EXCEPT !.left = left, !.pc = IF left = <<>> THEN "member" ELSE "files"]

PostPage ==
  /\ creator.pc = "page"
  /\ Request([work EXCEPT !.pages = @ \cup {n}], WithFiles(creator.left))

HeadFiles ==
  creator.pc = "files" /\ Exists(n \in work.files_containers, "binary", "put_files")

PutFiles ==
  /\ creator.pc = "put_files"
  /\ PutContainer(n \in work.files_containers,
                  [work EXCEPT !.files_containers = @ \cup {n}], To("binary"))

(* The binary with its digest; a source that cannot be read fails alike. *)
PostBinary ==
  /\ creator.pc = "binary"
  /\ Request([work EXCEPT !.binaries = @ \cup {file}], To("describe"))

(* file_resource.update(): title, fileOf and types of the file. *)
PatchFile ==
  /\ creator.pc = "describe"
  /\ Request([work EXCEPT !.described = @ \cup {file}], To("attach"))

(* self.update() of the page: hasFile. *)
AttachFile ==
  /\ creator.pc = "attach"
  /\ Request([work EXCEPT !.has_file = @ \cup {file}], WithFiles(Tail(creator.left)))

(* self.update() of the item: hasMember. *)
PatchMember ==
  /\ creator.pc = "member"
  /\ Request([work EXCEPT !.has_member = @ \cup {n}], To("reread"))

(* The new page is read again for the proxy's title. *)
RereadPage ==
  /\ creator.pc = "reread"
  /\ Request(work, To(IF work.proxies_container THEN "proxy" ELSE "proxies"))

PostProxies ==
  /\ creator.pc = "proxies"
  /\ Request([work EXCEPT !.proxies_container = TRUE], To("proxy"))

PostProxyAndFirst ==
  /\ creator.pc = "proxy"
  /\ Request([work EXCEPT !.proxies = @ \cup {n}, !.first = 1, !.last = n],
             IF n < Len(row)
             THEN [pc |-> "members", page |-> n + 1, left |-> row[n + 1].files]
             ELSE [pc |-> "link", page |-> 1, left |-> <<>>])

(* create_proxy() for one page; then the generator makes the next page.    *)
PostProxy ==
  /\ creator.pc = "proxy"
  /\ Request([work EXCEPT !.proxies = @ \cup {n}],
             IF n < Len(row)
             THEN [pc |-> "members", page |-> n + 1, left |-> row[n + 1].files]
             ELSE [pc |-> "link", page |-> 1, left |-> <<>>])

Before(p) == {q \in Pages : q = p - 1}

After(p) == {q \in Pages : q = p + 1}

LinkProxy ==
  /\ creator.pc = "link"
  /\ Request([work EXCEPT !.prev[n] = Before(n), !.next[n] = After(n)],
             IF n < Len(row) THEN [creator EXCEPT !.page = n + 1] ELSE To("finish"))

(* The last update of the item makes the chain visible. *)
PatchFirst ==
  /\ creator.pc = "finish"
  /\ Request([work EXCEPT !.first = 1, !.last = Len(row)], To(IF tx THEN "commit" ELSE "done"))

Commit ==
  /\ creator.pc = "commit"
  /\ \/ /\ repo' = txn /\ creator' = To("done") /\ UNCHANGED faults
     \/ /\ Fault /\ creator' = To("failed") /\ repo' \in {repo, txn}
  /\ UNCHANGED txn /\ UNCHANGED Others

Create ==
  \/ HeadMembers \/ PutMembers \/ PostPage \/ HeadFiles \/ PutFiles \/ PostBinary \/ PatchFile
  \/ AttachFile \/ PatchMember \/ RereadPage \/ PostProxies \/ PostProxy \/ LinkProxy
  \/ PatchFirst \/ Commit

-----------------------------------------------------------------------------
(* Following the chain. *)

(* next.value: any of the values, None if there is none. *)
Value(values) == IF values = {} THEN {None} ELSE values

AttachedTo(p) == {f \in Files : <<p, f>> \in repo.has_file}

Mine == <<row, tx, repo, txn, creator, overlapped>>

(* iter(): the item is read for its first proxy. *)
BeginReading ==
  /\ reader.pc = "idle"
  /\ \/ /\ reader' = [reader EXCEPT !.pc = "follow", !.at = repo.first] /\ UNCHANGED faults
     \/ /\ Fault /\ reader' = [reader EXCEPT !.pc = "failed"]
  /\ relinked' = FALSE
  /\ UNCHANGED Mine /\ UNCHANGED <<fixer, fixes>>

(* A proxy, the page it stands for and the files of that page. *)
ReadNext ==
  /\ reader.pc = "follow" /\ reader.at # None /\ Len(reader.yielded) < MaxFollow
  /\ \/ /\ \E q \in Value(repo.next[reader.at]) : reader' = [reader EXCEPT
             !.at = q,
             !.yielded = Append(@, [page |-> reader.at, files |-> AttachedTo(reader.at)])]
        /\ UNCHANGED faults
     \/ /\ Fault /\ reader' = [reader EXCEPT !.pc = "failed"]
  /\ UNCHANGED Mine /\ UNCHANGED <<fixer, relinked, fixes>>

StopIteration ==
  /\ reader.pc = "follow" /\ reader.at = None
  /\ reader' = [reader EXCEPT !.pc = "done"]
  /\ UNCHANGED Mine /\ UNCHANGED <<fixer, relinked, fixes, faults>>

Read == BeginReading \/ ReadNext \/ StopIteration

-----------------------------------------------------------------------------
(* fixpageorder. *)

Fix(x, state) == fixer' = [fixer EXCEPT ![x] = state]
MineFixing == <<row, tx, txn, creator, reader>>

BeginFix(x) ==
  /\ fixer[x].pc = "idle" /\ fixes < MaxFixes /\ fixes' = fixes + 1
  /\ \E dry \in BOOLEAN :
       Fix(x, [NotFixing EXCEPT !.pc = "follow", !.dry = dry, !.at = repo.first])
  /\ overlapped' = (overlapped \/ \E y \in Fixers : fixer[y].pc # "idle")
  /\ UNCHANGED MineFixing /\ UNCHANGED <<repo, relinked, faults>>

(* A title without a page number ends the command with a RuntimeError. *)
FollowProxy(x) ==
  LET p == fixer[x].at IN
  /\ fixer[x].pc = "follow" /\ p # None /\ Len(fixer[x].got) < MaxFollow
  /\ IF ~ row[p].numbered
     THEN Fix(x, NotFixing)
     ELSE \E q \in Value(repo.next[p]) : Fix(x, [fixer[x] EXCEPT
            !.at = q,
            !.got = Append(@, [proxy |-> p, prev |-> repo.prev[p], next |-> repo.next[p]])])
  /\ UNCHANGED MineFixing /\ UNCHANGED <<repo, relinked, overlapped, fixes, faults>>

(* proxy_by_page: of two proxies with one number the later is kept, at the *)
(* place of the first.                                                     *)
NumberAt(got, k) == Number(got[k].proxy)
Numbers(got) == {NumberAt(got, k) : k \in DOMAIN got}
proxy_by_place(got, m) == got[IF m \in DOMAIN got THEN m ELSE 1]

proxy_by_page(got, m) ==
  got[CHOOSE k \in DOMAIN got :
        NumberAt(got, k) = m /\ \A j \in DOMAIN got : NumberAt(got, j) = m => j <= k]
FirstPlace(got, m) ==
  CHOOSE k \in DOMAIN got : NumberAt(got, k) = m /\ \A j \in 1..k - 1 : NumberAt(got, j) # m
InOrder(got) ==
  \A a, b \in Numbers(got) : a < b => FirstPlace(got, a) < FirstPlace(got, b)

(* The proxy at a position of sorted_pages. *)
SortedAt(got, k) ==
  proxy_by_page(got, CHOOSE m \in Numbers(got) :
                       Cardinality({b \in Numbers(got) : b < m}) = k - 1)

Decide(x) ==
  LET got == fixer[x].got IN
  /\ fixer[x].pc = "follow" /\ fixer[x].at = None
  /\ Fix(x, IF InOrder(got) \/ fixer[x].dry
            THEN NotFixing
            ELSE [fixer[x] EXCEPT !.pc = "patch", !.todo = 1])
  /\ UNCHANGED MineFixing /\ UNCHANGED <<repo, relinked, overlapped, fixes, faults>>

(* The neighbours are looked up by position, as if the numbers were 1, 2,  *)
(* 3 and so on.                                                            *)
Neighbour(got, m) == IF m \in Numbers(got) THEN {proxy_by_page(got, m).proxy} ELSE {}

(* One proxy: a PATCH of what changes; an error ends the command.          *)
PatchProxy(x) ==
  LET f == fixer[x]  old == SortedAt(f.got, f.todo)
      new == [old EXCEPT !.prev = Neighbour(f.got, f.todo - 1),
                         !.next = Neighbour(f.got, f.todo + 1)]
  IN
  /\ f.pc = "patch"
  /\ \/ /\ Fix(x, [f EXCEPT !.todo = @ + 1,
                           !.pc = IF f.todo = Cardinality(Numbers(f.got)) THEN "commit" ELSE @,
                           !.writes = IF new = old THEN @ ELSE @ \cup {[old |-> old, new |-> new]}])
        /\ UNCHANGED faults
     \/ /\ Fault /\ Fix(x, NotFixing)
  /\ UNCHANGED MineFixing /\ UNCHANGED <<repo, relinked, overlapped, fixes>>

OnlyInserted(values, from, to) == values \cup to

(* What a set of values becomes when it is patched from one set to another.*)
Patched(values, from, to) == (values \ (from \ to)) \cup (to \ from)

Relinked(field, current, writes) ==
  [p \in Pages |->
     IF \E w \in writes : w.old.proxy = p
     THEN LET w == CHOOSE w \in writes : w.old.proxy = p
          IN Patched(current[p], w.old[field], w.new[field])
     ELSE current[p]]

CommitFix(x) ==
  /\ fixer[x].pc = "commit" /\ Fix(x, NotFixing)
  /\ \/ /\ repo' = [repo EXCEPT !.prev = Relinked("prev", @, fixer[x].writes),
                                !.next = Relinked("next", @, fixer[x].writes)]
        /\ relinked' = TRUE
        /\ UNCHANGED faults \/ Fault
     \/ Fault /\ UNCHANGED <<repo, relinked>>
  /\ UNCHANGED MineFixing /\ UNCHANGED <<overlapped, fixes>>

FixStep(x) == FollowProxy(x) \/ Decide(x) \/ PatchProxy(x) \/ CommitFix(x)

-----------------------------------------------------------------------------
Next == Create \/ Read \/ \E x \in Fixers : BeginFix(x) \/ FixStep(x)

Spec == Init /\ [][Next]_vars

FairSpec ==
  /\ Spec /\ WF_vars(Create) /\ WF_vars(Read)
  /\ \A x \in Fixers : WF_vars(FixStep(x))

-----------------------------------------------------------------------------
(* Properties. *)

FilesOf(p) == {row[p].files[k] : k \in DOMAIN row[p].files}
AllFiles == {pf \in Pages \X Files : pf[2] \in FilesOf(pf[1])}

(* Whoever finds the first proxy finds the whole item: every page with all *)
(* its files, and the proxies of all pages; even without a transaction,    *)
(* because the item's own update comes last (aggregation.py:72).           *)
VisibleMeansWhole ==
  repo.first # None =>
    /\ repo.pages = Pages /\ repo.has_member = Pages /\ repo.proxies = Pages
    /\ repo.binaries = AllFiles /\ repo.described = AllFiles /\ repo.has_file = AllFiles
    /\ repo.last = Len(row)

(* Nothing refers to a resource that is not there, whatever fails between  *)
(* two requests.                                                           *)
NoDangling ==
  /\ repo.has_member \subseteq repo.pages
  /\ repo.has_file \subseteq repo.described /\ repo.described \subseteq repo.binaries
  /\ \A p \in Pages :
       /\ repo.prev[p] \cup repo.next[p] \subseteq repo.proxies
       /\ repo.prev[p] \cup repo.next[p] # {} => p \in repo.proxies
  /\ {repo.first, repo.last} \subseteq repo.proxies \cup {None}

(* An item is created in a transaction as a whole or not at all.           *)
AllOrNothing == tx => repo = Bare \/ repo.first # None

(* What creating the pages promises, at every moment and with every fault. *)
CreatedWhole == VisibleMeansWhole /\ NoDangling /\ AllOrNothing

(* An export that no fixpageorder disturbs yields nothing, because it      *)
(* began before the item was whole, or the chain from its first page to    *)
(* its end, each page with all its files: all pages in their order when    *)
(* fixpageorder never ran, and none twice unless two runs of it overlapped.*)
ReadWhole ==
  LET read == reader.yielded IN
  reader.pc = "done" /\ ~relinked /\ read # <<>> =>
    /\ read[1].page = repo.first /\ repo.next[read[Len(read)].page] = {}
    /\ \A k \in 1..Len(read) - 1 : read[k + 1].page \in repo.next[read[k].page]
    /\ \A k \in DOMAIN read : read[k].files = FilesOf(read[k].page)
    /\ fixes = 0 => Len(read) = Len(row) /\ \A k \in Pages : read[k].page = k
    /\ overlapped \/ \A j, k \in DOMAIN read : read[j].page = read[k].page => j = k

(* Labels numbered 1, 2, 3 and so on, in any order, perhaps repeated.      *)
CompleteNumbers ==
  (\A p \in Pages : row[p].numbered) /\ {Number(p) : p \in Pages} \in {1..k : k \in Pages}

(* Then fixpageorder makes no loop, unless it is run twice at once: whoever*)
(* follows the chain gets to its end.                                      *)
ReadEnds ==
  reader.pc = "follow" /\ CompleteNumbers ~> reader.pc # "follow" \/ overlapped

(* While no two runs overlap, no proxy gets two successors, of which       *)
(* next.value would choose one: each run sends the difference from what it *)
(* has read. Two at once may leave a proxy two, or a loop.                 *)
OneSuccessor == ~overlapped => \A p \in Pages : Cardinality(repo.next[p]) <= 1

(* Where it works: with every number there once, the first page at the     *)
(* head of the chain and one run at a time, all pages are in order         *)
(* afterwards, in one chain.                                               *)
Sorted ==
  \E path \in [Pages -> Pages] :
    /\ path[1] = repo.first /\ repo.next[path[Len(row)]] = {}
    /\ \A k \in 1..Len(row) - 1 :
         /\ repo.next[path[k]] = {path[k + 1]}
         /\ Number(path[k]) < Number(path[k + 1])

Commits(x) == fixer[x].pc = "commit" /\ fixer'[x].pc = "idle" /\ faults' = faults
FixSorts ==
  [][ \A x \in Fixers :
        /\ Commits(x) /\ ~overlapped /\ CompleteNumbers /\ Number(1) = 1
        /\ \A p, q \in Pages : p # q => Number(p) # Number(q)
        => Sorted' ]_vars

(* The chain of proxies stays one that a reader can follow.                *)
ChainIsSound == ReadWhole /\ OneSuccessor

(* What fixpageorder does for those who read the chain.                    *)
FixKeepsReading == ReadEnds /\ FixSorts

(* Does not hold; see "Disagreements" in the README.                       *)
(* The help text, "Fix the order of pages in an object, using the page     *)
(* titles as a guide" (fixpageorder.py:18).                                *)
FixedIsSorted == [][ \A x \in Fixers : Commits(x) => Sorted' ]_vars
=============================================================================

----------------------------- MODULE ExportJob -----------------------------
(***************************************************************************)
(* An export job and what becomes of its spreadsheet.  The job reads each   *)
(* item, gathers the files of its pages and its own, writes its row and     *)
(* copies the files into a bag.  Afterwards somebody may change a cell or a *)
(* header of the spreadsheet, and an import reads the rows back; or the bag *)
(* is moved to some place and an import makes a new item of a row, with its *)
(* files from there.                                                        *)
(***************************************************************************)
EXTENDS Spreadsheet, BinarySources

CONSTANTS
  Uris,          \* the URIs to export, in order
  Repositories,  \* the repositories to start from: URI -> [graph, pages, files]
  MODEL_MAP,     \* <<type, class>> pairs, in order
  Fallback,      \* the class of an item with none of these types
  BinaryTypes,   \* the MIME types to export; {}: no binaries
  AnyType,       \* BinaryTypes = {AnyType}: no filter
  Failures,      \* the exceptions a request can end with
  Edits,         \* changes to the spreadsheet, see EditCell
  Places,        \* where the bag may be moved to
  NotYet

ASSUME ListAssumption == Uris \in Seq(Range(Uris)) /\ MODEL_MAP \in Seq(Range(MODEL_MAP))

(* What the loop of run() catches and counts; the rest ends the job.        *)
Caught == {"DataReadError", "ClientError", "ConnectionError"}

VARIABLES
  repo,      \* the repository; a page is [title, files], a file
             \* [root, ext, type, usage]
  pc,        \* where the job is
  turn,      \* the position of the URI being exported
  sheets,    \* class -> rows written: [uri, cells, index, files, item_files]
  pending,   \* the item's files still to be copied: their positions
  bag,       \* file name in the bag -> [source, whole]: what was written there
  count,     \* [exported, errors]
  edited,    \* the change somebody made: [uri, edit], or NotYet
  imported,  \* URI -> what an import makes of its row, or NotYet
  loaded     \* a row imported as a new item: [uri, place, result, files], or NotYet

exportVars == <<repo, pc, turn, sheets, pending, bag, count, edited, imported, loaded>>

Items == Range(Uris)

IsTerm(n) ==
  IF IsUri(n) THEN n = [base |-> n.base, frag |-> n.frag] /\ n.base \in Token
  ELSE n = Literal(n.text, n.lang, n.type) /\ n.text \in Text

ASSUME RepositoryAssumption ==
  \A r \in Repositories : \A u \in Items :
    /\ IsFiniteSet(r[u].graph)
    /\ \A t \in r[u].graph : t = Triple(t.s, t.p, t.o) /\ IsTerm(t.o)

SheetNames == {MODEL_MAP[i][2] : i \in DOMAIN MODEL_MAP} \cup {Fallback}

(* Each of these classes has a type (see Embed).                            *)
ASSUME ClassAssumption == \A c \in SheetNames : default_values[c] # {}

(* The command line takes an empty list, too.                               *)
ExportInit ==
  /\ repo \in Repositories
  /\ pc = (IF Uris = <<>> THEN "finish" ELSE "read") /\ turn = 1
  /\ sheets = [c \in SheetNames |-> <<>>]
  /\ pending = {}
  /\ bag = [name \in {} |-> <<>>]
  /\ count = [exported |-> 0, errors |-> 0]
  /\ edited = NotYet
  /\ imported = [u \in Items |-> NotYet]
  /\ loaded = NotYet

uri == Uris[turn]

(* The first pair of the map whose type the item has decides.               *)
detect_resource_class(g, u) ==
  LET hits == {i \in DOMAIN MODEL_MAP :
                 MODEL_MAP[i][1] \in Values(g, u, "rdf_type")}
  IN  IF hits = {} THEN Fallback
      ELSE MODEL_MAP[CHOOSE i \in hits : \A j \in hits : i <= j][2]

(* The directory of the item's files: an identifier, or else its path.      *)
item_dir(item, u) ==
  LET identifiers == Values(item.graph, Uri(u), "identifier")
  IN  (IF identifiers = {} THEN u ELSE (CHOOSE v \in identifiers : TRUE).text[1]) \o "/"

(* The elements of a sequence that are in the set.                          *)
Those(s, S) ==
  LET those[n \in 0..Len(s)] ==
        IF n = 0 THEN <<>>
        ELSE IF s[n] \in S THEN Append(those[n - 1], s[n]) ELSE those[n - 1]
  IN  those[Len(s)]

mime_type_filter(files) ==
  Those(files, {f \in Range(files) : AnyType \in BinaryTypes \/ f.type \in BinaryTypes})

(* gather_files(): a FileSpec for each, with the source it stands for.      *)
gather_files(item, u, page, label, files) ==
  [k \in DOMAIN files |->
     [label |-> label, usage |-> files[k].usage,
      name |-> <<item_dir(item, u), files[k].root, files[k].ext>>,
      source |-> [uri |-> u, page |-> page, file |-> files[k]]]]

(* An identifier, and so a directory, is one token, and every file has an   *)
(* extension, which may be empty.                                           *)
ASSUME PageAssumption ==
  \A r \in Repositories : \A u \in Items :
    /\ item_dir(r[u], u) \in Dirs
    /\ r[u].pages \in Seq(Range(r[u].pages))
    /\ \A page \in Range(r[u].pages) :
         /\ page.title \in Text /\ page.files \in Seq(Range(page.files))
         /\ \A f \in Range(page.files) :
              f.root \in Token \ Dirs /\ f.ext \in Exts /\ f.usage \in UsageTags \cup {""}

get_page_files(item, u) ==
  IF BinaryTypes = {} THEN <<>>
  ELSE FlattenSeq([p \in DOMAIN item.pages |->
         gather_files(item, u, p, item.pages[p].title, mime_type_filter(item.pages[p].files))])

get_item_files(item, u) ==
  IF BinaryTypes = {} THEN <<>>
  ELSE gather_files(item, u, 0, <<>>, mime_type_filter(item.files))

all_files(item, u) == get_page_files(item, u) \o get_item_files(item, u)
Files(u) == all_files(repo[u], u)

(* CSVSerializer.write(): a row, which joins the sheet of the item's class. *)
RowFor(item, u) ==
  [uri |-> u, cells |-> flatten(item.graph, Uri(u)), index |-> IndexOf(item.graph, Uri(u)),
   files |-> FilesCell(get_page_files(item, u)),
   item_files |-> FilesCell(get_item_files(item, u))]

write(u) ==
  sheets' = [sheets EXCEPT ![detect_resource_class(repo[u].graph, Uri(u))] =
               Append(@, RowFor(repo[u], u))]

(* mutant: one turn too many *)
NextItemLate ==
  IF turn <= Len(Uris) THEN pc' = "read" /\ turn' = turn + 1 ELSE pc' = "finish" /\ UNCHANGED turn

(* The end of one turn of the loop.                                         *)
NextItem ==
  IF turn < Len(Uris) THEN pc' = "read" /\ turn' = turn + 1 ELSE pc' = "finish" /\ UNCHANGED turn

(* A file is written under the item's directory, over one of the same name. *)
WriteFile(file, whole) ==
  bag' = [name \in DOMAIN bag \cup {file.name} |->
            IF name = file.name THEN [source |-> file.source, whole |-> whole] ELSE bag[name]]

IsNextFile(k) == k \in pending /\ \A j \in pending : k <= j

(* The file at hand has been opened for writing when its source fails.      *)
CutShort == \E k \in pending : IsNextFile(k) /\ WriteFile(Files(uri)[k], FALSE)

(* mutant: an item that failed counts as exported *)
FailCounted ==
  /\ pc \in {"read", "write"} \/ (pc = "copy" /\ pending # {})
  /\ count' = [count EXCEPT !.exported = @ + 1] /\ NextItem
  /\ (pc = "copy" /\ CutShort) \/ UNCHANGED bag
  /\ pending' = {}
  /\ UNCHANGED <<repo, sheets, edited, imported, loaded>>

(* An exception: a caught one is counted and the next item is next; the row *)
(* and the files written so far stay.  Any other ends the job.  A request   *)
(* without an answer is a RuntimeError (Client.request()); requests' own    *)
(* ConnectionError comes from a body that is read later.                    *)
Fail ==
  /\ pc \in {"read", "write"} \/ (pc = "copy" /\ pending # {})
  /\ \E e \in Failures :
       IF e \in Caught
       THEN count' = [count EXCEPT !.errors = @ + 1] /\ NextItem
       ELSE pc' = "raised" /\ UNCHANGED <<count, turn>>
  /\ (pc = "copy" /\ CutShort) \/ UNCHANGED bag
  /\ pending' = {}
  /\ UNCHANGED <<repo, sheets, edited, imported, loaded>>

Read ==
  /\ pc = "read"
  /\ pc' = "write"
  /\ UNCHANGED <<repo, turn, sheets, pending, bag, count, edited, imported, loaded>>

(* The files are gathered, which reads every page and file, and the row is  *)
(* written before any of them is copied.                                    *)
Write ==
  /\ pc = "write"
  /\ write(uri)
  /\ pending' = DOMAIN Files(uri)
  /\ pc' = "copy"
  /\ UNCHANGED <<repo, turn, bag, count, edited, imported, loaded>>

Copy ==
  /\ pc = "copy"
  /\ \E k \in pending :
       IsNextFile(k) /\ WriteFile(Files(uri)[k], TRUE) /\ pending' = pending \ {k}
  /\ UNCHANGED <<repo, pc, turn, sheets, count, edited, imported, loaded>>

Exported ==
  /\ pc = "copy" /\ pending = {}
  /\ count' = [count EXCEPT !.exported = @ + 1]
  /\ NextItem
  /\ UNCHANGED <<repo, sheets, pending, bag, edited, imported, loaded>>

(* serializer.finish() writes the sheets (none: the error is only logged)   *)
(* and the bag goes to its destination, which an SFTP connection may refuse.*)
Finish ==
  /\ pc = "finish"
  /\ \/ pc' = IF count.exported = Len(Uris) THEN "export_complete" ELSE "partial_export"
     \/ pc' = "raised"
  /\ UNCHANGED <<repo, turn, sheets, pending, bag, count, edited, imported, loaded>>

-----------------------------------------------------------------------------
Rows == UNION {Range(sheets[c]) : c \in DOMAIN sheets}
RowUris == {row.uri : row \in Rows}
RowOf(u) == CHOOSE row \in Rows : row.uri = u
Delivered == pc \in {"export_complete", "partial_export"}

(* A change to the row of an item: the cell under "from" is emptied or gets *)
(* another text, and its header may become "to".                            *)
EditRow(cells, edit) ==
  [h \in (DOMAIN cells \ {edit.from}) \cup {edit.to} |->
     IF h = edit.to THEN edit.text ELSE cells[h]]

(* A change is made to the column of a basic attribute, and what it should  *)
(* come to is what the attribute takes from a cell with that text.          *)
ASSUME EditAssumption ==
  \A e \in Edits :
    LET typed == CellValues(e.to, e.attr, e.text)
    IN  /\ e.attr \in DOMAIN Basic /\ e.from = Header(Basic[e.attr])
        /\ e.to.label \in Labels => e.to.label = Basic[e.attr]
        /\ e.to.mark \in {"plain", "lang", "type"}
        /\ e.to.mark # "type" /\ e.to.label \in Labels /\ ~ AnyClash(typed) => e.expect = typed

EditCell ==
  /\ Delivered /\ edited = NotYet
  /\ loaded = NotYet /\ \A u \in Items : imported[u] = NotYet
  /\ \E u \in RowUris, edit \in Edits : edited' = [uri |-> u, edit |-> edit]
  /\ UNCHANGED <<repo, pc, turn, sheets, pending, bag, count, imported, loaded>>

CellsOf(u) ==
  IF edited # NotYet /\ edited.uri = u THEN EditRow(RowOf(u).cells, edited.edit)
                                     ELSE RowOf(u).cells

(* An import of the row: refused for its headers, its files or a language   *)
(* beside a datatype, or the item it describes and the groups of its files. *)
ImportOf(u) ==
  LET cells == CellsOf(u)
      row == RowOf(u)
      files == build_file_groups(row.files)
      class == detect_resource_class(repo[u].graph, Uri(u))
  IN  IF ~ build_fields(DOMAIN cells) \/ files.error \/ Clashes(cells, row.index)
      THEN [refused |-> TRUE, graph |-> {}, groups |-> <<>>]
      ELSE [refused |-> FALSE, groups |-> files.groups,
            graph |-> get_object(repo[u].graph, Uri(u), class, cells, row.index)]

Import(u) ==
  /\ Delivered /\ u \in RowUris /\ imported[u] = NotYet /\ loaded = NotYet
  /\ imported' = [imported EXCEPT ![u] = ImportOf(u)]
  /\ UNCHANGED <<repo, pc, turn, sheets, pending, bag, count, edited, loaded>>

(* The names in the cells FILES and ITEM_FILES.                             *)
FileNames(row) ==
  LET groups == build_file_groups(row.files).groups
      of(files) == [k \in DOMAIN files |-> files[k].name]
      entries == IF row.item_files = <<>> THEN <<>> ELSE Split(row.item_files, Semi)
  IN  FlattenSeq([g \in DOMAIN groups |-> of(groups[g].files)])
        \o of([k \in DOMAIN entries |-> parse(entries[k])])

(* The row of an item, its URI left out, becomes a new item with the files  *)
(* from a place the bag was moved to.  It is dropped as invalid when one is *)
(* missing, and as failed after a RuntimeError; any other exception ends    *)
(* the run, and the transaction of an item that was begun.                  *)
Load(u, place) ==
  /\ Delivered /\ u \in RowUris
  /\ loaded = NotYet /\ edited = NotYet /\ \A v \in Items : imported[v] = NotYet
  /\ LET row == RowOf(u)
         names == Range(FileNames(row))
         validation == validate_files(place, names, bag)
         result == IF build_file_groups(row.files).error \/ validation = No THEN "invalid"
                   ELSE IF validation = "RuntimeError" THEN "failed"
                   ELSE IF Raised(validation) THEN validation
                   ELSE upload_files(place, names, bag)
     IN  loaded' = [uri |-> u, place |-> place, result |-> result,
                    files |-> IF result = Yes THEN [name \in names |-> bag[name]]
                                              ELSE [name \in {} |-> <<>>]]
  /\ UNCHANGED <<repo, pc, turn, sheets, pending, bag, count, edited, imported>>

ExportNext ==
  \/ Fail \/ Read \/ Write \/ Copy \/ Exported \/ Finish \/ EditCell
  \/ \E u \in Items : Import(u) \/ \E place \in Places : Load(u, place)

ExportSpec == ExportInit /\ [][ExportNext]_exportVars

-----------------------------------------------------------------------------
(* Shapes: a sheet for each class and a row for each item; in the bag there *)
(* are files of items that are exported, under their names.                 *)
ExportTypeOK ==
  /\ repo \in Repositories
  /\ pc \in {"read", "write", "copy", "finish", "export_complete", "partial_export", "raised"}
  /\ turn \in DOMAIN Uris \cup {1}
  /\ sheets \in [SheetNames -> Seq({RowFor(repo[u], u) : u \in Items})]
  /\ pending # {} => pc = "copy" /\ pending \subseteq DOMAIN Files(uri)
  /\ \A name \in DOMAIN bag : \E u \in Items : \E k \in DOMAIN Files(u) :
       name = Files(u)[k].name /\ bag[name].source = Files(u)[k].source
  /\ count \in [exported : 0..Len(Uris), errors : 0..Len(Uris)]
  /\ edited # NotYet => edited.uri \in Items /\ edited.edit \in Edits
  /\ DOMAIN imported = Items
  /\ \A u \in Items : imported[u] # NotYet =>
       DOMAIN imported[u] = {"refused", "graph", "groups"}
  /\ loaded # NotYet =>
       loaded.uri \in Items /\ loaded.place \in Places /\ DOMAIN loaded.files \subseteq DOMAIN bag

(* Nothing in the text or the language of the value is special to the       *)
(* spreadsheet; an object is a URI of its own; and what is embedded is a    *)
(* fragment of the item of which the spreadsheet has something to say.      *)
PlainValue(v) ==
  /\ v.text # <<>>
  /\ \A i \in DOMAIN v.text : v.text[i] \notin {Bar, Semi, Escape}
  /\ v.lang \in WordLangs \cup {NoLanguage}
  /\ v.lang = NoLanguage => v.type \notin OpaqueTypes /\ ~ IsTagged(v.text)
PlainObjects(g, s, a) ==
  Prop[a].kind = "object" => \A v \in Values(g, s, a) :
    IsUri(v) /\ v.frag = NoFragment /\ v.base \notin {Bar, Semi, Escape}
PlainItem(u) ==
  LET g == repo[u].graph
  IN  /\ \A t \in g : IsLiteral(t.o) => PlainValue(t.o)
      /\ \A a \in DOMAIN Basic : PlainObjects(g, Uri(u), a)
      /\ \A a \in DOMAIN Embedded : \A e \in Values(g, Uri(u), a) :
           /\ IsUri(e) /\ e.base = u /\ e.frag # NoFragment
           /\ \A b \in DOMAIN Embedded[a] : PlainObjects(g, e, b)
           /\ \E b \in DOMAIN Embedded[a] : Values(g, e, b) # {}

(* The item as it was read, with the types of what the import describes.    *)
Original(u) ==
  LET g == repo[u].graph
      embedded(a) == UNION {TypesOf(e, Prop[a].cls) : e \in Values(g, Uri(u), a)}
  IN  g \cup TypesOf(Uri(u), detect_resource_class(g, Uri(u)))
        \cup UNION {embedded(a) : a \in DOMAIN Embedded}

PlainName(text) == \A i \in DOMAIN text : text[i] \notin {Semi, Colon}
OwnRoots(pages) ==
  \A p, q \in DOMAIN pages : p # q =>
    {f.root : f \in Range(pages[p].files)} \cap {f.root : f \in Range(pages[q].files)} = {}
OneRoot(pages) ==
  \A p \in DOMAIN pages : \A f, g \in Range(pages[p].files) : f.root = g.root

(* Every page has a title and a root name of its own, without separators.   *)
PlainPages(pages) ==
  /\ OwnRoots(pages) /\ OneRoot(pages)
  /\ \A p \in DOMAIN pages :
       /\ pages[p].title # <<>> /\ PlainName(pages[p].title)
       /\ \A f \in Range(pages[p].files) : f.root # Semi

(* The pages that are exported.                                             *)
PagesOf(item) ==
  Those(item.pages, {p \in Range(item.pages) : mime_type_filter(p.files) # <<>>})

(* The group of files that a page should become.                            *)
GroupOf(item, u, page) ==
  LET kept == mime_type_filter(page.files)
  IN  [root |-> <<page.files[1].root>>, label |-> page.title,
       files |-> [k \in DOMAIN kept |->
                    [name |-> <<item_dir(item, u), kept[k].root, kept[k].ext>>,
                     usage |-> kept[k].usage]]]

(* A row that nobody changed, imported, changes nothing: languages, several *)
(* values, and embedded objects with their fragments come back as they      *)
(* were, for an item whose values hold no separator, no escape, no tag of   *)
(* more than a word and no datatype without a Python value (csv.py:187-351).*)
UneditedComesBack ==
  \A u \in Items :
    imported[u] # NotYet /\ ~ imported[u].refused /\ PlainItem(u)
      /\ (edited = NotYet \/ edited.uri # u)
      => imported[u].graph = Original(u)

(* A basic cell that was changed arrives as what was typed, under its       *)
(* column's language, and nothing else changes (csv.py:187-351).            *)
EditsArrive ==
  edited # NotYet =>
    LET u == edited.uri
        e == edited.edit
        rest(g) == g \ Links(Uri(u), e.attr, Values(g, Uri(u), e.attr))
    IN  imported[u] # NotYet /\ ~ imported[u].refused /\ PlainItem(u) /\ e.to.mark # "type" =>
          /\ Values(imported[u].graph, Uri(u), e.attr) = e.expect
          /\ rest(imported[u].graph) = rest(Original(u))

(* The pages come back from the FILES cell, in order and with their labels  *)
(* and files, when they are plain (spreadsheet.py:147-240,                  *)
(* files/__init__.py:50-62,510-520).                                        *)
PagesComeBack ==
  \A u \in Items :
    LET pages == PagesOf(repo[u])
    IN  imported[u] # NotYet /\ edited = NotYet /\ BinaryTypes # {} /\ PlainPages(pages)
          /\ ~ Clashes(RowOf(u).cells, RowOf(u).index)
        => imported[u].groups = [p \in DOMAIN pages |-> GroupOf(repo[u], u, pages[p])]

RowsComeBack == UneditedComesBack /\ EditsArrive /\ PagesComeBack

(* Does not hold; see "Disagreements" in the README.                        *)
(* As the serializer's documentation has it: any row comes back.            *)
AnyRowComesBack ==
  \A u \in Items : imported[u] # NotYet /\ edited = NotYet =>
    ~ imported[u].refused /\ imported[u].graph = Original(u)

(* No other file that is exported has the name of this one.                 *)
OwnName(u, k) ==
  \A v \in Items : \A j \in DOMAIN Files(v) :
    Files(v)[j].name = Files(u)[k].name => v = u /\ j = k

(* The file is in the bag, whole unless another one has its name.           *)
InBag(u, k) ==
  LET file == Files(u)[k]
  IN  /\ file.name \in DOMAIN bag
      /\ OwnName(u, k) => bag[file.name] = [source |-> file.source, whole |-> TRUE]

Arrived(u) == u \in RowUris /\ \A k \in DOMAIN Files(u) : InBag(u, k)

(* However many items fail, at whichever step: one that is not in the       *)
(* spreadsheet, or has not all of its files in the bag, has been counted;   *)
(* the job calls itself complete just when none has; and a file that was    *)
(* cut short is in no complete bag (exportjob.py:211-278,306).              *)
EveryItemArrives ==
  Delivered =>
    /\ Cardinality({u \in Items : ~ Arrived(u)}) <= count.errors
    /\ pc = "export_complete" <=> count.errors = 0
    /\ (\E name \in DOMAIN bag : ~ bag[name].whole) => count.errors > 0

(* From wherever the bag was moved to, a row is loaded with every file it   *)
(* names, and what validation has found can be opened, except over HTTP;    *)
(* the row is dropped, and the run goes on, when a file is missing or an    *)
(* SSH server refuses.  Only HTTP and a missing archive can end the run.    *)
(* (importjob/__init__.py:416-449,499-515; files/__init__.py:179-486.)      *)
LoadsAreSound ==
  loaded # NotYet =>
    LET names == Range(FileNames(RowOf(loaded.uri)))
        place == loaded.place
        http == place.scheme \in {"http:", "https:"}
        zip == place.scheme \in {"zip:", "zip+sftp:"}
    IN  /\ loaded.result = Yes =>
             /\ names \subseteq DOMAIN bag \ place.lost
             /\ loaded.files = [name \in names |-> bag[name]]
        /\ Raised(loaded.result) /\ loaded.result \notin {"invalid", "failed"} =>
             names # {} /\ (http \/ (zip /\ ~ place.there))
        /\ loaded.result = "failed" => Remote(place) /\ ~ place.up

(* Files arrive: in the bag, or the loss is counted, and from the bag.      *)
FilesArrive == EveryItemArrives /\ LoadsAreSound
=============================================================================

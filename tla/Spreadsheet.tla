---------------------------- MODULE Spreadsheet ----------------------------
(***************************************************************************)
(* The metadata spreadsheet, both ways: serializers/csv.py flattens an      *)
(* item into a row, importjob/spreadsheet.py reads a row back into the      *)
(* properties of an item and into groups of files.  A text is a sequence of *)
(* tokens: the separators and markers are tokens of their own, every other  *)
(* run of characters is one token.  Operators only.                         *)
(***************************************************************************)
EXTENDS RDFMapping, SequencesExt, TLC

CONSTANTS
  Basic,        \* HEADER_MAP, basic part: attribute -> header label
  Embedded,     \* HEADER_MAP, nested part: attribute -> (attribute -> label)
  WordLangs,    \* the language tags that \w+ matches as a whole
  Datatypes,    \* the datatype labels build_fields() can resolve
  OpaqueTypes,  \* datatypes rdflib has no Python value for: Literal.value is None
  UsageTags,    \* tokens "<preservation>", "<ocr>", ...
  Dirs, Exts    \* tokens "<item>/" and ".ext" of a file name

Bar == "|"
Semi == ";"
Colon == ":"
Escape == "\\"
Tag(lang) == "[@" \o lang \o "]"

-----------------------------------------------------------------------------
(* Splitting and joining, from the first token to the last.                 *)
Token == STRING
Text == Seq(Token)

(* A separator is a string, and so is a tag, which is told from the other   *)
(* tags and from the separators.                                            *)
ASSUME TokenAssumption ==
  /\ {Bar, Semi, Colon, Escape} \subseteq Token
  /\ \A l \in WordLangs : Tag(l) \in Token \ {Bar, Semi, Escape}
  /\ \A l, m \in WordLangs : Tag(l) = Tag(m) => l = m

(* The pieces between the separators, an empty text being one empty piece.  *)
(* A separator does not count after one of the guards, whatever comes       *)
(* before that.                                                             *)
Pieces(text, sep, guards) ==
  LET pieces[t \in Text] ==
        IF t = <<>> THEN << <<>> >>
        ELSE LET before == Front(t)
                 done == pieces[before]
             IN  IF Last(t) = sep /\ ~ (before # <<>> /\ Last(before) \in guards)
                 THEN Append(done, <<>>)
                 ELSE Append(Front(done), Append(Last(done), Last(t)))
  IN  pieces[text]

(* str.split() *)
Split(text, sep) == Pieces(text, sep, {})

(* Each escape is removed and what follows it kept, itself included.        *)
Unescape(text) ==
  LET read[t \in Text] ==
        IF t = <<>> THEN [out |-> <<>>, open |-> FALSE]
        ELSE LET before == read[Front(t)]
             IN  IF Last(t) = Escape /\ ~ before.open
                 THEN [out |-> before.out, open |-> TRUE]
                 ELSE [out |-> Append(before.out, Last(t)), open |-> FALSE]
  IN  IF read[text].open THEN Append(read[text].out, Escape) ELSE read[text].out

split_escaped(text, sep) ==
  IF text = <<>> THEN <<>>
  ELSE LET parts == Pieces(text, sep, {Escape})
       IN  [k \in DOMAIN parts |-> Unescape(parts[k])]

JoinWith(parts, sep) ==
  LET join[p \in Seq(Text)] ==
        IF p = <<>> THEN <<>>
        ELSE IF Front(p) = <<>> THEN Last(p)
        ELSE join[Front(p)] \o <<sep>> \o Last(p)
  IN  join[parts]

(* join_values(): values are joined as they are, nothing is escaped; a list *)
(* of lists, one for each embedded object, is joined with ";".              *)
join_values(values) == JoinWith(values, Bar)
join_lists(lists) == JoinWith([k \in DOMAIN lists |-> join_values(lists[k])], Semi)

-----------------------------------------------------------------------------
(* From an item to a row: header -> text.  A header is a label, plain or    *)
(* marked with a language "Title [de]" or a datatype "Date {EDTF}".         *)

Header(label) == [label |-> label, mark |-> "plain", tag |-> ""]

PythonValue(v) == IF v.type \in OpaqueTypes THEN <<"None">> ELSE v.text

language_tagged_str(v) ==
  IF v.lang # NoLanguage THEN <<Tag(v.lang)>> \o v.text ELSE PythonValue(v)

flatten_basic_property(g, u, a) ==
  LET values == SetToSeq(Values(g, u, a))
  IN  [k \in DOMAIN values |->
         IF Prop[a].kind = "data" THEN language_tagged_str(values[k])
                                  ELSE <<values[k].base>>]

(* The embedded objects of a property, in the order the graph lists them;   *)
(* INDEX keeps the position and the fragment of each.                       *)
Objects(g, u, a) == SetToSeq(Values(g, u, a))

IndexOf(g, u) ==
  UNION {LET e == Objects(g, u, a)
         IN  {[attr |-> a, at |-> n, fragment |-> e[n].frag] : n \in DOMAIN e}
           : a \in DOMAIN Embedded}

FlattenBasic(g, u) ==
  [h \in {Header(Basic[a]) : a \in DOMAIN Basic} |->
     LET a == CHOOSE a \in DOMAIN Basic : Header(Basic[a]) = h
     IN  join_values(flatten_basic_property(g, u, a))]

FlattenEmbedded(g, u, a) ==
  [h \in {Header(Embedded[a][b]) : b \in DOMAIN Embedded[a]} |->
     LET b == CHOOSE b \in DOMAIN Embedded[a] : Header(Embedded[a][b]) = h
         e == Objects(g, u, a)
     IN  join_lists([n \in DOMAIN e |-> flatten_basic_property(g, e[n], b)])]

(* What there is for the basic part of HEADER_MAP and for the nested part.  *)
Together(basic, nested) ==
  [x \in DOMAIN basic \cup DOMAIN nested |->
     IF x \in DOMAIN basic THEN basic[x] ELSE nested[x]]

flatten(g, u) ==
  LET columns(a) == DOMAIN FlattenEmbedded(g, u, a)
  IN  Together(FlattenBasic(g, u),
               [h \in UNION {columns(a) : a \in DOMAIN Embedded} |->
                  FlattenEmbedded(g, u, CHOOSE a \in DOMAIN Embedded : h \in columns(a))[h]])

-----------------------------------------------------------------------------
(* From a row to an item.                                                   *)

Labels == {Basic[a] : a \in DOMAIN Basic}
            \cup UNION {{Embedded[a][b] : b \in DOMAIN Embedded[a]} : a \in DOMAIN Embedded}

(* What every HEADER_MAP keeps to: a label names one attribute; the nested  *)
(* part is for the embedded properties; no attribute is the RDF type; and   *)
(* two share a predicate only as data of different types.                   *)
ASSUME HeaderAssumption ==
  /\ DOMAIN Basic \cap DOMAIN Embedded = {}
  /\ \A a, b \in DOMAIN Basic : Basic[a] = Basic[b] => a = b
  /\ \A a, c \in DOMAIN Embedded : \A b \in DOMAIN Embedded[a], d \in DOMAIN Embedded[c] :
       Embedded[a][b] = Embedded[c][d] => a = c /\ b = d
  /\ \A a \in DOMAIN Basic, c \in DOMAIN Embedded : \A d \in DOMAIN Embedded[c] :
       Basic[a] # Embedded[c][d]

ASSUME PropertyAssumption ==
  LET headed == DOMAIN Basic \cup DOMAIN Embedded
  IN  /\ \A a \in DOMAIN Basic : Prop[a].kind \in {"data", "object"}
      /\ \A a \in DOMAIN Embedded :
           /\ Prop[a].kind = "embedded"
           /\ \A b \in DOMAIN Embedded[a] : Prop[b].kind \in {"data", "object"}
      /\ \A a \in headed : Prop[a].predicate # Prop["rdf_type"].predicate
      /\ \A a, b \in headed : a # b /\ Prop[a].predicate = Prop[b].predicate =>
           Prop[a].kind = "data" /\ Prop[b].kind = "data" /\ Prop[a].datatype # Prop[b].datatype

(* build_fields(): the headers an import accepts; any other ends it.        *)
build_fields(headers) ==
  \A h \in headers : h.label \in Labels /\ (h.mark = "type" => h.tag \in Datatypes)

(* get_column_headers(): the plain column and those with a language; a      *)
(* column with a datatype is not among them, and the language is taken as   *)
(* it is written, a name is not looked up.                                  *)
get_column_headers(headers, label) ==
  {h \in headers : h.label = label /\ h.mark \in {"plain", "lang"}}

IsTagged(text) == text # <<>> /\ \E l \in WordLangs : text[1] = Tag(l)

get_literal(h, a, text) ==
  LET lang == IF IsTagged(text) THEN CHOOSE l \in WordLangs : text[1] = Tag(l)
              ELSE IF h.mark = "lang" THEN h.tag ELSE NoLanguage
  IN  Literal(IF IsTagged(text) THEN Tail(text) ELSE text, lang, Prop[a].datatype)

(* A value of a column with a datatype may not have a language.             *)
LanguageClash(v) == v.lang # NoLanguage /\ v.type # NoDatatype

(* A text as one string.                                                    *)
Whole(text) ==
  IF Len(text) = 1 THEN text[1] ELSE FoldLeft(LAMBDA s, token : s \o token, "", text)

(* The values one cell gives an attribute; blank ones are dropped.          *)
CellValues(h, a, text) ==
  LET parts == {t \in Range(split_escaped(text, Bar)) : t # <<>>}
  IN  {IF Prop[a].kind = "data" THEN get_literal(h, a, t) ELSE Uri(Whole(t)) : t \in parts}

RowValues(row, a, label) ==
  UNION {CellValues(h, a, row[h]) : h \in get_column_headers(DOMAIN row, label)}

(* get_embedded_params(): every column is split at ";" ...                  *)
EmbeddedCells(row, a) ==
  [h \in UNION {get_column_headers(DOMAIN row, Embedded[a][b]) : b \in DOMAIN Embedded[a]}
     |-> Split(row[h], Semi)]

(* ... and the n-th pieces make the n-th object; a column that is too short *)
(* gives nothing.                                                           *)
Aligned(cells) ==
  LET count == IF DOMAIN cells = {} THEN 0
               ELSE CHOOSE n \in {Len(cells[h]) : h \in DOMAIN cells} :
                      \A h \in DOMAIN cells : Len(cells[h]) <= n
  IN  [n \in 1..count |->
         [h \in DOMAIN cells |-> IF n <= Len(cells[h]) THEN cells[h][n] ELSE <<>>]]

get_embedded_params(row, a) == Aligned(EmbeddedCells(row, a))

(* mutant: positions off by one *)
FragmentOfNext(index, a, n) ==
  LET found == {e \in index : e.attr = a /\ e.at = n + 1}
  IN  IF found = {} THEN "new-" \o a \o ToString(n)
      ELSE (CHOOSE e \in found : TRUE).fragment

(* build_lookup_index(): the fragment INDEX has for the n-th object; an     *)
(* object that has none there gets a new one.                               *)
FragmentOf(index, a, n) ==
  LET found == {e \in index : e.attr = a /\ e.at = n /\ e.fragment # NoFragment}
  IN  IF found = {} THEN "new-" \o a \o ToString(n)
      ELSE (CHOOSE e \in found : TRUE).fragment

(* The objects of an embedded attribute, those with no value at all left    *)
(* out; the position counts them.                                           *)
NonemptyObjects(params, index, a) ==
  LET kwargs(n) == [b \in DOMAIN Embedded[a] |-> RowValues(params[n], b, Embedded[a][b])]
  IN  {[fragment |-> FragmentOf(index, a, n), kwargs |-> kwargs(n)] :
         n \in {n \in DOMAIN params : \E b \in DOMAIN Embedded[a] : kwargs(n)[b] # {}}}

RowObjects(row, index, a) == NonemptyObjects(get_embedded_params(row, a), index, a)

(* unflatten(): a basic attribute is a parameter when it has a column, an   *)
(* embedded one when it has an object.                                      *)
unflatten(row, index) ==
  LET basics == {a \in DOMAIN Basic : get_column_headers(DOMAIN row, Basic[a]) # {}}
      embeddeds == {a \in DOMAIN Embedded : RowObjects(row, index, a) # {}}
  IN  Together([a \in basics |-> RowValues(row, a, Basic[a])],
               [a \in embeddeds |-> RowObjects(row, index, a)])

(* Row.get_object(): the item as it was read, with the row's properties set. *)
get_object(g, u, class, row, index) ==
  set_properties(g \cup TypesOf(u, class), u, unflatten(row, index))

(* What ends the import of a row: a language beside a datatype.             *)
AnyClash(vs) == \E v \in vs : IsLiteral(v) /\ LanguageClash(v)
HasClash(params) ==
  \/ \E a \in DOMAIN params \cap DOMAIN Basic : AnyClash(params[a])
  \/ \E a \in DOMAIN params \cap DOMAIN Embedded : \E e \in params[a] :
       \E b \in DOMAIN e.kwargs : AnyClash(e.kwargs[b])
Clashes(row, index) == HasClash(unflatten(row, index))

-----------------------------------------------------------------------------
(* Files.  A name is <<directory, root, extension>>; a file is a record     *)
(* [label, usage, name] whose label may be empty and whose usage may be "". *)
ASSUME FileNameAssumption ==
  /\ UsageTags \cup Dirs \cup Exts \cup {""} \subseteq Token \ {Semi}
  /\ UsageTags \cap (Dirs \cup {""}) = {} /\ Exts \cap Dirs = {}

spec(file) ==
  (IF file.label # <<>> THEN file.label \o <<Colon>> ELSE <<>>)
    \o (IF file.usage # "" THEN <<file.usage>> ELSE <<>>) \o file.name

FilesCell(files) == JoinWith([k \in DOMAIN files |-> spec(files[k])], Semi)

(* parse_label(): what comes before the first colon.                        *)
parse_label(text) ==
  LET colons == {i \in DOMAIN text : text[i] = Colon}
      first == CHOOSE i \in colons : \A j \in colons : i <= j
  IN  IF colons = {} THEN [label |-> <<>>, rest |-> text]
      ELSE [label |-> SubSeq(text, 1, first - 1),
            rest |-> SubSeq(text, first + 1, Len(text))]

parse_usage_tag(text) ==
  IF text # <<>> /\ text[1] \in UsageTags
  THEN [usage |-> text[1], rest |-> Tail(text)]
  ELSE [usage |-> "", rest |-> text]

(* FileSpec.parse() *)
parse(text) ==
  LET named == parse_label(text)
      tagged == parse_usage_tag(named.rest)
  IN  [label |-> named.label, usage |-> tagged.usage, name |-> tagged.rest]

(* splitext(basename(name)): what follows the last directory, without the   *)
(* extension.                                                               *)
rootname(name) ==
  LET dirs == {i \in DOMAIN name : name[i] \in Dirs}
      first == IF dirs = {} THEN 1 ELSE 1 + CHOOSE i \in dirs : \A j \in dirs : j <= i
      last == IF name # <<>> /\ Last(name) \in Exts THEN Len(name) - 1 ELSE Len(name)
  IN  SubSeq(name, first, last)

(* build_file_groups(), by root name: a group per root in the order of the  *)
(* first mention; the first label of a group stays, another one is an error,*)
(* and so is a group without a label beside one that has one.  When none    *)
(* has, the groups are "Page 1" to "Page N".                                *)
Entry == [label : Text, usage : Token, name : Text]

WithFile(groups, file) ==
  LET root == rootname(file.name)
      known == {i \in DOMAIN groups : groups[i].root = root}
      new == [name |-> file.name, usage |-> file.usage]
      its == CHOOSE i \in known : TRUE
      old == groups[its].label
  IN  IF known = {}
      THEN Append(groups, [root |-> root, label |-> file.label, files |-> <<new>>,
                           differs |-> FALSE])
      ELSE [groups EXCEPT ![its] =
              [root |-> root, files |-> Append(groups[its].files, new),
               label |-> IF old = <<>> THEN file.label ELSE old,
               differs |-> groups[its].differs
                             \/ (file.label # <<>> /\ old # <<>> /\ old # file.label)]]

Grouped(files) ==
  LET grouped[f \in Seq(Entry)] ==
        IF f = <<>> THEN <<>> ELSE WithFile(grouped[Front(f)], Last(f))
  IN  grouped[files]

Page(n) == <<"Page " \o ToString(n)>>

(* The groups with their labels, or <<>> and an error.                      *)
Labelled(groups) ==
  LET labelled == {i \in DOMAIN groups : groups[i].label # <<>>}
      group(i) == [root |-> groups[i].root, files |-> groups[i].files,
                   label |-> IF labelled = {} THEN Page(i) ELSE groups[i].label]
  IN  IF \/ \E i \in DOMAIN groups : groups[i].differs
         \/ labelled \notin {{}, DOMAIN groups}
      THEN [error |-> TRUE, groups |-> <<>>]
      ELSE [error |-> FALSE, groups |-> [i \in DOMAIN groups |-> group(i)]]

build_file_groups(cell) ==
  LET entries == Split(cell, Semi)
  IN  IF cell = <<>> THEN [error |-> FALSE, groups |-> <<>>]
      ELSE Labelled(Grouped([k \in DOMAIN entries |-> parse(entries[k])]))
=============================================================================

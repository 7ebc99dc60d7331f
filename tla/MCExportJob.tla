---------------------------- MODULE MCExportJob ----------------------------
(* Instances of ExportJob for TLC: two items out of a collection of items   *)
(* that differ in what a spreadsheet finds hard.                            *)
EXTENDS ExportJob

Data(p, type) ==
  [predicate |-> p, kind |-> "data", datatype |-> type, required |-> FALSE,
   repeatable |-> TRUE, refused |-> {}, cls |-> NoClass]
Linked(p, kind, cls) ==
  [predicate |-> p, kind |-> kind, datatype |-> NoDatatype, required |-> FALSE,
   repeatable |-> TRUE, refused |-> {}, cls |-> cls]

ItemProps ==
  [rdf_type |-> Linked("rdf:type", "object", NoClass),
   title |-> Data("dcterms:title", NoDatatype),
   identifier |-> Data("dcterms:identifier", NoDatatype),
   accession_number |-> Data("dcterms:identifier", "accessionNumber"),
   creator |-> Linked("dcterms:creator", "embedded", "Agent"),
   label |-> Data("rdfs:label", NoDatatype),
   same_as |-> Linked("owl:sameAs", "object", NoClass)]

BasicHeaders == [title |-> "Title", identifier |-> "Identifier",
                 accession_number |-> "Accession Number"]
EmbeddedHeaders == [creator |-> [label |-> "Creator", same_as |-> "Creator URI"]]

ClassNames == {"Item", "Poster", "Agent"}
NoBases == [c \in ClassNames |-> <<>>]
Types == [c \in ClassNames |->
  CASE c = "Item" -> {Uri("umd:Item")} [] c = "Poster" -> {Uri("bibo:Image")}
    [] OTHER -> {Uri("edm:Agent")}]
ModelMap == <<<<Uri("umd:Item"), "Item">>, <<Uri("bibo:Image"), "Poster">>>>

Plain(t) == Literal(<<t>>, NoLanguage, NoDatatype)
In(lang, t) == Literal(<<t>>, lang, NoDatatype)
Accession(t) == Literal(<<t>>, NoLanguage, "accessionNumber")

Agent(f, labels, uris) == [fragment |-> f, kwargs |-> [label |-> labels, same_as |-> uris]]

File(root, ext, type, usage) == [root |-> root, ext |-> ext, type |-> type, usage |-> usage]
Tiff(root) == File(root, ".tif", "tiff", "<preservation>")
Transcript(root) == File(root, ".txt", "text", "")

Item(types, titles, identifier, accessions, creators, pages, files) ==
  [types |-> types, titles |-> titles, identifier |-> identifier,
   accessions |-> accessions, creators |-> creators, pages |-> pages, files |-> files]

TwoPages == <<[title |-> <<"1">>, files |-> <<Tiff("a"), Transcript("a")>>],
              [title |-> <<"2">>, files |-> <<Transcript("b"), Tiff("b")>>]>>
SamePages == <<[title |-> <<"1">>, files |-> <<Tiff("a")>>],
               [title |-> <<"2">>, files |-> <<Tiff("a")>>]>>
OddPages == <<[title |-> <<>>, files |-> <<Tiff("a")>>],
              [title |-> <<"1", ":", "2">>, files |-> <<Transcript("b")>>]>>

Kinds == <<
  Item({"umd:Item"}, {Plain("A"), In("de", "B")}, {"x"}, {},
       {Agent("f", {Plain("N"), In("de", "M")}, {}), Agent("g", {Plain("O")}, {Uri("uri")})},
       TwoPages, <<Transcript("c")>>),
  Item({"bibo:Image"}, {Plain("A")}, {"x"}, {}, {}, SamePages, <<>>),
  Item({}, {Literal(<<"A", "|", "B">>, NoLanguage, NoDatatype)}, {}, {},
       {Agent("f", {Literal(<<"N", ";", "M">>, NoLanguage, NoDatatype)}, {})}, OddPages, <<>>),
  Item({"umd:Item", "bibo:Image"}, {In("ja-latn", "A")}, {"y"}, {Accession("n")},
       {Agent("f", {Plain("N")}, {}), Agent("g", {}, {Uri("uri")})}, <<>>, <<Tiff("c")>>),
  Item({}, {Literal(<<"A", "\\", "B">>, NoLanguage, NoDatatype)}, {"y"}, {}, {}, <<>>, <<>>)>>

Of(u, item) ==
  [pages |-> item.pages, files |-> item.files,
   graph |-> Links(Uri(u), "rdf_type", {Uri(t) : t \in item.types})
               \cup Links(Uri(u), "title", item.titles)
               \cup Links(Uri(u), "identifier", {Plain(i) : i \in item.identifier})
               \cup Links(Uri(u), "accession_number", item.accessions)
               \cup UNION {Embed(Uri(u), "creator", e) : e \in item.creators}]

(* Each item beside each other one.                                         *)
TwoItems ==
  {[u \in {"u", "v"} |-> Of(u, Kinds[IF u = "u" THEN pair[1] ELSE pair[2]])] :
     pair \in {p \in (DOMAIN Kinds) \X (DOMAIN Kinds) : p[1] < p[2]}}
InOrder == <<"u", "v">>

Change(from, to, text, attr, expect) ==
  [from |-> Header(from), to |-> to, text |-> text, attr |-> attr, expect |-> expect]
InLanguage(label, lang) == [label |-> label, mark |-> "lang", tag |-> lang]
Typed(label, type) == [label |-> label, mark |-> "type", tag |-> type]

SomePlaces ==
  LET a == <<"x/", "a", ".tif">>  c == <<"x/", "c", ".txt">> IN
  {Place(scheme, TRUE, TRUE, {}) : scheme \in {"", "zip:", "sftp:", "zip+sftp:", "https:"}}
  \cup {Place(scheme, TRUE, TRUE, {a, c}) : scheme \in {"", "zip:", "sftp:", "http:"}}
  \cup {Place(scheme, TRUE, FALSE, {}) : scheme \in {"", "zip:", "zip+sftp:"}}
  \cup {Place(scheme, FALSE, TRUE, {}) : scheme \in {"", "sftp:", "zip+sftp:", "http:"}}

SomeEdits == {
  Change("Title", Header("Title"), <<"C", "|", "[@de]", "D">>, "title",
         {Plain("C"), In("de", "D")}),
  Change("Title", InLanguage("Title", "de"), <<"E", "\\", "|", "F">>, "title",
         {Literal(<<"E", "|", "F">>, "de", NoDatatype)}),
  Change("Title", Header("Title"), <<>>, "title", {}),
  Change("Identifier", Typed("Identifier", "EDTF"), <<"z">>, "identifier", {}),
  Change("Accession Number", Header("Accession Number"), <<"[@de]", "m">>,
         "accession_number", {}),
  Change("Accession Number", Header("Accession Number"), <<"m">>,
         "accession_number", {Accession("m")}),
  Change("Title", Header("Titel"), <<"C">>, "title", {})}
=============================================================================

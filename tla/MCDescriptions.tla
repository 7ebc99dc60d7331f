--------------------------- MODULE MCDescriptions ---------------------------
(* Instances of Descriptions for TLC: an item of the UMD model, cut down to *)
(* one property of each kind.  identifier and accession_number share        *)
(* dcterms:identifier; creator embeds Agents, which have no type of their   *)
(* own; date has a validate function.                                       *)
EXTENDS Descriptions, TLC

Basic(p, type, required, repeatable, refused) ==
  [predicate |-> p, kind |-> "data", datatype |-> type, required |-> required,
   repeatable |-> repeatable, refused |-> refused, cls |-> NoClass]
Linked(p, kind, cls) ==
  [predicate |-> p, kind |-> kind, datatype |-> NoDatatype, required |-> FALSE,
   repeatable |-> TRUE, refused |-> {}, cls |-> cls]

Plain(t) == Literal(<<t>>, NoLanguage, NoDatatype)
German(t) == Literal(<<t>>, "de", NoDatatype)
NotADate == German("x")
LikeAFragment == Literal(<<"url", "#">>, NoLanguage, NoDatatype)

ItemProps ==
  [rdf_type |-> Linked("rdf:type", "object", NoClass),
   date |-> Basic("dc:date", NoDatatype, TRUE, FALSE, {NotADate}),
   identifier |-> Basic("dcterms:identifier", NoDatatype, FALSE, TRUE, {}),
   accession_number |-> Basic("dcterms:identifier", "accessionNumber", FALSE, FALSE, {}),
   creator |-> Linked("dcterms:creator", "embedded", "Agent"),
   label |-> Basic("rdfs:label", NoDatatype, FALSE, TRUE, {})]

ClassNames == {"RDFResource", "PCDMObject", "Item", "Agent"}
Resolution == [c \in ClassNames |->
  CASE c = "Item" -> <<"PCDMObject", "RDFResource">>
    [] c \in {"PCDMObject", "Agent"} -> <<"RDFResource">>
    [] OTHER -> <<>>]
Types == [c \in ClassNames |->
  CASE c = "Item" -> {Uri("umd:Item")}
    [] c = "PCDMObject" -> {Uri("pcdm:Object")}
    [] OTHER -> {}]

Agent(f, name) == [fragment |-> f, kwargs |-> [label |-> {Plain(name)}]]
Edits ==
  [date |-> {{Plain("1")}, {Plain("1"), NotADate}, {Plain("1"), Plain("2")}},
   identifier |-> {{}, {Plain("i")}, {Plain("#")}, {LikeAFragment}},
   accession_number |-> {{Literal(<<"n">>, NoLanguage, "accessionNumber")}},
   creator |-> {{}, {Agent("f", "A")}, {Agent("f", "B")}}]

(* An item with a date, an identifier, an accession number and a creator.   *)
ItemUri == Uri("url")
StoredItem ==
  Links(ItemUri, "rdf_type", {Uri("umd:Item"), Uri("pcdm:Object")})
    \cup Links(ItemUri, "date", {Plain("1")})
    \cup Links(ItemUri, "accession_number", {Literal(<<"n">>, NoLanguage, "accessionNumber")})
    \cup Embed(ItemUri, "creator", Agent("f", "A"))

Others == Links(ItemUri, "identifier", {Plain("i")})
            \cup Links(ItemUri, "date", {Plain("1")})
OldOrNew == {StoredItem, Absent}
=============================================================================

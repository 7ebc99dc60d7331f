----------------------------- MODULE RDFMapping -----------------------------
(***************************************************************************)
(* The RDF mapping layer (plastron.rdfmapping): a description object is a   *)
(* view of a graph through the properties its class declares.  A graph is   *)
(* a set of triples.  A node is a URI, split where the code splits it into  *)
(* a base and a fragment, or a literal: a text (a sequence of tokens), a    *)
(* language and a datatype.  The module holds operators only; Descriptions  *)
(* and Spreadsheet use them.                                                *)
(***************************************************************************)
EXTENDS Naturals, Sequences, FiniteSets

CONSTANTS
  Prop,        \* attribute -> [predicate, kind, datatype, required,
               \*               repeatable, refused, cls]; refused: what values_from
               \*               or the validate function reject
  Classes,     \* the description classes
  Mro,         \* class -> the classes it derives from, nearest first
  Decorated,   \* class -> the types its own @rdf_type decorator names
  NoFragment, NoLanguage, NoDatatype, NoClass

Attrs == DOMAIN Prop

Uri(base) == [base |-> base, frag |-> NoFragment]
Literal(text, lang, type) == [text |-> text, lang |-> lang, type |-> type]
IsUri(node) == DOMAIN node = {"base", "frag"}
IsLiteral(node) == DOMAIN node = {"text", "lang", "type"}
Triple(s, p, o) == [s |-> s, p |-> p, o |-> o]

(* The empty URI, which create_child() uses for "this resource".           *)
Empty == ""

(* A literal that reads like a fragment of the URI: its text is the URI     *)
(* followed by "#" and more, or for the empty URI begins with "#".          *)
IsHash(node, uri) ==
  /\ IsLiteral(node)
  /\ IF uri = Empty
     THEN Len(node.text) > 0 /\ node.text[1] = "#"
     ELSE Len(node.text) > 1 /\ node.text[1] = uri /\ node.text[2] = "#"

(* mutant: fragments of the old URI are not followed *)
UpdateWholeNodes(node, old, new) == IF node = Uri(old) THEN Uri(new) ELSE node

(* The node is replaced when it is old_uri or its text begins with old_uri  *)
(* and "#", and what comes out is a URI, also of a literal.  For the empty  *)
(* old_uri that is every fragment and every literal that begins with "#",   *)
(* and str.replace() then puts new_uri between every two characters: what   *)
(* comes out is no node of anybody's graph.                                 *)
update_node(node, old, new) ==
  CASE IsUri(node) /\ node.base # old -> node
    [] IsUri(node) /\ node.base = old ->
         IF old = Empty /\ new # Empty /\ node.frag # NoFragment
         THEN [node EXCEPT !.base = "mangled"]
         ELSE [node EXCEPT !.base = new]
    [] IsHash(node, old) ->
         [base |-> IF old = Empty /\ new # Empty THEN "mangled" ELSE new, frag |-> "#"]
    [] OTHER -> node

change_uri(g, old, new) ==
  {Triple(update_node(t.s, old, new), t.p, update_node(t.o, old, new)) : t \in g}

-----------------------------------------------------------------------------
(* Classes.  __init_subclass__() runs dict.update() with each base class in *)
(* resolution order, so the types of the last decorated base replace those  *)
(* of the nearer ones; the class's own decorator runs afterwards.           *)
default_values[c \in Classes] ==
  LET bases == {i \in DOMAIN Mro[c] : default_values[Mro[c][i]] # {}}
      last == CHOOSE i \in bases : \A j \in bases : j <= i
  IN  Decorated[c] \cup (IF bases = {} THEN {} ELSE default_values[Mro[c][last]])

-----------------------------------------------------------------------------
(* Properties of the resource u in the graph g.                             *)

objects(g, u, p) == {t.o : t \in {t \in g : t.s = u /\ t.p = p}}

(* RDFDataProperty.values keeps the literals of its own datatype, so two    *)
(* data properties may share a predicate.                                   *)
Values(g, u, a) ==
  IF Prop[a].kind = "data"
  THEN {v \in objects(g, u, Prop[a].predicate) :
          IsLiteral(v) /\ v.type = Prop[a].datatype}
  ELSE objects(g, u, Prop[a].predicate)

Links(u, a, vs) == {Triple(u, Prop[a].predicate, v) : v \in vs}

(* What describing the resource u as class c adds to its graph.             *)
TypesOf(u, c) == Links(u, "rdf_type", default_values[c])

(* EmbeddedObject.embed(): an object of the property's class whose URI is   *)
(* its parent's with a fragment; the keyword arguments are added to what    *)
(* the graph already says of that URI.  The graph is the parent's, unless   *)
(* that is empty ("if graph:"): an object embedded first of all would keep  *)
(* what it says to itself.  A parent that has a type of its own, as those   *)
(* that embed objects do, is never that empty.                              *)
EmbeddedUri(u, e) == [base |-> u.base, frag |-> e.fragment]
Embed(u, a, e) ==
  TypesOf(EmbeddedUri(u, e), Prop[a].cls)
    \cup (UNION {Links(EmbeddedUri(u, e), b, e.kwargs[b]) : b \in DOMAIN e.kwargs})
    \cup Links(u, a, {EmbeddedUri(u, e)})

(* prop.add() for each of the values; those of an embedded property are     *)
(* records [fragment, kwargs].                                              *)
AddAll(g, u, a, vs) ==
  IF Prop[a].kind = "embedded"
  THEN g \cup UNION {Embed(u, a, e) : e \in vs}
  ELSE g \cup Links(u, a, vs)

(* set_properties(): each property that is named is cleared and filled.     *)
(* The order does not matter as long as no two of them share a value.       *)
set_properties(g, u, kwargs) ==
  LET named == DOMAIN kwargs
      cleared == g \ UNION {Links(u, a, Values(g, u, a)) : a \in named}
  IN  cleared \cup UNION {AddAll({}, u, a, kwargs[a]) : a \in named}

-----------------------------------------------------------------------------
(* Validation.                                                              *)

Languages(vs) == {v.lang : v \in vs}
Blank(v) == v.text = <<>>

(* RDFProperty.is_valid *)
BaseValid(g, u, a) ==
  LET vs == Values(g, u, a)
  IN  /\ Prop[a].required => vs # {}
      /\ Prop[a].repeatable \/ Cardinality(vs) <= 1
      /\ vs \cap Prop[a].refused = {}

(* mutant: several values are excused whatever their languages *)
DataValidAlways(g, u, a) ==
  LET vs == Values(g, u, a)
  IN  /\ BaseValid(g, u, a) \/ (~ Prop[a].repeatable /\ Cardinality(vs) > 1)
      /\ Prop[a].required => \A v \in vs : ~ Blank(v)

(* RDFDataProperty.is_valid: several values of a property that is not       *)
(* repeatable are excused by their languages, and with them whatever else   *)
(* the base class would have found.                                         *)
DataValid(g, u, a) ==
  LET vs == Values(g, u, a)
      several == ~ Prop[a].repeatable /\ Cardinality(vs) > 1
  IN  /\ IF several
         THEN Cardinality(Languages(vs)) = Cardinality(vs)
         ELSE BaseValid(g, u, a)
      /\ Prop[a].required => \A v \in vs : ~ Blank(v)

(* RDFObjectProperty.is_valid *)
ObjectValid(g, u, a) ==
  BaseValid(g, u, a) /\ \A v \in Values(g, u, a) : IsUri(v)

is_valid(g, u, attrs) ==
  \A a \in attrs : IF Prop[a].kind = "data" THEN DataValid(g, u, a)
                                            ELSE ObjectValid(g, u, a)
=============================================================================

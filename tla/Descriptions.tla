---------------------------- MODULE Descriptions ----------------------------
(***************************************************************************)
(* The life of a description: a RepositoryResource keeps the graph it read  *)
(* together with the original of that graph; describe() makes an object     *)
(* that edits the graph, create_child() sends a new one under the empty     *)
(* URI, and update() sends the difference from the original as one PATCH.   *)
(* Other clients change the resource on the server meanwhile.               *)
(***************************************************************************)
EXTENDS RDFMapping

CONSTANTS
  Url,          \* base of the resource's URL
  Urn,          \* base of the urn:uuid of a description with no URL yet
  Class,        \* the class the resource is described as
  Stored,       \* the graphs the resource may have at first; Absent: not created
  ValueChoices, \* attribute -> the collections of values it may be set to
  Foreign,      \* the triples other clients may add or remove
  MaxEdits,     \* bound: edits of the description, and of other clients
  Absent, None

ASSUME BoundAssumption == MaxEdits \in Nat
ASSUME NameAssumption == Empty \notin {Url, Urn}

Bases == {Url, Urn, Empty, "mangled"}
IsNode(n) == IsUri(n) \/ IsLiteral(n)
IsGraph(g) ==
  \A t \in g : /\ t = Triple(t.s, t.p, t.o)
                /\ IsUri(t.s) /\ t.s.base \in Bases /\ IsNode(t.o)

(* The empty URI means nothing outside of the request that uses it.         *)
Absolute(node) == IsUri(node) => node.base # Empty
AbsoluteGraph(g) == \A t \in g : Absolute(t.s) /\ Absolute(t.o)
IsValueSet(vs) == IsFiniteSet(vs) /\ \A v \in vs : IsNode(v) /\ Absolute(v)

ASSUME GraphAssumption ==
  /\ \A g \in Stored \ {Absent} : IsFiniteSet(g) /\ IsGraph(g) /\ AbsoluteGraph(g)
  /\ IsGraph(Foreign) /\ AbsoluteGraph(Foreign)

(* Declared types are URIs; a program makes the values of a data property   *)
(* with the property's datatype (set.py:60, csv.py:349).                    *)
ASSUME TypesAssumption ==
  /\ Class \in Classes
  /\ \A c \in Classes : IsValueSet(default_values[c])
(* A class that embeds objects has a type, which nobody takes away (see     *)
(* Embed).                                                                  *)
ASSUME EmbeddingAssumption ==
  (\E a \in DOMAIN ValueChoices : Prop[a].kind = "embedded") =>
    /\ default_values[Class] # {}
    /\ \A a \in DOMAIN ValueChoices : Prop[a].predicate # Prop["rdf_type"].predicate
ASSUME ChoiceAssumption ==
  \A a \in DOMAIN ValueChoices : \A vs \in ValueChoices[a] :
    /\ Prop[a].kind = "embedded" =>
         /\ IsFiniteSet(vs) /\ Prop[a].cls \in Classes
         /\ \A e \in vs :
              /\ e.fragment # NoFragment /\ IsFiniteSet(DOMAIN e.kwargs)
              /\ \A b \in DOMAIN e.kwargs : IsValueSet(e.kwargs[b])
    /\ Prop[a].kind # "embedded" => IsValueSet(vs)
    /\ Prop[a].kind = "data" => \A v \in vs : IsLiteral(v) /\ v.type = Prop[a].datatype

VARIABLES
  server,     \* the graph in the repository, or Absent
  resource,   \* RepositoryResource: [path, cur, orig]; path: has it one
  desc,       \* the description: [uri, attached, cur, orig], or None;
              \* attached: its graph is the resource's, cur and orig unused
  foreign,    \* triples other clients have changed since the graphs in hand
              \* were read
  unsure,     \* triples of PATCH requests whose answer was lost since then
  edits       \* edits so far, for the bound

vars == <<server, resource, desc, foreign, unsure, edits>>

Init ==
  /\ server \in Stored
  /\ resource = [path |-> server # Absent, cur |-> {}, orig |-> {}]
  /\ desc = None
  /\ foreign = {} /\ unsure = {} /\ edits = 0

Url_ == Uri(IF resource.path THEN Url ELSE Urn)

(* The graph the description works on.                                      *)
Current == IF desc.attached THEN resource.cur ELSE desc.cur
WithCurrent(g) ==
  IF desc.attached
  THEN resource' = [resource EXCEPT !.cur = g] /\ UNCHANGED desc
  ELSE desc' = [desc EXCEPT !.cur = g] /\ UNCHANGED resource

(* read(): a new graph, so that a description made before keeps the old one. *)
read ==
  /\ resource.path /\ server # Absent
  /\ resource' = [resource EXCEPT !.cur = server, !.orig = server]
  /\ desc' = IF desc # None /\ desc.attached
             THEN [uri |-> desc.uri, attached |-> FALSE,
                   cur |-> resource.cur, orig |-> resource.orig]
             ELSE desc
  /\ foreign' = IF desc = None THEN {} ELSE foreign
  /\ unsure' = IF desc = None THEN {} ELSE unsure
  /\ UNCHANGED <<server, edits>>

(* mutant: the graph is shared even when there is no resource yet *)
DescribeShared ==
  /\ desc = None
  /\ desc' = [uri |-> Url_, attached |-> TRUE, orig |-> {}, cur |-> {}]
  /\ resource' = [resource EXCEPT !.cur = @ \cup TypesOf(Url_, Class)]
  /\ UNCHANGED <<server, foreign, unsure, edits>>

(* describe(): RDFResourceBase takes over the graph it is given unless it   *)
(* is empty - "if graph:" - in which case it makes one of its own.          *)
describe ==
  /\ desc = None
  /\ LET attached == resource.cur # {}
     IN  /\ desc' = [uri |-> Url_, attached |-> attached, orig |-> {},
                     cur |-> IF attached THEN {} ELSE TypesOf(Url_, Class)]
         /\ resource' = [resource EXCEPT
              !.cur = IF attached THEN @ \cup TypesOf(Url_, Class) ELSE @]
  /\ UNCHANGED <<server, foreign, unsure, edits>>

Discard ==
  /\ desc # None
  /\ desc' = None
  /\ UNCHANGED <<server, resource, foreign, unsure, edits>>

(* The program edits the description: set_properties() of one property,     *)
(* which clears it, or add_properties(), which does not.                    *)
Edit(g) ==
  /\ edits < MaxEdits
  /\ edits' = edits + 1
  /\ WithCurrent(g)
  /\ UNCHANGED <<server, foreign, unsure>>

Set(a, vs) ==
  desc # None /\ Edit(set_properties(Current, desc.uri, [b \in {a} |-> vs]))
Add(a, vs) ==
  desc # None /\ Edit(AddAll(Current, desc.uri, a, vs))

(* attach_description(): the description gets the resource's URL and the    *)
(* resource the description's graph.  update_repo(), the only caller, has   *)
(* described the item from a graph it had read.                             *)
attach_description ==
  /\ desc # None /\ resource.path
  /\ desc.attached \/ desc.orig # {}
  /\ LET g == change_uri(Current, desc.uri.base, Url)
     IN  resource' = [resource EXCEPT !.cur = g,
                        !.orig = IF desc.attached THEN @ ELSE desc.orig]
  /\ desc' = [uri |-> Uri(Url), attached |-> TRUE, cur |-> {}, orig |-> {}]
  /\ UNCHANGED <<server, foreign, unsure, edits>>

(* The repository reads the empty URI as that of the resource it creates.   *)
Resolved(node) ==
  IF IsUri(node) /\ node.base = Empty THEN [node EXCEPT !.base = Url] ELSE node
Resolve(g) == {Triple(Resolved(t.s), t.p, Resolved(t.o)) : t \in g}

(* create_child(): the description is moved to the empty URI, POSTed, and   *)
(* moved to the URL the answer names; repo.create() reads the new resource. *)
(* When the POST fails the description stays where it is.                   *)
create_child ==
  /\ desc # None /\ ~ desc.attached /\ ~ resource.path
  /\ LET g == change_uri(desc.cur, desc.uri.base, Empty)
     IN  \/ /\ desc' = [desc EXCEPT !.uri = Uri(Empty), !.cur = g]
            /\ UNCHANGED <<server, resource>>
         \/ /\ server' = Resolve(g)
            /\ resource' = [path |-> TRUE, cur |-> Resolve(g), orig |-> Resolve(g)]
            /\ desc' = [desc EXCEPT !.uri = Uri(Url), !.cur = change_uri(g, Empty, Url)]
  /\ UNCHANGED <<foreign, unsure, edits>>

inserts == resource.cur \ resource.orig
deletes == resource.orig \ resource.cur
(* mutant: deleting something is not a change *)
HasInserts == inserts # {}

has_changes == inserts # {} \/ deletes # {}

(* update(): one PATCH with the difference.  The answer may be lost, or be  *)
(* an error sent after the change was made: then the original stays as it   *)
(* was and the next update() sends the difference again.                    *)
update ==
  /\ resource.path /\ has_changes
  /\ server' = (server \ deletes) \cup inserts
  /\ \/ /\ resource' = [resource EXCEPT !.orig = resource.cur]
        /\ UNCHANGED unsure
     \/ /\ unsure' = unsure \cup inserts \cup deletes
        /\ UNCHANGED resource
  /\ UNCHANGED <<desc, foreign, edits>>

(* Another client adds or removes one triple.                               *)
OtherClient(t) ==
  /\ server # Absent /\ edits < MaxEdits
  /\ server' = IF t \in server THEN server \ {t} ELSE server \cup {t}
  /\ foreign' = foreign \cup {t}
  /\ edits' = edits + 1
  /\ UNCHANGED <<resource, desc, unsure>>

Next ==
  \/ read \/ describe \/ Discard
  \/ \E a \in DOMAIN ValueChoices : \E vs \in ValueChoices[a] : Set(a, vs) \/ Add(a, vs)
  \/ attach_description \/ create_child \/ update
  \/ \E t \in Foreign : OtherClient(t)

Spec == Init /\ [][Next]_vars

-----------------------------------------------------------------------------
(* Every graph is a graph; an attached description keeps none of its own.   *)
TypeOK ==
  /\ server = Absent \/ IsGraph(server)
  /\ DOMAIN resource = {"path", "cur", "orig"}
  /\ resource.path \in BOOLEAN
  /\ IsGraph(resource.cur) /\ IsGraph(resource.orig)
  /\ \/ desc = None
     \/ /\ DOMAIN desc = {"uri", "attached", "cur", "orig"}
        /\ desc.attached \in BOOLEAN
        /\ IsGraph(desc.cur) /\ IsGraph(desc.orig)
        /\ desc.attached => desc.cur = {} /\ desc.orig = {} /\ resource.path
  /\ foreign \subseteq Foreign
  /\ edits \in 0..MaxEdits

Differences(g, h) == (g \ h) \cup (h \ g)

(* A resource that has been read or created and has no changes left to send *)
(* says what the repository says, up to what other clients changed and what *)
(* requests without an answer did: a failed or repeated update() never      *)
(* loses an edit (repo/__init__.py:230-243).                                *)
UpdateSynchronises ==
  resource.orig # {} /\ ~ has_changes =>
    Differences(server, resource.cur) \subseteq foreign \cup unsure

Rebased(node, from, to) ==
  IF IsUri(node) /\ node.base = from THEN [node EXCEPT !.base = to] ELSE node
Moved(g, from, to) ==
  {Triple(Rebased(t.s, from, to), t.p, Rebased(t.o, from, to)) : t \in g}
HasFragments(g) ==
  \E t \in g : \E n \in {t.s, t.o} : IsUri(n) /\ n.frag # NoFragment
HasHashes(g, uri) == \E t \in g : IsHash(t.o, uri)

(* A resource is created with what its description said under its temporary *)
(* URI, embedded objects and self references included, also when an earlier *)
(* attempt had failed, unless a literal reads like a fragment of that URI;  *)
(* and the description agrees with the resource afterwards unless it holds  *)
(* fragments or such a literal (repo/__init__.py:316-329, graph.py:15-33).  *)
CreatedAsDescribed ==
  [][server = Absent /\ server' # Absent =>
       /\ \/ server' = Moved(desc.cur, desc.uri.base, Url)
          \/ HasHashes(desc.cur, desc.uri.base)
       /\ \/ desc'.cur = server'
          \/ HasFragments(desc.cur)
          \/ \E from \in {desc.uri.base, Empty} : HasHashes(desc.cur, from)]_vars

(* Two properties may share a predicate and have no value in common.  Those *)
(* of a newspaper article for its issue and its collection are the same one *)
(* under two names (models/newspaper.py:140, models/pcdm.py).               *)
Separate(a, b) ==
  \/ Prop[a].predicate # Prop[b].predicate
  \/ /\ Prop[a].kind = "data" /\ Prop[b].kind = "data"
     /\ Prop[a].datatype # Prop[b].datatype

(* Setting one property leaves the values of every other property of the    *)
(* resource alone, those that share its predicate included, and leaves the  *)
(* property with the values it was given (resources.py:91-110).             *)
SetKeepsOthers ==
  [][\A a \in DOMAIN ValueChoices : \A vs \in ValueChoices[a] : Set(a, vs) =>
       LET u == desc.uri
           after == IF desc.attached THEN resource'.cur ELSE desc'.cur
       IN  /\ \A b \in Attrs : Separate(a, b) =>
                Values(Current, u, b) = Values(after, u, b)
           /\ Values(after, u, a) =
                IF Prop[a].kind = "embedded" THEN {EmbeddedUri(u, e) : e \in vs} ELSE vs]_vars

(* No edit says more or less than it should.                               *)
EditsAreExact == CreatedAsDescribed /\ SetKeepsOthers

(* What validation accepts: a required property has a value, a property     *)
(* that is not repeatable has at most one value per language, and a value   *)
(* that values_from or the validate function rejects passes only beside     *)
(* another one of a property that is not repeatable (properties.py:96-176). *)
ValidationIsSound ==
  desc # None /\ is_valid(Current, desc.uri, DOMAIN ValueChoices) =>
    \A a \in DOMAIN ValueChoices :
      LET vs == Values(Current, desc.uri, a)
      IN  /\ Prop[a].required => vs # {} /\ (Prop[a].kind = "data" => ~ \E v \in vs : Blank(v))
          /\ ~ Prop[a].repeatable =>
               \A v, w \in vs : v # w => Prop[a].kind = "data" /\ v.lang # w.lang
          /\ vs \cap Prop[a].refused # {} => Cardinality(vs) > 1 /\ ~ Prop[a].repeatable
=============================================================================

-------------------- MODULE DescriptionsAndExportProofs --------------------
(***************************************************************************)
(* Proofs about Descriptions: update() never loses an edit, whatever the    *)
(* mapping computes; then that every graph is finite and means the same     *)
(* wherever it is read, what validation accepts, and that an edit changes   *)
(* no more than it should, for which the mapping's operators are opened.    *)
(* Then about ExportJob: whatever fails, no item is lost uncounted; what is *)
(* loaded from a bag is what its rows name; and what the spreadsheet says   *)
(* of an item, of a changed cell and of the pages is what comes back, which *)
(* takes induction over texts, lists and positions.                         *)
(***************************************************************************)
EXTENDS Descriptions, ExportJob, FiniteSetTheorems, WellFoundedInduction, TLAPS

-----------------------------------------------------------------------------
(* Records have the fields the actions give them.                           *)
Fields ==
  /\ resource = [path |-> resource.path, cur |-> resource.cur, orig |-> resource.orig]
  /\ desc # None =>
       /\ desc = [uri |-> desc.uri, attached |-> desc.attached,
                  cur |-> desc.cur, orig |-> desc.orig]
       /\ desc.attached \in BOOLEAN

Attached == desc # None /\ desc.attached
Known == foreign \cup unsure

(* The resource's original is what the server has, but for what is known to *)
(* have changed: also when it is empty, once a description works on the     *)
(* resource's graph.                                                        *)
OriginalIsServers ==
  resource.orig # {} \/ resource.cur # {} \/ Attached =>
    Differences(server, resource.orig) \subseteq Known

(* A description that was left behind by read() may still be attached: its  *)
(* original is as good, and the resource has no edits of its own.           *)
LeftBehind ==
  desc # None /\ ~ desc.attached /\ desc.orig # {} =>
    /\ resource.path /\ resource.cur = resource.orig
    /\ Differences(server, desc.orig) \subseteq Known

DescInv == Fields /\ OriginalIsServers /\ LeftBehind

-----------------------------------------------------------------------------
(* The original of a PATCH is replaced by what it made of the original: the *)
(* server differs from it in nothing new.                                   *)
LEMMA PatchKeepsDifferences ==
  ASSUME NEW s, NEW orig, NEW cur
  PROVE  Differences((s \ (orig \ cur)) \cup (cur \ orig), cur)
           \subseteq Differences(s, orig)
BY DEF Differences

(* When the answer is lost, what the PATCH may have changed is unsure.      *)
LEMMA LostPatchDifferences ==
  ASSUME NEW s, NEW orig, NEW cur
  PROVE  Differences((s \ (orig \ cur)) \cup (cur \ orig), orig)
           \subseteq Differences(s, orig) \cup (cur \ orig) \cup (orig \ cur)
BY DEF Differences

LEMMA SameGraph == ASSUME NEW g PROVE Differences(g, g) = {}
BY DEF Differences

-----------------------------------------------------------------------------
LEMMA DescInit == Init => DescInv
BY SameGraph DEF Init, DescInv, Fields, OriginalIsServers, LeftBehind, Attached

LEMMA DescRead == DescInv /\ read => DescInv'
<1> SUFFICES ASSUME DescInv, read PROVE DescInv'
  OBVIOUS
<1> USE DEF DescInv
<1>1. /\ resource' = [path |-> resource.path, cur |-> server, orig |-> server]
      /\ server' = server /\ resource.path
  BY DEF read, Fields
<1>2. Fields'
  BY <1>1 DEF read, Fields
<1>3. OriginalIsServers'
  BY <1>1, SameGraph DEF OriginalIsServers, Known
<1>4. LeftBehind'
  <2>1. CASE desc = None
    BY <2>1 DEF read, LeftBehind
  <2>2. CASE Attached
    <3>1. /\ desc'.orig = resource.orig
          /\ Differences(server, resource.orig) \subseteq Known
          /\ foreign' = foreign /\ unsure' = unsure
      BY <2>2 DEF read, Attached, OriginalIsServers
    <3> QED BY <3>1, <1>1 DEF LeftBehind, Known
  <2>3. CASE desc # None /\ ~ Attached
    <3>1. desc' = desc /\ foreign' = foreign /\ unsure' = unsure
      BY <2>3 DEF read, Attached
    <3> QED BY <3>1, <1>1 DEF LeftBehind, Known
  <2> QED BY <2>1, <2>2, <2>3
<1> QED BY <1>2, <1>3, <1>4

LEMMA DescDescribe == DescInv /\ describe => DescInv'
<1> SUFFICES ASSUME DescInv, describe PROVE DescInv'
  OBVIOUS
<1> USE DEF DescInv
<1> DEFINE types == TypesOf(Url_, Class)
<1>1. /\ server' = server /\ foreign' = foreign /\ unsure' = unsure
      /\ desc = None
      /\ desc' = [uri |-> Url_, attached |-> resource.cur # {}, orig |-> {},
                  cur |-> IF resource.cur # {} THEN {} ELSE types]
      /\ resource' = [path |-> resource.path, orig |-> resource.orig,
                      cur |-> IF resource.cur # {} THEN resource.cur \cup types
                              ELSE resource.cur]
  BY DEF describe, Fields
<1> HIDE DEF types
<1>2. Fields'
  BY <1>1 DEF Fields
<1>3. OriginalIsServers'
  BY <1>1 DEF OriginalIsServers, Known, Attached
<1>4. LeftBehind'
  BY <1>1 DEF LeftBehind
<1> QED BY <1>2, <1>3, <1>4

(* An edit changes one graph in hand and neither original.                  *)
LEMMA DescEdit ==
  ASSUME NEW g, desc # None, DescInv, Edit(g) PROVE DescInv'
<1> USE DEF DescInv
<1>1. /\ server' = server /\ foreign' = foreign /\ unsure' = unsure
      /\ WithCurrent(g)
  BY DEF Edit
<1>2. CASE desc.attached
  <2>1. /\ desc' = desc
        /\ resource' = [path |-> resource.path, cur |-> g, orig |-> resource.orig]
    BY <1>1, <1>2 DEF WithCurrent, Fields
  <2> QED
    BY <1>1, <1>2, <2>1 DEF Fields, OriginalIsServers, LeftBehind, Attached, Known
<1>3. CASE ~ desc.attached
  <2>1. /\ resource' = resource
        /\ desc' = [uri |-> desc.uri, attached |-> desc.attached,
                    cur |-> g, orig |-> desc.orig]
    BY <1>1, <1>3 DEF WithCurrent, Fields
  <2>2. Fields'
    BY <1>1, <2>1 DEF Fields
  <2>3. OriginalIsServers' /\ LeftBehind'
    BY <1>1, <1>3, <2>1 DEF OriginalIsServers, LeftBehind, Attached, Known
  <2> QED BY <2>2, <2>3
<1> QED BY <1>2, <1>3

LEMMA DescAttach == DescInv /\ attach_description => DescInv'
<1> SUFFICES ASSUME DescInv, attach_description PROVE DescInv'
  OBVIOUS
<1> USE DEF DescInv
<1> DEFINE g == change_uri(Current, desc.uri.base, Url)
<1>1. /\ server' = server /\ foreign' = foreign /\ unsure' = unsure
      /\ desc # None
      /\ desc.attached \/ desc.orig # {}
      /\ desc' = [uri |-> Uri(Url), attached |-> TRUE, cur |-> {}, orig |-> {}]
      /\ resource' = [path |-> resource.path, cur |-> g,
                      orig |-> IF desc.attached THEN resource.orig ELSE desc.orig]
  BY DEF attach_description, Fields
<1> HIDE DEF g
<1>2. Fields'
  BY <1>1 DEF Fields
<1>3. OriginalIsServers'
  <2>1. CASE desc.attached
    BY <1>1, <2>1 DEF OriginalIsServers, Attached, Known
  <2>2. CASE ~ desc.attached
    BY <1>1, <2>2 DEF OriginalIsServers, LeftBehind, Known
  <2> QED BY <2>1, <2>2
<1>4. LeftBehind'
  BY <1>1 DEF LeftBehind
<1> QED BY <1>2, <1>3, <1>4

LEMMA DescCreate == DescInv /\ create_child => DescInv'
<1> SUFFICES ASSUME DescInv, create_child PROVE DescInv'
  OBVIOUS
<1> USE DEF DescInv
<1> DEFINE g == change_uri(desc.cur, desc.uri.base, Empty)
           made == Resolve(g)
           moved == change_uri(g, Empty, Url)
<1>1. /\ foreign' = foreign /\ unsure' = unsure
      /\ desc # None /\ ~ desc.attached /\ ~ resource.path
  BY DEF create_child
<1>2. desc.orig = {}
  BY <1>1 DEF LeftBehind
<1>3. CASE /\ desc' = [desc EXCEPT !.uri = Uri(Empty), !.cur = g]
           /\ UNCHANGED <<server, resource>>
  <2>1. /\ desc' = [uri |-> Uri(Empty), attached |-> desc.attached,
                    cur |-> g, orig |-> {}]
        /\ server' = server /\ resource' = resource
    BY <1>2, <1>1, <1>3 DEF Fields
  <2> HIDE DEF g
  <2> QED BY <1>1, <2>1 DEF Fields, OriginalIsServers, LeftBehind, Attached, Known
<1>4. CASE /\ server' = made
           /\ resource' = [path |-> TRUE, cur |-> made, orig |-> made]
           /\ desc' = [desc EXCEPT !.uri = Uri(Url), !.cur = moved]
  <2>1. desc' = [uri |-> Uri(Url), attached |-> desc.attached,
                 cur |-> moved, orig |-> {}]
    BY <1>2, <1>1, <1>4 DEF Fields
  <2> HIDE DEF made, moved
  <2>2. Fields'
    BY <1>1, <1>4, <2>1 DEF Fields
  <2>3. OriginalIsServers'
    <3>1. server' = made /\ resource'.orig = made
      BY <1>4
    <3> QED BY <3>1, SameGraph DEF OriginalIsServers
  <2>4. LeftBehind'
    BY <2>1 DEF LeftBehind
  <2> QED BY <2>2, <2>3, <2>4
<1> QED BY <1>3, <1>4 DEF create_child

LEMMA DescUpdate == DescInv /\ update => DescInv'
<1> SUFFICES ASSUME DescInv, update PROVE DescInv'
  OBVIOUS
<1> USE DEF DescInv
<1> DEFINE cur == resource.cur
           orig == resource.orig
<1>1. /\ server' = (server \ (orig \ cur)) \cup (cur \ orig)
      /\ desc' = desc /\ foreign' = foreign
      /\ cur # orig
  BY DEF update, has_changes, inserts, deletes
<1>2. Differences(server, orig) \subseteq Known
  BY <1>1 DEF OriginalIsServers
<1>3. LeftBehind'
  BY <1>1 DEF LeftBehind
<1>4. CASE resource' = [resource EXCEPT !.orig = cur] /\ UNCHANGED unsure
  <2>1. resource' = [path |-> resource.path, cur |-> cur, orig |-> cur]
    BY <1>4 DEF Fields
  <2>2. Differences(server', cur) \subseteq Known
    BY <1>1, <1>2, PatchKeepsDifferences
  <2>3. Fields'
    BY <1>1, <2>1 DEF Fields
  <2>4. OriginalIsServers'
    BY <1>1, <1>4, <2>1, <2>2 DEF OriginalIsServers, Known
  <2> QED BY <1>3, <2>3, <2>4
<1>5. CASE unsure' = unsure \cup inserts \cup deletes /\ UNCHANGED resource
  <2>1. Differences(server', orig) \subseteq Known'
    BY <1>1, <1>2, <1>5, LostPatchDifferences DEF Known, inserts, deletes
  <2>2. Fields'
    BY <1>1, <1>5 DEF Fields
  <2>3. OriginalIsServers'
    BY <1>5, <2>1 DEF OriginalIsServers
  <2> QED BY <1>3, <2>2, <2>3
<1> QED BY <1>4, <1>5 DEF update

LEMMA DescOtherClient ==
  ASSUME NEW t, DescInv, OtherClient(t) PROVE DescInv'
<1> USE DEF DescInv
<1>1. /\ resource' = resource /\ desc' = desc /\ unsure' = unsure
      /\ foreign' = foreign \cup {t}
      /\ server' \subseteq server \cup {t} /\ server \subseteq server' \cup {t}
  BY DEF OtherClient
<1>2. \A g : Differences(server, g) \subseteq Known
               => Differences(server', g) \subseteq Known'
  BY <1>1 DEF Differences, Known
<1> QED BY <1>1, <1>2 DEF Fields, OriginalIsServers, LeftBehind, Attached

LEMMA DescStep == DescInv /\ [Next]_vars => DescInv'
<1> SUFFICES ASSUME DescInv, [Next]_vars PROVE DescInv'
  OBVIOUS
<1>1. CASE Discard
  BY <1>1 DEF Discard, DescInv, Fields, OriginalIsServers, LeftBehind, Attached, Known
<1>2. CASE \E a \in DOMAIN ValueChoices : \E vs \in ValueChoices[a] : Set(a, vs) \/ Add(a, vs)
  BY <1>2, DescEdit DEF Set, Add
<1>3. CASE UNCHANGED vars
  BY <1>3 DEF vars, DescInv, Fields, OriginalIsServers, LeftBehind, Attached, Known
<1> QED
  BY <1>1, <1>2, <1>3, DescRead, DescDescribe, DescAttach, DescCreate, DescUpdate,
     DescOtherClient DEF Next

-----------------------------------------------------------------------------
(* A resource that has been read or created and has nothing left to send is *)
(* what the repository says it is, whatever its properties are and however  *)
(* often requests fail (repo/__init__.py:230-243).                          *)
THEOREM SynchronisedByUpdate == Spec => []UpdateSynchronises
<1>1. DescInv => UpdateSynchronises
  <2> SUFFICES ASSUME DescInv, resource.orig # {}, ~ has_changes
               PROVE  Differences(server, resource.cur) \subseteq foreign \cup unsure
    BY DEF UpdateSynchronises
  <2>1. resource.cur = resource.orig
    BY DEF has_changes, inserts, deletes
  <2> QED BY <2>1 DEF DescInv, OriginalIsServers, Known
<1> QED BY DescInit, DescStep, <1>1, PTL DEF Spec

-----------------------------------------------------------------------------
(* The shape of the graphs.  A proper graph is finite, its nodes are nodes  *)
(* and it means the same wherever it is read; one under the empty URI is    *)
(* proper but for that.                                                     *)
FiniteGraph(g) == IsFiniteSet(g) /\ IsGraph(g)
Proper(g) == FiniteGraph(g) /\ AbsoluteGraph(g)

(* What is said under the URI of base b: proper unless b is the empty URI.  *)
UnderBase(g, b) == FiniteGraph(g) /\ (b # Empty => AbsoluteGraph(g))

ProperServer == server = Absent \/ Proper(server)
ProperResource ==
  /\ Proper(resource.cur) /\ Proper(resource.orig)
  /\ resource.path \in BOOLEAN
  /\ IF resource.path THEN Proper(server) ELSE resource.cur = {} /\ resource.orig = {}
ProperDescription ==
  desc # None =>
    /\ desc.uri = Uri(desc.uri.base) /\ desc.uri.base \in {Url, Urn, Empty}
    /\ UnderBase(desc.cur, desc.uri.base) /\ Proper(desc.orig)
    /\ desc.attached => /\ desc.uri.base = Url /\ resource.path
                        /\ desc.cur = {} /\ desc.orig = {}
ProperRest == foreign \subseteq Foreign /\ edits \in 0..MaxEdits
ProperInv ==
  DescInv /\ ProperServer /\ ProperResource /\ ProperDescription /\ ProperRest

-----------------------------------------------------------------------------
(* Finite sets of triples.                                                  *)
LEMMA FiniteRange ==
  ASSUME NEW S, IsFiniteSet(S), NEW f, DOMAIN f = S
  PROVE  IsFiniteSet({f[x] : x \in S})
<1> DEFINE T == {f[x] : x \in S}
           g == [x \in S |-> f[x]]
<1>1. g \in Surjection(S, T)
  BY DEF Surjection
<1> QED BY <1>1, FS_Surjection

LEMMA EmptyGraph == Proper({})
BY FS_EmptySet DEF Proper, FiniteGraph, IsGraph, AbsoluteGraph

LEMMA UnionOfGraphs ==
  ASSUME NEW g, NEW h, NEW b, UnderBase(g, b), UnderBase(h, b)
  PROVE  UnderBase(g \cup h, b)
<1>1. IsFiniteSet(g \cup h)
  BY FS_Union DEF UnderBase, FiniteGraph
<1> QED BY <1>1 DEF UnderBase, FiniteGraph, IsGraph, AbsoluteGraph

LEMMA UnionOfAll ==
  ASSUME NEW S, IsFiniteSet(S), NEW b, \A g \in S : UnderBase(g, b)
  PROVE  UnderBase(UNION S, b)
<1>1. IsFiniteSet(UNION S)
  BY FS_UNION DEF UnderBase, FiniteGraph
<1> QED BY <1>1 DEF UnderBase, FiniteGraph, IsGraph, AbsoluteGraph

LEMMA PartOfGraph ==
  ASSUME NEW g, NEW h, h \subseteq g, NEW b, UnderBase(g, b)
  PROVE  UnderBase(h, b)
<1>1. IsFiniteSet(h)
  BY FS_Subset DEF UnderBase, FiniteGraph
<1> QED BY <1>1 DEF UnderBase, FiniteGraph, IsGraph, AbsoluteGraph

(* A set of triples that is given triple by triple.                         *)
LEMMA ProperIsUnderAny ==
  ASSUME NEW g, NEW b, Proper(g) PROVE UnderBase(g, b)
BY DEF Proper, UnderBase

LEMMA UnderOtherIsProper ==
  ASSUME NEW g, NEW b, UnderBase(g, b), b # Empty PROVE Proper(g)
BY DEF Proper, UnderBase

LEMMA UriParts ==
  ASSUME NEW b, NEW f
  PROVE  LET n == [base |-> b, frag |-> f] IN IsUri(n) /\ n.base = b /\ n.frag = f
BY DEF IsUri

LEMMA TripleParts ==
  ASSUME NEW s, NEW p, NEW o
  PROVE  /\ Triple(s, p, o).s = s /\ Triple(s, p, o).p = p /\ Triple(s, p, o).o = o
BY DEF Triple

(* Links from a node of the description to values that stand anywhere.      *)
LEMMA LinksGraph ==
  ASSUME NEW u, IsUri(u), u.base \in Bases, NEW a, NEW vs, IsValueSet(vs)
  PROVE  UnderBase(Links(u, a, vs), u.base)
<1> DEFINE f == [v \in vs |-> Triple(u, Prop[a].predicate, v)]
           ls == Links(u, a, vs)
<1>1. IsFiniteSet(ls)
  <2>1. ls = {f[v] : v \in vs} /\ DOMAIN f = vs /\ IsFiniteSet(vs)
    BY DEF Links, IsValueSet
  <2> HIDE DEF f, ls
  <2> QED BY <2>1, FiniteRange
<1>2. \A t \in ls : t = Triple(t.s, t.p, t.o) /\ t.s = u /\ t.o \in vs
  BY TripleParts DEF Links
<1> QED BY <1>1, <1>2 DEF UnderBase, FiniteGraph, IsGraph, AbsoluteGraph, IsValueSet, Absolute

-----------------------------------------------------------------------------
(* What the mapping does to a graph.                                        *)
LEMMA TypesGraph ==
  ASSUME NEW u, IsUri(u), u.base \in Bases, NEW c \in Classes
  PROVE  UnderBase(TypesOf(u, c), u.base)
BY LinksGraph, TypesAssumption DEF TypesOf

(* What embed() says of the object n with its keyword arguments.            *)
Said(n, kwargs) == UNION {Links(n, b, kwargs[b]) : b \in DOMAIN kwargs}

LEMMA EmbedParts ==
  ASSUME NEW u, NEW a, NEW e
  PROVE  Embed(u, a, e) =
           (TypesOf(EmbeddedUri(u, e), Prop[a].cls) \cup Said(EmbeddedUri(u, e), e.kwargs))
             \cup Links(u, a, {EmbeddedUri(u, e)})
BY DEF Embed, Said

LEMMA EmbedGraph ==
  ASSUME NEW u, IsUri(u), u.base \in Bases, NEW a \in DOMAIN ValueChoices,
         Prop[a].kind = "embedded", NEW vs \in ValueChoices[a], NEW e \in vs
  PROVE  UnderBase(Embed(u, a, e), u.base)
<1> DEFINE n == EmbeddedUri(u, e)
           names == DOMAIN e.kwargs
           f == [b \in names |-> Links(n, b, e.kwargs[b])]
           said == Said(n, e.kwargs)
<1>0. Embed(u, a, e) = (TypesOf(n, Prop[a].cls) \cup said) \cup Links(u, a, {n})
  BY EmbedParts
<1>1. IsUri(n) /\ n.base = u.base
  BY UriParts DEF EmbeddedUri
<1>2. /\ Prop[a].cls \in Classes /\ IsFiniteSet(names)
      /\ \A b \in names : IsValueSet(e.kwargs[b])
  BY ChoiceAssumption
<1>3. UnderBase(TypesOf(n, Prop[a].cls), u.base)
  BY <1>1, <1>2, TypesGraph
<1>4. UnderBase(said, u.base)
  <2> DEFINE gs == {f[b] : b \in names}
  <2>1. said = UNION gs
    BY DEF Said
  <2>2. IsFiniteSet(gs)
    <3>1. DOMAIN f = names
      OBVIOUS
    <3> HIDE DEF f
    <3> QED BY <1>2, <3>1, FiniteRange
  <2>3. \A b \in names : UnderBase(f[b], u.base)
    <3> SUFFICES ASSUME NEW b \in names PROVE UnderBase(Links(n, b, e.kwargs[b]), u.base)
      OBVIOUS
    <3> HIDE DEF n
    <3> QED BY <1>1, <1>2, LinksGraph
  <2>4. \A g \in gs : UnderBase(g, u.base)
    BY <2>3
  <2> HIDE DEF gs, said
  <2> QED BY <2>1, <2>2, <2>4, UnionOfAll
<1>5. CASE u.base # Empty
  <2>1. IsValueSet({n})
    BY <1>1, <1>5, FS_Singleton DEF IsValueSet, IsNode, Absolute
  <2>2. UnderBase(Links(u, a, {n}), u.base)
    BY <2>1, LinksGraph
  <2> HIDE DEF said, n
  <2>3. UnderBase(TypesOf(n, Prop[a].cls) \cup said, u.base)
    BY <1>3, <1>4, UnionOfGraphs
  <2> QED BY <1>0, <2>2, <2>3, UnionOfGraphs
<1>6. CASE u.base = Empty
  <2>1. UnderBase(Links(u, a, {n}), u.base)
    <3>1. Links(u, a, {n}) = {Triple(u, Prop[a].predicate, n)}
      BY DEF Links
    <3>2. IsFiniteSet(Links(u, a, {n}))
      BY <3>1, FS_Singleton
    <3>3. IsGraph(Links(u, a, {n}))
      BY <1>1, <3>1, TripleParts DEF IsGraph, IsNode
    <3> QED BY <1>6, <3>2, <3>3 DEF UnderBase, FiniteGraph
  <2> HIDE DEF said, n
  <2>2. UnderBase(TypesOf(n, Prop[a].cls) \cup said, u.base)
    BY <1>3, <1>4, UnionOfGraphs
  <2> QED BY <1>0, <2>1, <2>2, UnionOfGraphs
<1> QED BY <1>5, <1>6

LEMMA AddGraph ==
  ASSUME NEW g, NEW u, IsUri(u), u.base \in Bases, UnderBase(g, u.base),
         NEW a \in DOMAIN ValueChoices, NEW vs \in ValueChoices[a]
  PROVE  UnderBase(AddAll(g, u, a, vs), u.base)
<1>1. CASE Prop[a].kind = "embedded"
  <2> DEFINE f == [e \in vs |-> Embed(u, a, e)]
             gs == {f[e] : e \in vs}
  <2>1. UNION {Embed(u, a, e) : e \in vs} = UNION gs
    OBVIOUS
  <2>2. IsFiniteSet(gs)
    <3>1. DOMAIN f = vs /\ IsFiniteSet(vs)
      BY <1>1, ChoiceAssumption
    <3> HIDE DEF f
    <3> QED BY <3>1, FiniteRange
  <2>3. \A h \in gs : UnderBase(h, u.base)
    BY <1>1, EmbedGraph
  <2> HIDE DEF gs
  <2>4. UnderBase(UNION gs, u.base)
    BY <2>2, <2>3, UnionOfAll
  <2> QED BY <1>1, <2>1, <2>4, UnionOfGraphs DEF AddAll
<1>2. CASE Prop[a].kind # "embedded"
  <2>1. UnderBase(Links(u, a, vs), u.base)
    BY <1>2, ChoiceAssumption, LinksGraph
  <2> QED BY <1>2, <2>1, UnionOfGraphs DEF AddAll
<1> QED BY <1>1, <1>2

(* set_properties() of one property: it is cleared and filled.              *)
Cleared(g, u, a) == g \ Links(u, a, Values(g, u, a))
AfterSet(g, u, a, vs) == Cleared(g, u, a) \cup AddAll({}, u, a, vs)

LEMMA SetOne ==
  ASSUME NEW g, NEW u, NEW a, NEW vs
  PROVE  set_properties(g, u, [b \in {a} |-> vs]) = AfterSet(g, u, a, vs)
<1> DEFINE k == [b \in {a} |-> vs]
<1>1. DOMAIN k = {a} /\ k[a] = vs
  OBVIOUS
<1> HIDE DEF k
<1>2. /\ UNION {Links(u, b, Values(g, u, b)) : b \in {a}} = Links(u, a, Values(g, u, a))
      /\ UNION {AddAll({}, u, b, k[b]) : b \in {a}} = AddAll({}, u, a, vs)
  BY <1>1
<1>3. set_properties(g, u, k) = AfterSet(g, u, a, vs)
  BY <1>1, <1>2 DEF set_properties, AfterSet, Cleared
<1> QED BY <1>3 DEF k

LEMMA SetGraph ==
  ASSUME NEW g, NEW u, IsUri(u), u.base \in Bases, UnderBase(g, u.base),
         NEW a \in DOMAIN ValueChoices, NEW vs \in ValueChoices[a]
  PROVE  UnderBase(AfterSet(g, u, a, vs), u.base)
<1>1. UnderBase({}, u.base)
  BY EmptyGraph, ProperIsUnderAny
<1>2. UnderBase(AddAll({}, u, a, vs), u.base)
  BY <1>1, AddGraph
<1>3. UnderBase(Cleared(g, u, a), u.base)
  BY PartOfGraph DEF Cleared
<1> QED BY <1>2, <1>3, UnionOfGraphs DEF AfterSet

(* Moving a graph to another base.                                          *)
LEMMA NodeKinds == ASSUME NEW n, IsUri(n) PROVE ~ IsLiteral(n) /\ \A from : ~ IsHash(n, from)
<1>1. {"base", "frag"} # {"text", "lang", "type"}
  OBVIOUS
<1> QED BY <1>1 DEF IsUri, IsLiteral, IsHash

LEMMA UpdateNodeCases ==
  ASSUME NEW n, NEW old, NEW new
  PROVE  LET m == update_node(n, old, new)
         IN  /\ IsUri(n) /\ n.base # old => m = n
             /\ IsUri(n) /\ n.base = old =>
                  IF old = Empty /\ new # Empty /\ n.frag # NoFragment
                  THEN m = [n EXCEPT !.base = "mangled"] ELSE m = [n EXCEPT !.base = new]
             /\ ~ IsUri(n) /\ IsHash(n, old) =>
                  m = [base |-> IF old = Empty /\ new # Empty THEN "mangled" ELSE new,
                       frag |-> "#"]
             /\ ~ IsUri(n) /\ ~ IsHash(n, old) => m = n
<1>1. CASE IsUri(n) /\ n.base # old
  BY <1>1, NodeKinds DEF update_node
<1>2. CASE IsUri(n) /\ n.base = old
  BY <1>2, NodeKinds DEF update_node
<1>3. CASE ~ IsUri(n)
  BY <1>3 DEF update_node
<1> QED BY <1>1, <1>2, <1>3

LEMMA MovedNode ==
  ASSUME NEW n, NEW old, NEW new \in Bases
  PROVE  LET m == update_node(n, old, new)
         IN  /\ IsNode(n) => IsNode(m)
             /\ IsUri(n) => IsUri(m)
             /\ IsUri(n) /\ n.base \in Bases => m.base \in Bases
             /\ new # Empty /\ (old # Empty => Absolute(n)) => Absolute(m)
<1> DEFINE m == update_node(n, old, new)
<1>1. CASE IsUri(n)
  <2>1. CASE n.base # old
    <3>1. m = n
      BY <1>1, <2>1, UpdateNodeCases
    <3>2. new # Empty /\ (old # Empty => Absolute(n)) => n.base # Empty
      BY <1>1, <2>1 DEF Absolute
    <3> QED BY <1>1, <3>1, <3>2 DEF Absolute
  <2>2. CASE n.base = old
    <3>1. m = [n EXCEPT !.base = new] \/ m = [n EXCEPT !.base = "mangled"]
      BY <1>1, <2>2, UpdateNodeCases
    <3>2. DOMAIN m = {"base", "frag"} /\ (m.base = new \/ m.base = "mangled")
      BY <1>1, <3>1 DEF IsUri
    <3>3. new # Empty => m.base # Empty
      BY <3>2 DEF Empty
    <3> HIDE DEF m
    <3>4. m.base \in Bases
      BY <3>2 DEF Bases
    <3>5. IsUri(m)
      BY <3>2 DEF IsUri
    <3> QED BY <1>1, <3>3, <3>4, <3>5 DEF IsNode, Absolute, m
  <2> QED BY <2>1, <2>2
<1>2. CASE ~ IsUri(n)
  <2>1. CASE IsHash(n, old)
    <3>1. m = [base |-> IF old = Empty /\ new # Empty THEN "mangled" ELSE new, frag |-> "#"]
      BY <1>2, <2>1, UpdateNodeCases
    <3>2. IsUri(m) /\ (new # Empty => m.base # Empty)
      <4> DEFINE b == IF old = Empty /\ new # Empty THEN "mangled" ELSE new
      <4>1. new # Empty => b # Empty
        BY DEF Empty
      <4> HIDE DEF b, m
      <4>2. m = [base |-> b, frag |-> "#"]
        BY <3>1 DEF b
      <4> QED BY <4>1, <4>2 DEF IsUri
    <3> HIDE DEF m
    <3> QED BY <1>2, <3>2 DEF IsNode, Absolute, m
  <2>2. CASE ~ IsHash(n, old)
    <3>1. m = n
      BY <1>2, <2>2, UpdateNodeCases
    <3> QED BY <1>2, <3>1 DEF Absolute
  <2> QED BY <2>1, <2>2
<1> QED BY <1>1, <1>2

LEMMA MovedGraph ==
  ASSUME NEW g, NEW old, NEW new \in Bases, UnderBase(g, old)
  PROVE  UnderBase(change_uri(g, old, new), new)
<1> DEFINE f == [t \in g |-> Triple(update_node(t.s, old, new), t.p,
                                    update_node(t.o, old, new))]
           h == change_uri(g, old, new)
<1>1. h = {f[t] : t \in g}
  BY DEF change_uri
<1>2. IsFiniteSet(h)
  <2>1. DOMAIN f = g /\ IsFiniteSet(g)
    BY DEF UnderBase, FiniteGraph
  <2> HIDE DEF f, h
  <2> QED BY <1>1, <2>1, FiniteRange
<1>3. ASSUME NEW t \in h
      PROVE  /\ t = Triple(t.s, t.p, t.o)
             /\ IsUri(t.s) /\ t.s.base \in Bases /\ IsNode(t.o)
             /\ new # Empty => Absolute(t.s) /\ Absolute(t.o)
  <2>1. PICK t0 \in g : t = Triple(update_node(t0.s, old, new), t0.p,
                                   update_node(t0.o, old, new))
    BY DEF change_uri
  <2>2. /\ t.s = update_node(t0.s, old, new) /\ t.o = update_node(t0.o, old, new)
        /\ t = Triple(t.s, t.p, t.o)
    BY <2>1, TripleParts
  <2>3. /\ IsUri(t0.s) /\ t0.s.base \in Bases /\ IsNode(t0.o)
        /\ old # Empty => Absolute(t0.s) /\ Absolute(t0.o)
    BY DEF UnderBase, FiniteGraph, IsGraph, AbsoluteGraph
  <2> HIDE DEF h
  <2> QED BY <2>2, <2>3, MovedNode
<1> HIDE DEF h
<1> QED BY <1>2, <1>3 DEF UnderBase, FiniteGraph, IsGraph, AbsoluteGraph, h

LEMMA ResolvedGraph ==
  ASSUME NEW g, FiniteGraph(g) PROVE Proper(Resolve(g))
<1> DEFINE f == [t \in g |-> Triple(Resolved(t.s), t.p, Resolved(t.o))]
           h == Resolve(g)
<1>1. h = {f[t] : t \in g}
  BY DEF Resolve
<1>2. IsFiniteSet(h)
  <2>1. DOMAIN f = g /\ IsFiniteSet(g)
    BY DEF FiniteGraph
  <2> HIDE DEF f, h
  <2> QED BY <1>1, <2>1, FiniteRange
<1>3. ASSUME NEW n
      PROVE  /\ IsUri(n) => IsUri(Resolved(n))
             /\ IsUri(n) /\ n.base \in Bases => Resolved(n).base \in Bases
             /\ IsNode(n) => IsNode(Resolved(n))
             /\ Absolute(Resolved(n))
  <2>1. CASE IsUri(n) /\ n.base = Empty
    <3>1. Resolved(n) = [n EXCEPT !.base = Url]
      BY <2>1 DEF Resolved
    <3>2. DOMAIN Resolved(n) = {"base", "frag"} /\ Resolved(n).base = Url
      BY <2>1, <3>1 DEF IsUri
    <3> QED BY <3>2, NameAssumption DEF IsUri, IsNode, Absolute, Bases
  <2>2. CASE ~ (IsUri(n) /\ n.base = Empty)
    BY <2>2 DEF Resolved, Absolute
  <2> QED BY <2>1, <2>2
<1>4. ASSUME NEW t \in h
      PROVE  /\ t = Triple(t.s, t.p, t.o)
             /\ IsUri(t.s) /\ t.s.base \in Bases /\ IsNode(t.o)
             /\ Absolute(t.s) /\ Absolute(t.o)
  <2>1. PICK t0 \in g : t = Triple(Resolved(t0.s), t0.p, Resolved(t0.o))
    BY DEF Resolve
  <2>2. t.s = Resolved(t0.s) /\ t.o = Resolved(t0.o) /\ t = Triple(t.s, t.p, t.o)
    BY <2>1, TripleParts
  <2>3. IsUri(t0.s) /\ t0.s.base \in Bases /\ IsNode(t0.o)
    BY DEF FiniteGraph, IsGraph
  <2> QED BY <1>3, <2>2, <2>3
<1> HIDE DEF h
<1> QED BY <1>2, <1>4 DEF Proper, FiniteGraph, IsGraph, AbsoluteGraph, h

-----------------------------------------------------------------------------
(* Every step keeps the graphs proper.                                      *)
LEMMA UriOf == ASSUME NEW b PROVE IsUri(Uri(b)) /\ Uri(b).base = b
BY UriParts DEF Uri

LEMMA ProperInit == Init => ProperInv
<1> SUFFICES ASSUME Init PROVE ProperInv
  OBVIOUS
<1>1. DescInv
  BY DescInit
<1>2. ProperServer
  BY GraphAssumption DEF Init, ProperServer, Proper, FiniteGraph
<1>3. ProperResource
  <2>1. resource.path = (server # Absent) /\ resource.cur = {} /\ resource.orig = {}
    BY DEF Init
  <2> QED BY <1>2, <2>1, EmptyGraph DEF ProperServer, ProperResource
<1>4. ProperDescription /\ ProperRest
  BY BoundAssumption DEF Init, ProperDescription, ProperRest
<1> QED BY <1>1, <1>2, <1>3, <1>4 DEF ProperInv

LEMMA ProperRead == ProperInv /\ read => ProperInv'
<1> SUFFICES ASSUME ProperInv, read PROVE ProperInv'
  OBVIOUS
<1> USE DEF ProperInv
<1>1. /\ resource' = [path |-> resource.path, cur |-> server, orig |-> server]
      /\ server' = server /\ edits' = edits /\ resource.path
      /\ foreign' \subseteq foreign
  BY DEF read, DescInv, Fields
<1>2. DescInv'
  BY DescRead
<1>3. ProperServer' /\ ProperResource' /\ ProperRest'
  BY <1>1 DEF ProperServer, ProperResource, ProperRest
<1>4. ProperDescription'
  <2>1. CASE Attached
    <3>1. desc' = [uri |-> desc.uri, attached |-> FALSE,
                   cur |-> resource.cur, orig |-> resource.orig]
      BY <2>1 DEF read, Attached
    <3>2. UnderBase(resource.cur, desc.uri.base)
      BY ProperIsUnderAny DEF ProperResource
    <3> QED BY <2>1, <3>1, <3>2 DEF ProperDescription, ProperResource, Attached
  <2>2. CASE ~ Attached
    <3>1. desc' = desc
      BY <2>2 DEF read, Attached
    <3> QED BY <1>1, <2>2, <3>1 DEF ProperDescription, Attached
  <2> QED BY <2>1, <2>2
<1> QED BY <1>2, <1>3, <1>4

LEMMA ProperDescribe == ProperInv /\ describe => ProperInv'
<1> SUFFICES ASSUME ProperInv, describe PROVE ProperInv'
  OBVIOUS
<1> USE DEF ProperInv
<1> DEFINE types == TypesOf(Url_, Class)
<1>1. /\ server' = server /\ foreign' = foreign /\ edits' = edits
      /\ desc = None
      /\ desc' = [uri |-> Url_, attached |-> resource.cur # {}, orig |-> {},
                  cur |-> IF resource.cur # {} THEN {} ELSE types]
      /\ resource' = [path |-> resource.path, orig |-> resource.orig,
                      cur |-> IF resource.cur # {} THEN resource.cur \cup types
                              ELSE resource.cur]
  BY DEF describe, DescInv, Fields
<1>2. DescInv'
  BY DescDescribe
<1>3. /\ IsUri(Url_) /\ Url_ = Uri(Url_.base) /\ Url_.base \in {Url, Urn}
      /\ resource.path => Url_.base = Url
  BY UriOf DEF Url_
<1>4. Proper(types)
  <2>1. Url_.base \in Bases /\ Url_.base # Empty
    BY <1>3, NameAssumption DEF Bases
  <2>2. UnderBase(types, Url_.base)
    BY <1>3, <2>1, TypesGraph, TypesAssumption
  <2> QED BY <2>1, <2>2, UnderOtherIsProper
<1> HIDE DEF types
<1>5. Proper(resource.cur \cup types)
  <2>1. UnderBase(resource.cur, Url) /\ UnderBase(types, Url)
    BY <1>4, ProperIsUnderAny DEF ProperResource
  <2> QED BY <2>1, UnionOfGraphs, UnderOtherIsProper, NameAssumption
<1>6. ProperServer' /\ ProperRest'
  BY <1>1 DEF ProperServer, ProperRest
<1>7. ProperResource'
  <2>1. CASE resource.cur # {}
    BY <1>1, <1>5, <2>1 DEF ProperResource
  <2>2. CASE resource.cur = {}
    BY <1>1, <2>2 DEF ProperResource
  <2> QED BY <2>1, <2>2
<1>8. ProperDescription'
  <2>1. /\ desc'.uri = Uri(desc'.uri.base) /\ desc'.uri.base \in {Url, Urn, Empty}
        /\ desc'.orig = {} /\ resource'.path = resource.path
    BY <1>1, <1>3
  <2>2. CASE resource.cur # {}
    <3>1. desc'.attached /\ desc'.cur = {} /\ resource.path /\ desc'.uri.base = Url
      BY <1>1, <1>3, <2>2 DEF ProperResource
    <3> QED BY <2>1, <3>1, EmptyGraph, ProperIsUnderAny DEF ProperDescription
  <2>3. CASE resource.cur = {}
    <3>1. ~ desc'.attached /\ desc'.cur = types
      BY <1>1, <2>3
    <3> QED BY <1>4, <2>1, <3>1, EmptyGraph, ProperIsUnderAny DEF ProperDescription
  <2> QED BY <2>2, <2>3
<1> QED BY <1>2, <1>6, <1>7, <1>8

LEMMA CurrentGraph ==
  ASSUME ProperInv, desc # None
  PROVE  /\ IsUri(desc.uri) /\ desc.uri.base \in Bases
         /\ UnderBase(Current, desc.uri.base)
<1>1. IsUri(desc.uri) /\ desc.uri.base \in Bases
  BY UriOf DEF ProperInv, ProperDescription, Bases
<1>2. CASE desc.attached
  <2>1. Current = resource.cur
    BY <1>2 DEF Current
  <2>2. UnderBase(resource.cur, desc.uri.base)
    BY ProperIsUnderAny DEF ProperInv, ProperResource
  <2> QED BY <1>1, <2>1, <2>2
<1>3. CASE ~ desc.attached
  <2>1. Current = desc.cur
    BY <1>3 DEF Current
  <2>2. UnderBase(desc.cur, desc.uri.base)
    BY DEF ProperInv, ProperDescription
  <2> QED BY <1>1, <2>1, <2>2
<1> QED BY <1>1, <1>2, <1>3

LEMMA ProperEdit ==
  ASSUME NEW g, ProperInv, desc # None, Edit(g), UnderBase(g, desc.uri.base)
  PROVE  ProperInv'
<1> USE DEF ProperInv
<1>1. /\ server' = server /\ foreign' = foreign /\ edits' = edits + 1
      /\ edits < MaxEdits /\ WithCurrent(g)
  BY DEF Edit
<1>2. DescInv'
  BY DescEdit
<1>3. ProperServer' /\ ProperRest'
  BY <1>1, BoundAssumption DEF ProperServer, ProperRest
<1>4. CASE desc.attached
  <2>1. /\ desc' = desc
        /\ resource' = [path |-> resource.path, cur |-> g, orig |-> resource.orig]
    BY <1>1, <1>4 DEF WithCurrent, DescInv, Fields
  <2>2. Proper(g) /\ resource.path
    BY <1>4, UnderOtherIsProper, NameAssumption DEF ProperDescription
  <2> QED BY <1>1, <1>2, <1>3, <2>1, <2>2 DEF ProperResource, ProperDescription
<1>5. CASE ~ desc.attached
  <2>1. /\ resource' = resource
        /\ desc' = [uri |-> desc.uri, attached |-> desc.attached,
                    cur |-> g, orig |-> desc.orig]
    BY <1>1, <1>5 DEF WithCurrent, DescInv, Fields
  <2> QED BY <1>1, <1>2, <1>3, <1>5, <2>1 DEF ProperResource, ProperDescription
<1> QED BY <1>4, <1>5

LEMMA ProperSet ==
  ASSUME NEW a \in DOMAIN ValueChoices, NEW vs \in ValueChoices[a], ProperInv,
         Set(a, vs) \/ Add(a, vs)
  PROVE  ProperInv'
<1>1. /\ desc # None
      /\ IsUri(desc.uri) /\ desc.uri.base \in Bases
      /\ UnderBase(Current, desc.uri.base)
  BY CurrentGraph DEF Set, Add
<1>2. CASE Set(a, vs)
  <2>1. Edit(AfterSet(Current, desc.uri, a, vs))
    BY <1>2, SetOne DEF Set
  <2>2. UnderBase(AfterSet(Current, desc.uri, a, vs), desc.uri.base)
    BY <1>1, SetGraph
  <2> QED BY <1>1, <2>1, <2>2, ProperEdit
<1>3. CASE Add(a, vs)
  <2>1. Edit(AddAll(Current, desc.uri, a, vs))
    BY <1>3 DEF Add
  <2>2. UnderBase(AddAll(Current, desc.uri, a, vs), desc.uri.base)
    BY <1>1, AddGraph
  <2> QED BY <1>1, <2>1, <2>2, ProperEdit
<1> QED BY <1>2, <1>3

LEMMA ProperAttach == ProperInv /\ attach_description => ProperInv'
<1> SUFFICES ASSUME ProperInv, attach_description PROVE ProperInv'
  OBVIOUS
<1> USE DEF ProperInv
<1> DEFINE g == change_uri(Current, desc.uri.base, Url)
<1>1. /\ server' = server /\ foreign' = foreign /\ edits' = edits
      /\ desc # None /\ resource.path
      /\ desc' = [uri |-> Uri(Url), attached |-> TRUE, cur |-> {}, orig |-> {}]
      /\ resource' = [path |-> resource.path, cur |-> g,
                      orig |-> IF desc.attached THEN resource.orig ELSE desc.orig]
  BY DEF attach_description, DescInv, Fields
<1>2. DescInv'
  BY DescAttach
<1>3. Proper(g)
  <2>1. UnderBase(Current, desc.uri.base) /\ Url \in Bases
    BY <1>1, CurrentGraph DEF Bases
  <2> QED BY <2>1, MovedGraph, UnderOtherIsProper, NameAssumption
<1> HIDE DEF g
<1>4. ProperServer' /\ ProperRest'
  BY <1>1 DEF ProperServer, ProperRest
<1>5. ProperResource'
  <2>1. Proper(resource'.orig)
    BY <1>1 DEF ProperResource, ProperDescription
  <2> QED BY <1>1, <1>3, <2>1 DEF ProperResource
<1>6. ProperDescription'
  <2>1. UnderBase({}, Url)
    BY EmptyGraph, ProperIsUnderAny
  <2> QED BY <1>1, <2>1, UriOf, EmptyGraph DEF ProperDescription
<1> QED BY <1>2, <1>4, <1>5, <1>6

LEMMA ProperCreate == ProperInv /\ create_child => ProperInv'
<1> SUFFICES ASSUME ProperInv, create_child PROVE ProperInv'
  OBVIOUS
<1> USE DEF ProperInv
<1> DEFINE g == change_uri(desc.cur, desc.uri.base, Empty)
           made == Resolve(g)
           moved == change_uri(g, Empty, Url)
<1>1. /\ foreign' = foreign /\ edits' = edits
      /\ desc # None /\ ~ desc.attached /\ ~ resource.path
  BY DEF create_child
<1>2. DescInv'
  BY DescCreate
<1>3. UnderBase(g, Empty)
  <2>1. UnderBase(desc.cur, desc.uri.base) /\ Empty \in Bases
    BY <1>1 DEF ProperDescription, Bases
  <2> QED BY <2>1, MovedGraph
<1>4. Proper(made)
  BY <1>3, ResolvedGraph DEF UnderBase
<1>5. UnderBase(moved, Url)
  <2>1. Url \in Bases
    BY DEF Bases
  <2> QED BY <1>3, <2>1, MovedGraph
<1>6. ProperRest'
  BY <1>1 DEF ProperRest
<1>7. CASE /\ desc' = [desc EXCEPT !.uri = Uri(Empty), !.cur = g]
           /\ UNCHANGED <<server, resource>>
  <2>1. /\ desc' = [uri |-> Uri(Empty), attached |-> desc.attached,
                    cur |-> g, orig |-> desc.orig]
        /\ server' = server /\ resource' = resource
    BY <1>1, <1>7 DEF DescInv, Fields
  <2> HIDE DEF g
  <2>2. ProperDescription'
    BY <1>1, <1>3, <2>1, UriOf DEF ProperDescription
  <2> QED BY <1>2, <1>6, <2>1, <2>2 DEF ProperServer, ProperResource
<1>8. CASE /\ server' = made
           /\ resource' = [path |-> TRUE, cur |-> made, orig |-> made]
           /\ desc' = [desc EXCEPT !.uri = Uri(Url), !.cur = moved]
  <2>1. desc' = [uri |-> Uri(Url), attached |-> desc.attached,
                 cur |-> moved, orig |-> desc.orig]
    BY <1>1, <1>8 DEF DescInv, Fields
  <2> HIDE DEF made, moved
  <2>2. ProperDescription'
    BY <1>1, <1>5, <2>1, UriOf DEF ProperDescription
  <2>3. ProperServer' /\ ProperResource'
    BY <1>4, <1>8 DEF ProperServer, ProperResource
  <2> QED BY <1>2, <1>6, <2>2, <2>3
<1> QED BY <1>7, <1>8 DEF create_child

LEMMA ProperUpdate == ProperInv /\ update => ProperInv'
<1> SUFFICES ASSUME ProperInv, update PROVE ProperInv'
  OBVIOUS
<1> USE DEF ProperInv
<1>1. /\ resource.path /\ desc' = desc /\ foreign' = foreign /\ edits' = edits
      /\ server' = (server \ deletes) \cup inserts
      /\ \/ resource' = [path |-> resource.path, cur |-> resource.cur,
                         orig |-> resource.cur]
         \/ resource' = resource
  BY DEF update, DescInv, Fields
<1>2. DescInv'
  BY DescUpdate
<1>3. Proper(server')
  <2>1. UnderBase(server, Url) /\ UnderBase(resource.cur, Url)
    BY <1>1, ProperIsUnderAny DEF ProperResource
  <2>2. UnderBase(server \ deletes, Url) /\ UnderBase(inserts, Url)
    <3>1. server \ deletes \subseteq server /\ inserts \subseteq resource.cur
      BY DEF inserts
    <3> QED BY <2>1, <3>1, PartOfGraph
  <2>3. UnderBase((server \ deletes) \cup inserts, Url)
    BY <2>2, UnionOfGraphs
  <2> QED BY <1>1, <2>3, UnderOtherIsProper, NameAssumption
<1>4. /\ resource'.cur = resource.cur /\ resource'.path = resource.path
      /\ resource'.orig = resource.orig \/ resource'.orig = resource.cur
  <2>1. CASE resource' = resource
    BY <2>1
  <2>2. CASE resource' = [path |-> resource.path, cur |-> resource.cur,
                          orig |-> resource.cur]
    BY <2>2
  <2> QED BY <1>1, <2>1, <2>2
<1>5. ProperServer' /\ ProperResource'
  BY <1>1, <1>3, <1>4 DEF ProperServer, ProperResource
<1>6. ProperDescription' /\ ProperRest'
  BY <1>1, <1>4 DEF ProperDescription, ProperRest
<1> QED BY <1>2, <1>5, <1>6

LEMMA ProperOtherClient ==
  ASSUME NEW t \in Foreign, ProperInv, OtherClient(t) PROVE ProperInv'
<1> USE DEF ProperInv
<1>1. /\ resource' = resource /\ desc' = desc /\ foreign' = foreign \cup {t}
      /\ edits' = edits + 1 /\ edits < MaxEdits /\ server # Absent
      /\ server' = server \ {t} \/ server' = server \cup {t}
  BY DEF OtherClient
<1>2. DescInv'
  BY DescOtherClient
<1>3. Proper({t}) /\ Proper(server)
  BY <1>1, GraphAssumption, FS_Singleton
     DEF ProperServer, Proper, FiniteGraph, IsGraph, AbsoluteGraph
<1>4. Proper(server')
  <2>1. UnderBase(server, Url) /\ UnderBase({t}, Url)
    BY <1>3, ProperIsUnderAny
  <2>2. UnderBase(server \ {t}, Url)
    <3>1. server \ {t} \subseteq server
      OBVIOUS
    <3> QED BY <2>1, <3>1, PartOfGraph
  <2>3. UnderBase(server \cup {t}, Url)
    BY <2>1, UnionOfGraphs
  <2>4. UnderBase(server', Url)
    BY <1>1, <2>2, <2>3
  <2> QED BY <2>4, UnderOtherIsProper, NameAssumption
<1>5. ProperRest'
  BY <1>1, BoundAssumption DEF ProperRest
<1> QED BY <1>1, <1>2, <1>4, <1>5 DEF ProperServer, ProperResource, ProperDescription

LEMMA ProperStep == ProperInv /\ [Next]_vars => ProperInv'
<1> SUFFICES ASSUME ProperInv, [Next]_vars PROVE ProperInv'
  OBVIOUS
<1> USE DEF ProperInv
<1>1. CASE Discard
  <2>1. DescInv'
    BY <1>1, DescStep DEF Next
  <2> QED BY <1>1, <2>1
      DEF Discard, ProperServer, ProperResource, ProperDescription, ProperRest
<1>2. CASE UNCHANGED vars
  <2>1. DescInv'
    BY <1>2, DescStep
  <2> QED BY <1>2, <2>1
      DEF vars, ProperServer, ProperResource, ProperDescription, ProperRest
<1> HIDE DEF ProperInv
<1> QED
  BY <1>1, <1>2, ProperRead, ProperDescribe, ProperSet, ProperAttach, ProperCreate,
     ProperUpdate, ProperOtherClient DEF Next

(* Whatever the properties, the stored graph and the values, every graph is *)
(* a graph and an attached description keeps none of its own.               *)
THEOREM GraphsHold == Spec => []TypeOK
<1>1. ProperInv => TypeOK
  <2> SUFFICES ASSUME ProperInv PROVE TypeOK
    OBVIOUS
  <2> USE DEF ProperInv, Proper, UnderBase, FiniteGraph
  <2>1. server = Absent \/ IsGraph(server)
    BY DEF ProperServer
  <2>2. /\ DOMAIN resource = {"path", "cur", "orig"} /\ resource.path \in BOOLEAN
        /\ IsGraph(resource.cur) /\ IsGraph(resource.orig)
    BY DEF DescInv, Fields, ProperResource
  <2>3. ASSUME desc # None
        PROVE  /\ DOMAIN desc = {"uri", "attached", "cur", "orig"}
               /\ desc.attached \in BOOLEAN
               /\ IsGraph(desc.cur) /\ IsGraph(desc.orig)
               /\ desc.attached => desc.cur = {} /\ desc.orig = {} /\ resource.path
    BY <2>3 DEF DescInv, Fields, ProperDescription
  <2>4. foreign \subseteq Foreign /\ edits \in 0..MaxEdits
    BY DEF ProperRest
  <2> QED BY <2>1, <2>2, <2>3, <2>4 DEF TypeOK
<1> QED BY ProperInit, ProperStep, <1>1, PTL DEF Spec

-----------------------------------------------------------------------------
(* Validation.                                                              *)
LEMMA FewValues ==
  ASSUME NEW vs, IsFiniteSet(vs)
  PROVE  /\ Cardinality(vs) \in Nat
         /\ Cardinality(vs) > 1 => vs # {}
         /\ Cardinality(vs) <= 1 => \A v, w \in vs : v = w
<1>1. Cardinality(vs) \in Nat /\ (vs = {} => Cardinality(vs) = 0)
  BY FS_CardinalityType, FS_EmptySet
<1>2. ASSUME NEW v \in vs, NEW w \in vs, v # w PROVE Cardinality(vs) > 1
  <2>1. Cardinality(vs) # 0 /\ Cardinality(vs) # 1
    BY <1>2, FS_EmptySet, FS_Singleton
  <2> QED BY <1>1, <2>1
<1> QED BY <1>1, <1>2

(* As many languages as values: each value has one of its own.              *)
LEMMA LanguagesDiffer ==
  ASSUME NEW vs, IsFiniteSet(vs), Cardinality(Languages(vs)) = Cardinality(vs),
         NEW v \in vs, NEW w \in vs, v # w
  PROVE  v.lang # w.lang
<1> DEFINE f == [x \in vs |-> x.lang]
           T == Languages(vs)
<1>1. f \in Surjection(vs, T)
  BY DEF Surjection, Languages
<1>2. f \in Injection(vs, T)
  <2> HIDE DEF f, T
  <2> QED BY <1>1, FS_Surjection DEF T
<1>3. f[v] # f[w]
  <2> HIDE DEF f, T
  <2> QED BY <1>2 DEF Injection, IsInjective
<1> QED BY <1>3

(* What validation accepts is as it should be, for any properties, values   *)
(* and graphs (properties.py:96-176).                                       *)
THEOREM AcceptedIsSound == Spec => []ValidationIsSound
<1>1. ProperInv => ValidationIsSound
  <2> SUFFICES ASSUME ProperInv, desc # None,
                      is_valid(Current, desc.uri, DOMAIN ValueChoices),
                      NEW a \in DOMAIN ValueChoices
               PROVE  LET vs == Values(Current, desc.uri, a)
                      IN  /\ Prop[a].required =>
                               vs # {} /\ (Prop[a].kind = "data" => ~ \E v \in vs : Blank(v))
                          /\ ~ Prop[a].repeatable =>
                               \A v, w \in vs : v # w =>
                                 Prop[a].kind = "data" /\ v.lang # w.lang
                          /\ vs \cap Prop[a].refused # {} =>
                               Cardinality(vs) > 1 /\ ~ Prop[a].repeatable
    BY DEF ValidationIsSound
  <2> DEFINE vs == Values(Current, desc.uri, a)
  <2>1. IsFiniteSet(vs)
    <3>1. IsFiniteSet(Current)
      BY CurrentGraph DEF UnderBase, FiniteGraph
    <3> DEFINE f == [t \in Current |-> t.o]
               all == {f[t] : t \in Current}
    <3>2. vs \subseteq all
      BY DEF Values, objects
    <3>3. IsFiniteSet(all)
      <4>1. DOMAIN f = Current
        OBVIOUS
      <4> HIDE DEF f
      <4> QED BY <3>1, <4>1, FiniteRange
    <3> HIDE DEF all, vs
    <3> QED BY <3>2, <3>3, FS_Subset
  <2>2. CASE Prop[a].kind = "data"
    <3> DEFINE several == ~ Prop[a].repeatable /\ Cardinality(vs) > 1
    <3>1. /\ IF several THEN Cardinality(Languages(vs)) = Cardinality(vs)
             ELSE BaseValid(Current, desc.uri, a)
          /\ Prop[a].required => \A v \in vs : ~ Blank(v)
      BY <2>2 DEF is_valid, DataValid
    <3>2. CASE several
      <4> HIDE DEF vs
      <4>1. vs # {} /\ (\A v, w \in vs : v # w => v.lang # w.lang)
        BY <2>1, <3>1, <3>2, FewValues, LanguagesDiffer
      <4> QED BY <2>2, <3>1, <3>2, <4>1 DEF vs
    <3>3. CASE ~ several
      <4>1. /\ Prop[a].required => vs # {}
            /\ Prop[a].repeatable \/ Cardinality(vs) <= 1
            /\ vs \cap Prop[a].refused = {}
        BY <3>1, <3>3 DEF BaseValid
      <4> HIDE DEF vs
      <4> QED BY <2>1, <2>2, <3>1, <4>1, FewValues DEF vs
    <3> QED BY <3>2, <3>3
  <2>3. CASE Prop[a].kind # "data"
    <3>1. BaseValid(Current, desc.uri, a)
      BY <2>3 DEF is_valid, ObjectValid
    <3>2. /\ Prop[a].required => vs # {}
          /\ Prop[a].repeatable \/ Cardinality(vs) <= 1
          /\ vs \cap Prop[a].refused = {}
      BY <3>1 DEF BaseValid
    <3> HIDE DEF vs
    <3> QED BY <2>1, <2>3, <3>2, FewValues DEF vs
  <2> QED BY <2>2, <2>3
<1> QED BY ProperInit, ProperStep, <1>1, PTL DEF Spec

-----------------------------------------------------------------------------
(* Creating: one node at a time.                                            *)
LEMMA CreatedNode ==
  ASSUME NEW n, NEW old, old # Empty => Absolute(n), ~ IsHash(n, old)
  PROVE  Resolved(update_node(n, old, Empty)) = Rebased(n, old, Url)
<1> DEFINE m == update_node(n, old, Empty)
<1>1. CASE IsUri(n) /\ n.base = old
  <2>1. m = [n EXCEPT !.base = Empty]
    BY <1>1, UpdateNodeCases
  <2>2. IsUri(m) /\ m.base = Empty
    BY <1>1, <2>1 DEF IsUri
  <2>3. Resolved(m) = [m EXCEPT !.base = Url]
    BY <2>2 DEF Resolved
  <2>4. Resolved(m) = [n EXCEPT !.base = Url]
    BY <1>1, <2>1, <2>3 DEF IsUri
  <2> QED BY <1>1, <2>4 DEF Rebased
<1>2. CASE IsUri(n) /\ n.base # old
  <2>1. m = n
    BY <1>2, UpdateNodeCases
  <2>2. n.base # Empty
    BY <1>2 DEF Absolute
  <2> QED BY <1>2, <2>1, <2>2 DEF Resolved, Rebased
<1>3. CASE ~ IsUri(n)
  <2>1. m = n
    BY <1>3, UpdateNodeCases
  <2> QED BY <1>3, <2>1 DEF Resolved, Rebased
<1> QED BY <1>1, <1>2, <1>3

(* The description and the resource move alike, but for fragments and what  *)
(* is taken for one.                                                        *)
LEMMA MovesAlike ==
  ASSUME NEW n, NEW old, old # Empty => Absolute(n), ~ IsHash(n, old), ~ IsHash(n, Empty),
         IsUri(n) => n.frag = NoFragment
  PROVE  LET m == update_node(n, old, Empty)
         IN  update_node(m, Empty, Url) = Resolved(m)
<1> DEFINE m == update_node(n, old, Empty)
<1>1. CASE IsUri(n) /\ n.base = old
  <2>1. m = [n EXCEPT !.base = Empty]
    BY <1>1, UpdateNodeCases
  <2>2. IsUri(m) /\ m.base = Empty /\ m.frag = NoFragment
    BY <1>1, <2>1 DEF IsUri
  <2> HIDE DEF m
  <2> QED BY <2>2, UpdateNodeCases DEF Resolved, m
<1>2. CASE IsUri(n) /\ n.base # old
  <2>1. m = n
    BY <1>2, UpdateNodeCases
  <2>2. n.base # Empty
    BY <1>2 DEF Absolute
  <2>3. update_node(n, Empty, Url) = n
    BY <1>2, <2>2, UpdateNodeCases
  <2> QED BY <1>2, <2>1, <2>2, <2>3 DEF Resolved
<1>3. CASE ~ IsUri(n)
  <2>1. m = n
    BY <1>3, UpdateNodeCases
  <2>2. update_node(n, Empty, Url) = n
    BY <1>3, UpdateNodeCases
  <2> QED BY <1>3, <2>1, <2>2 DEF Resolved
<1> QED BY <1>1, <1>2, <1>3

LEMMA CreatedIsMoved ==
  ASSUME NEW g, NEW old, UnderBase(g, old), ~ HasHashes(g, old)
  PROVE  Resolve(change_uri(g, old, Empty)) = Moved(g, old, Url)
<1> DEFINE h == change_uri(g, old, Empty)
<1>1. ASSUME NEW t \in g
      PROVE  /\ Resolved(update_node(t.s, old, Empty)) = Rebased(t.s, old, Url)
             /\ Resolved(update_node(t.o, old, Empty)) = Rebased(t.o, old, Url)
  <2>1. /\ ~ IsHash(t.s, old) /\ ~ IsHash(t.o, old)
        /\ old # Empty => Absolute(t.s) /\ Absolute(t.o)
    BY NodeKinds DEF HasHashes, UnderBase, FiniteGraph, IsGraph, AbsoluteGraph
  <2> QED BY <2>1, CreatedNode
<1>2. h = {Triple(update_node(t.s, old, Empty), t.p, update_node(t.o, old, Empty)) : t \in g}
  BY DEF change_uri
<1>3. Resolve(h) =
        {Triple(Resolved(update_node(t.s, old, Empty)), t.p,
                Resolved(update_node(t.o, old, Empty))) : t \in g}
  BY <1>2, TripleParts DEF Resolve
<1> QED BY <1>1, <1>3 DEF Moved

LEMMA CreatedAgrees ==
  ASSUME NEW g, NEW old, UnderBase(g, old), ~ HasFragments(g),
         ~ HasHashes(g, old), ~ HasHashes(g, Empty)
  PROVE  LET h == change_uri(g, old, Empty)
         IN  change_uri(h, Empty, Url) = Resolve(h)
<1> DEFINE h == change_uri(g, old, Empty)
<1>1. ASSUME NEW t \in h
      PROVE  /\ update_node(t.s, Empty, Url) = Resolved(t.s)
             /\ update_node(t.o, Empty, Url) = Resolved(t.o)
  <2>1. PICK t0 \in g : t = Triple(update_node(t0.s, old, Empty), t0.p,
                                   update_node(t0.o, old, Empty))
    BY DEF change_uri
  <2>2. t.s = update_node(t0.s, old, Empty) /\ t.o = update_node(t0.o, old, Empty)
    BY <2>1, TripleParts
  <2>3. /\ \A from \in {old, Empty} : ~ IsHash(t0.s, from) /\ ~ IsHash(t0.o, from)
        /\ old # Empty => Absolute(t0.s) /\ Absolute(t0.o)
    BY NodeKinds DEF HasHashes, UnderBase, FiniteGraph, IsGraph, AbsoluteGraph
  <2>4. /\ IsUri(t0.s) => t0.s.frag = NoFragment
        /\ IsUri(t0.o) => t0.o.frag = NoFragment
    BY DEF HasFragments
  <2> QED BY <2>2, <2>3, <2>4, MovesAlike
<1> HIDE DEF h
<1>2. change_uri(h, Empty, Url) = Resolve(h)
  BY <1>1 DEF change_uri, Resolve
<1> QED BY <1>2 DEF h

-----------------------------------------------------------------------------
(* Setting: the values of one property at a time.                           *)
Given(u, a, vs) ==
  IF Prop[a].kind = "embedded" THEN {EmbeddedUri(u, e) : e \in vs} ELSE vs

LEMMA ObjectsOf ==
  ASSUME NEW g, NEW u, NEW p, NEW v
  PROVE  v \in objects(g, u, p) <=> \E t \in g : t.s = u /\ t.p = p /\ t.o = v
BY DEF objects

LEMMA LinksOf ==
  ASSUME NEW u, NEW a, NEW vs, NEW t
  PROVE  /\ t \in Links(u, a, vs) =>
              t.s = u /\ t.p = Prop[a].predicate /\ t.o \in vs
         /\ t = Triple(t.s, t.p, t.o) /\ t.s = u /\ t.p = Prop[a].predicate
              /\ t.o \in vs => t \in Links(u, a, vs)
<1>1. ASSUME NEW v \in vs, t = Triple(u, Prop[a].predicate, v)
      PROVE  t.s = u /\ t.p = Prop[a].predicate /\ t.o \in vs
  BY <1>1, TripleParts
<1> QED BY <1>1 DEF Links

(* What is added to the resource itself: links to what is given.            *)
LEMMA AddedOf ==
  ASSUME NEW u, IsUri(u), u.frag = NoFragment,
         NEW a \in DOMAIN ValueChoices, NEW vs \in ValueChoices[a]
  PROVE  /\ \A t \in AddAll({}, u, a, vs) :
              t.s = u => t.p = Prop[a].predicate /\ t.o \in Given(u, a, vs)
         /\ \A v \in Given(u, a, vs) :
              Triple(u, Prop[a].predicate, v) \in AddAll({}, u, a, vs)
<1>1. CASE Prop[a].kind = "embedded"
  <2>1. ASSUME NEW e \in vs, NEW t \in Embed(u, a, e), t.s = u
        PROVE  t.p = Prop[a].predicate /\ t.o = EmbeddedUri(u, e)
    <3> DEFINE n == EmbeddedUri(u, e)
    <3>1. n.frag # u.frag
      BY <1>1, UriParts, ChoiceAssumption DEF EmbeddedUri
    <3> HIDE DEF n
    <3>2. t \notin TypesOf(n, Prop[a].cls) /\ t \notin Said(n, e.kwargs)
      BY <2>1, <3>1, LinksOf DEF TypesOf, Said
    <3>3. t \in Links(u, a, {n})
      BY <3>2, EmbedParts DEF n
    <3> QED BY <3>3, LinksOf DEF n
  <2>2. ASSUME NEW e \in vs
        PROVE  Triple(u, Prop[a].predicate, EmbeddedUri(u, e)) \in Embed(u, a, e)
    <3> DEFINE n == EmbeddedUri(u, e)
    <3>1. Triple(u, Prop[a].predicate, n) \in Links(u, a, {n})
      BY DEF Links
    <3> QED BY <3>1, EmbedParts
  <2>3. \A t : t \in AddAll({}, u, a, vs) <=> \E e \in vs : t \in Embed(u, a, e)
    BY <1>1 DEF AddAll
  <2>4. \A v : v \in Given(u, a, vs) <=> \E e \in vs : v = EmbeddedUri(u, e)
    BY <1>1 DEF Given
  <2> QED BY <2>1, <2>2, <2>3, <2>4
<1>2. CASE Prop[a].kind # "embedded"
  <2>1. AddAll({}, u, a, vs) = Links(u, a, vs) /\ Given(u, a, vs) = vs
    BY <1>2 DEF AddAll, Given
  <2>2. \A v \in vs : Triple(u, Prop[a].predicate, v) \in Links(u, a, vs)
    BY DEF Links
  <2> QED BY <2>1, <2>2, LinksOf
<1> QED BY <1>1, <1>2

LEMMA GivenFits ==
  ASSUME NEW u, NEW a \in DOMAIN ValueChoices, NEW vs \in ValueChoices[a],
         Prop[a].kind = "data", NEW v \in Given(u, a, vs)
  PROVE  IsLiteral(v) /\ v.type = Prop[a].datatype
BY ChoiceAssumption DEF Given

LEMMA ValuesOf ==
  ASSUME NEW g, NEW u, NEW a, NEW v
  PROVE  v \in Values(g, u, a) <=>
           /\ v \in objects(g, u, Prop[a].predicate)
           /\ Prop[a].kind = "data" => IsLiteral(v) /\ v.type = Prop[a].datatype
BY DEF Values

LEMMA AfterSetOthers ==
  ASSUME NEW g, IsGraph(g), NEW u, IsUri(u), u.frag = NoFragment,
         NEW a \in DOMAIN ValueChoices, NEW vs \in ValueChoices[a], NEW b, Separate(a, b)
  PROVE  Values(g, u, b) = Values(AfterSet(g, u, a, vs), u, b)
<1> DEFINE h == AfterSet(g, u, a, vs)
<1>1. ASSUME NEW v \in Values(g, u, b) PROVE v \in Values(h, u, b)
  <2>1. PICK t \in g : t.s = u /\ t.p = Prop[b].predicate /\ t.o = v
    BY <1>1, ValuesOf, ObjectsOf
  <2>2. t \notin Links(u, a, Values(g, u, a))
    BY <1>1, <2>1, ValuesOf, LinksOf DEF Separate
  <2>3. t \in h
    BY <2>2 DEF AfterSet, Cleared
  <2> HIDE DEF h
  <2> QED BY <1>1, <2>1, <2>3, ValuesOf, ObjectsOf
<1>2. ASSUME NEW v \in Values(h, u, b) PROVE v \in Values(g, u, b)
  <2>1. PICK t \in h : t.s = u /\ t.p = Prop[b].predicate /\ t.o = v
    <3> HIDE DEF h
    <3> QED BY <1>2, ValuesOf, ObjectsOf
  <2>2. t \notin AddAll({}, u, a, vs)
    <3> SUFFICES ASSUME t \in AddAll({}, u, a, vs) PROVE FALSE
      OBVIOUS
    <3>1. t.p = Prop[a].predicate /\ v \in Given(u, a, vs)
      BY <2>1, AddedOf
    <3>2. Prop[b].kind = "data" => v.type = Prop[b].datatype
      <4> HIDE DEF h
      <4> QED BY <1>2, ValuesOf
    <3> QED BY <2>1, <3>1, <3>2, GivenFits DEF Separate
  <2>3. t \in g
    BY <2>2 DEF AfterSet, Cleared
  <2>4. Prop[b].kind = "data" => IsLiteral(v) /\ v.type = Prop[b].datatype
    <3> HIDE DEF h
    <3> QED BY <1>2, ValuesOf
  <2> QED BY <2>1, <2>3, <2>4, ValuesOf, ObjectsOf
<1> HIDE DEF h
<1> QED BY <1>1, <1>2 DEF h

LEMMA AfterSetItself ==
  ASSUME NEW g, IsGraph(g), NEW u, IsUri(u), u.frag = NoFragment,
         NEW a \in DOMAIN ValueChoices, NEW vs \in ValueChoices[a]
  PROVE  Values(AfterSet(g, u, a, vs), u, a) = Given(u, a, vs)
<1> DEFINE h == AfterSet(g, u, a, vs)
<1>1. ASSUME NEW v \in Values(h, u, a) PROVE v \in Given(u, a, vs)
  <2>1. /\ \E t \in h : t.s = u /\ t.p = Prop[a].predicate /\ t.o = v
        /\ Prop[a].kind = "data" => IsLiteral(v) /\ v.type = Prop[a].datatype
    <3> HIDE DEF h
    <3> QED BY <1>1, ValuesOf, ObjectsOf
  <2>2. PICK t \in h : t.s = u /\ t.p = Prop[a].predicate /\ t.o = v
    BY <2>1
  <2>3. CASE t \in Cleared(g, u, a)
    <3>1. t \in g /\ t \notin Links(u, a, Values(g, u, a))
      BY <2>3 DEF Cleared
    <3>2. v \in Values(g, u, a)
      BY <2>1, <2>2, <3>1, ValuesOf, ObjectsOf
    <3>3. t = Triple(t.s, t.p, t.o)
      BY <3>1 DEF IsGraph
    <3> QED BY <2>2, <3>1, <3>2, <3>3, LinksOf
  <2>4. CASE t \in AddAll({}, u, a, vs)
    BY <2>2, <2>4, AddedOf
  <2> QED BY <2>3, <2>4 DEF AfterSet
<1>2. ASSUME NEW v \in Given(u, a, vs) PROVE v \in Values(h, u, a)
  <2> DEFINE t == Triple(u, Prop[a].predicate, v)
  <2>1. t \in h
    BY <1>2, AddedOf DEF AfterSet
  <2>2. t.s = u /\ t.p = Prop[a].predicate /\ t.o = v
    BY TripleParts
  <2>3. Prop[a].kind = "data" => IsLiteral(v) /\ v.type = Prop[a].datatype
    BY <1>2, GivenFits
  <2> HIDE DEF t, h
  <2> QED BY <2>1, <2>2, <2>3, ValuesOf, ObjectsOf
<1> HIDE DEF h
<1> QED BY <1>1, <1>2 DEF h

-----------------------------------------------------------------------------
(* A resource is created with what its description said under its temporary *)
(* URI, and the description agrees with it afterwards                       *)
(* (repo/__init__.py:316-329, graph.py:15-33).                              *)
LEMMA CreateSays ==
  ASSUME ProperInv, create_child, server' # server
  PROVE  /\ \/ server' = Moved(desc.cur, desc.uri.base, Url)
            \/ HasHashes(desc.cur, desc.uri.base)
         /\ \/ desc'.cur = server'
            \/ HasFragments(desc.cur)
            \/ \E from \in {desc.uri.base, Empty} : HasHashes(desc.cur, from)
<1> DEFINE g == change_uri(desc.cur, desc.uri.base, Empty)
<1>1. desc # None /\ UnderBase(desc.cur, desc.uri.base)
  BY DEF create_child, ProperInv, ProperDescription
<1>2. /\ server' = Resolve(g)
      /\ desc' = [desc EXCEPT !.uri = Uri(Url), !.cur = change_uri(g, Empty, Url)]
  BY DEF create_child
<1>3. desc'.cur = change_uri(g, Empty, Url)
  <2> HIDE DEF g
  <2> QED BY <1>1, <1>2 DEF ProperInv, DescInv, Fields
<1> QED BY <1>1, <1>2, <1>3, CreatedIsMoved, CreatedAgrees

LEMMA CreatedStep ==
  ASSUME ~ IsGraph(Absent), ProperInv, Next, server = Absent, server' # Absent
  PROVE  create_child
<1>1. ~ resource.path
  BY DEF ProperInv, ProperResource, Proper, FiniteGraph
<1>2. ~ update /\ ~ read /\ (\A t : ~ OtherClient(t))
  BY <1>1 DEF update, read, OtherClient
<1>3. ~ describe /\ ~ Discard /\ ~ attach_description
  BY DEF describe, Discard, attach_description
<1>4. \A g : ~ Edit(g)
  BY DEF Edit
<1> QED BY <1>2, <1>3, <1>4 DEF Next, Set, Add

(* Setting one property leaves the values of the others alone and leaves it *)
(* with the values it was given (resources.py:91-110).                      *)
LEMMA SetSays ==
  ASSUME ProperInv, NEW a \in DOMAIN ValueChoices, NEW vs \in ValueChoices[a], Set(a, vs)
  PROVE  LET u == desc.uri
             after == IF desc.attached THEN resource'.cur ELSE desc'.cur
         IN  /\ \A b \in Attrs : Separate(a, b) =>
                  Values(Current, u, b) = Values(after, u, b)
             /\ Values(after, u, a) = Given(u, a, vs)
<1> DEFINE g == AfterSet(Current, desc.uri, a, vs)
<1>1. desc # None /\ WithCurrent(g)
  BY SetOne DEF Set, Edit
<1>2. (IF desc.attached THEN resource'.cur ELSE desc'.cur) = g
  <2> HIDE DEF g
  <2> QED BY <1>1 DEF WithCurrent, ProperInv, DescInv, Fields
<1>3. IsUri(desc.uri) /\ desc.uri.frag = NoFragment /\ IsGraph(Current)
  <2>1. desc.uri = Uri(desc.uri.base)
    BY <1>1 DEF ProperInv, ProperDescription
  <2>2. desc.uri.frag = NoFragment
    BY <2>1, UriParts DEF Uri
  <2> QED BY <1>1, <2>2, CurrentGraph DEF UnderBase, FiniteGraph
<1> QED BY <1>2, <1>3, AfterSetOthers, AfterSetItself

(* No edit says more or less than it should: for any properties, also those *)
(* that share a predicate, values and graphs.  Absent is not itself a graph. *)
THEOREM EditsExact == ASSUME ~ IsGraph(Absent) PROVE Spec => EditsAreExact
<1> DEFINE Created ==
      server = Absent /\ server' # Absent =>
        /\ \/ server' = Moved(desc.cur, desc.uri.base, Url)
           \/ HasHashes(desc.cur, desc.uri.base)
        /\ \/ desc'.cur = server'
           \/ HasFragments(desc.cur)
           \/ \E from \in {desc.uri.base, Empty} : HasHashes(desc.cur, from)
           SetOnly ==
      \A a \in DOMAIN ValueChoices : \A vs \in ValueChoices[a] : Set(a, vs) =>
        LET u == desc.uri
            after == IF desc.attached THEN resource'.cur ELSE desc'.cur
        IN  /\ \A b \in Attrs : Separate(a, b) =>
                 Values(Current, u, b) = Values(after, u, b)
            /\ Values(after, u, a) =
                 IF Prop[a].kind = "embedded" THEN {EmbeddedUri(u, e) : e \in vs} ELSE vs
<1>1. ProperInv /\ [Next]_vars => [Created]_vars
  BY CreatedStep, CreateSays
<1>2. ProperInv /\ [Next]_vars => [SetOnly]_vars
  BY SetSays DEF Given
<1>3. Spec => [][Created]_vars /\ [][SetOnly]_vars
  <2> HIDE DEF Created, SetOnly
  <2> QED BY <1>1, <1>2, ProperInit, ProperStep, PTL DEF Spec
<1> QED BY <1>3 DEF EditsAreExact, CreatedAsDescribed, SetKeepsOthers

-----------------------------------------------------------------------------
(* ExportJob.  The items the job is done with, those among them that have   *)
(* not arrived, and what it has promised about them.                        *)
Working == pc \in {"read", "write", "copy"}
Past == IF Working THEN turn - 1 ELSE Len(Uris)
Tried == {Uris[i] : i \in 1..Past}
LostItems == {u \in Tried : ~ Arrived(u)}

AtItem == Working => turn \in DOMAIN Uris
AllCounted == pc # "raised" => count.exported + count.errors = Past
LossesCounted ==
  pc # "raised" => IsFiniteSet(LostItems) /\ Cardinality(LostItems) <= count.errors
CutsCounted ==
  pc # "raised" /\ (\E name \in DOMAIN bag : ~ bag[name].whole) => count.errors > 0
CopiedSoFar ==
  pc = "copy" =>
    uri \in RowUris /\ \A k \in DOMAIN Files(uri) \ pending : InBag(uri, k)
VerdictIsCount == Delivered => (pc = "export_complete" <=> count.exported = Len(Uris))
ReadAfterwards ==
  /\ edited # NotYet \/ loaded # NotYet => Delivered
  /\ loaded # NotYet => loaded.uri \in RowUris

ExportInv ==
  /\ ExportTypeOK /\ AtItem /\ AllCounted /\ LossesCounted /\ CutsCounted /\ CopiedSoFar
  /\ VerdictIsCount /\ ReadAfterwards /\ LoadsAreSound

-----------------------------------------------------------------------------
LEMMA ListLength == Len(Uris) \in Nat /\ DOMAIN Uris = 1..Len(Uris) /\ Items = {Uris[i] : i \in 1..Len(Uris)}
BY ListAssumption DEF Items, Range

LEMMA LeastNumber ==
  ASSUME NEW S, S \subseteq Nat, S # {}
  PROVE  \E m \in S : \A j \in S : m <= j
<1>1. PICK m \in S : \A j \in S : <<j, m>> \notin OpToRel(<, Nat)
  BY NatLessThanWellFounded, WFMin
<1>2. \A j \in S : ~ (j < m)
  BY <1>1 DEF OpToRel
<1> QED BY <1>2

(* Every class has a sheet.                                                 *)
LEMMA ClassHasSheet ==
  ASSUME NEW g, NEW u
  PROVE  detect_resource_class(g, u) \in SheetNames
<1> DEFINE hits == {i \in DOMAIN MODEL_MAP : MODEL_MAP[i][1] \in Values(g, u, "rdf_type")}
<1>1. CASE hits = {}
  BY <1>1 DEF detect_resource_class, SheetNames
<1>2. CASE hits # {}
  <2>1. hits \subseteq Nat
    BY ListAssumption
  <2>2. PICK m \in hits : \A j \in hits : m <= j
    BY <1>2, <2>1, LeastNumber
  <2>3. (CHOOSE i \in hits : \A j \in hits : i <= j) \in hits
    BY <2>2
  <2> HIDE DEF hits
  <2>4. (CHOOSE i \in hits : \A j \in hits : i <= j) \in DOMAIN MODEL_MAP
    BY <2>3 DEF hits
  <2>5. detect_resource_class(g, u) = MODEL_MAP[CHOOSE i \in hits : \A j \in hits : i <= j][2]
    BY <1>2 DEF detect_resource_class, hits
  <2> QED BY <2>4, <2>5 DEF SheetNames
<1> QED BY <1>1, <1>2

(* A row that is written joins those that are there.                        *)
LEMMA RowIsWritten ==
  ASSUME ExportTypeOK, NEW u \in Items, repo' = repo, write(u)
  PROVE  /\ sheets' \in [SheetNames -> Seq({RowFor(repo[v], v) : v \in Items})]
         /\ Rows \subseteq Rows' /\ RowFor(repo[u], u) \in Rows'
         /\ RowUris \cup {u} \subseteq RowUris'
<1> DEFINE c == detect_resource_class(repo[u].graph, Uri(u))
           R == {RowFor(repo[v], v) : v \in Items}
<1>1. c \in SheetNames
  BY ClassHasSheet
<1>2. sheets \in [SheetNames -> Seq(R)] /\ RowFor(repo[u], u) \in R
  BY DEF ExportTypeOK
<1>3. sheets' = [sheets EXCEPT ![c] = Append(sheets[c], RowFor(repo[u], u))]
  BY DEF write
<1> HIDE DEF c, R
<1>4. sheets[c] \in Seq(R) /\ Append(sheets[c], RowFor(repo[u], u)) \in Seq(R)
  BY <1>1, <1>2
<1>5. sheets' \in [SheetNames -> Seq(R)]
  BY <1>2, <1>3, <1>4
<1>6. sheets'[c] = Append(sheets[c], RowFor(repo[u], u)) /\ c \in DOMAIN sheets'
  BY <1>1, <1>2, <1>3
<1>7. Range(sheets[c]) \subseteq Range(sheets'[c])
      /\ RowFor(repo[u], u) \in Range(sheets'[c])
  <2>1. Len(sheets[c]) + 1 \in DOMAIN sheets'[c]
        /\ sheets'[c][Len(sheets[c]) + 1] = RowFor(repo[u], u)
    BY <1>4, <1>6
  <2>2. \A i \in DOMAIN sheets[c] : i \in DOMAIN sheets'[c] /\ sheets'[c][i] = sheets[c][i]
    BY <1>4, <1>6
  <2> QED BY <2>1, <2>2 DEF Range
<1>8. \A d \in DOMAIN sheets : d \in DOMAIN sheets' /\ Range(sheets[d]) \subseteq Range(sheets'[d])
  BY <1>2, <1>3, <1>7
<1>9. Rows \subseteq Rows' /\ RowFor(repo[u], u) \in Rows'
  BY <1>6, <1>7, <1>8 DEF Rows
<1>10. RowFor(repo[u], u).uri = u
  BY DEF RowFor
<1>11. RowUris \cup {u} \subseteq RowUris'
  BY <1>9, <1>10 DEF RowUris
<1> QED BY <1>5, <1>9, <1>11 DEF R

(* A row is of an item.                                                     *)
LEMMA RowsAreOfItems ==
  ASSUME ExportTypeOK
  PROVE  RowUris \subseteq Items
<1> DEFINE R == {RowFor(repo[v], v) : v \in Items}
<1>1. \A r \in R : r.uri \in Items
  BY DEF RowFor
<1>2. sheets \in [SheetNames -> Seq(R)]
  BY DEF ExportTypeOK
<1> HIDE DEF R
<1>3. \A c \in DOMAIN sheets : Range(sheets[c]) \subseteq R
  BY <1>2 DEF Range
<1> QED BY <1>1, <1>3 DEF RowUris, Rows

(* Writing a file leaves every other file that has its own name.            *)
LEMMA FileIsWritten ==
  ASSUME ExportTypeOK, repo' = repo, NEW u \in Items, NEW k \in DOMAIN Files(u),
         NEW w \in BOOLEAN, WriteFile(Files(u)[k], w)
  PROVE  /\ \A v \in Items : \A j \in DOMAIN Files(v) :
              InBag(v, j) /\ (w \/ v # u \/ j # k) => InBag(v, j)'
         /\ w => InBag(u, k)'
         /\ DOMAIN bag \subseteq DOMAIN bag'
         /\ \A name \in DOMAIN bag' : \E v \in Items : \E j \in DOMAIN Files(v) :
              name = Files(v)[j].name /\ bag'[name].source = Files(v)[j].source
         /\ (\E name \in DOMAIN bag' : ~ bag'[name].whole) /\ w
              => \E name \in DOMAIN bag : ~ bag[name].whole
<1> DEFINE file == Files(u)[k]
<1>1. \A v \in Items : Files(v)' = Files(v)
  BY DEF Files
<1>2. \A v \in Items : \A j \in DOMAIN Files(v) : OwnName(v, j)' <=> OwnName(v, j)
  BY <1>1 DEF OwnName
<1>3. /\ DOMAIN bag' = DOMAIN bag \cup {file.name}
      /\ bag'[file.name] = [source |-> file.source, whole |-> w]
      /\ \A name \in DOMAIN bag : name # file.name => bag'[name] = bag[name]
  BY DEF WriteFile
<1> HIDE DEF file
<1>4. ASSUME NEW v \in Items, NEW j \in DOMAIN Files(v), InBag(v, j), w \/ v # u \/ j # k
      PROVE  InBag(v, j)'
  <2>1. /\ Files(v)[j].name \in DOMAIN bag
        /\ OwnName(v, j) => bag[Files(v)[j].name] = [source |-> Files(v)[j].source, whole |-> TRUE]
    BY <1>4 DEF InBag
  <2>2. CASE Files(v)[j].name # file.name
    BY <2>1, <2>2, <1>1, <1>2, <1>3 DEF InBag
  <2>3. CASE Files(v)[j].name = file.name
    <3>1. OwnName(v, j) => u = v /\ j = k
      BY <2>3 DEF OwnName, file
    <3>2. OwnName(v, j) => bag'[file.name] = [source |-> Files(v)[j].source, whole |-> TRUE]
      BY <3>1, <1>3, <1>4 DEF file
    <3> QED BY <3>2, <2>3, <1>1, <1>2, <1>3 DEF InBag
  <2> QED BY <2>2, <2>3
<1>5. w => InBag(u, k)'
  BY <1>1, <1>3 DEF InBag, file
<1>6. \A name \in DOMAIN bag' : \E v \in Items : \E j \in DOMAIN Files(v) :
        name = Files(v)[j].name /\ bag'[name].source = Files(v)[j].source
  BY <1>3 DEF file, ExportTypeOK
<1>7. (\E name \in DOMAIN bag' : ~ bag'[name].whole) /\ w
        => \E name \in DOMAIN bag : ~ bag[name].whole
  BY <1>3
<1> QED BY <1>3, <1>4, <1>5, <1>6, <1>7

(* Where rows and files stay, what has arrived stays.                       *)
LEMMA SameFiles ==
  ASSUME repo' = repo
  PROVE  \A u : /\ Files(u)' = Files(u)
                /\ \A k : OwnName(u, k)' <=> OwnName(u, k)
<1>1. \A u : Files(u)' = Files(u)
  BY DEF Files
<1> QED BY <1>1 DEF OwnName

LEMMA SameRows ==
  ASSUME sheets' = sheets
  PROVE  /\ Rows' = Rows /\ RowUris' = RowUris
         /\ \A u : RowOf(u)' = RowOf(u)
<1>1. Rows' = Rows
  BY DEF Rows
<1> QED BY <1>1 DEF RowUris, RowOf

LEMMA SameBag ==
  ASSUME repo' = repo, bag' = bag, NEW u, NEW k
  PROVE  InBag(u, k)' <=> InBag(u, k)
<1>1. Files(u)' = Files(u) /\ (OwnName(u, k)' <=> OwnName(u, k))
  BY SameFiles
<1>2. InBag(u, k) <=>
        /\ Files(u)[k].name \in DOMAIN bag
        /\ OwnName(u, k) =>
             bag[Files(u)[k].name] = [source |-> Files(u)[k].source, whole |-> TRUE]
  BY DEF InBag
<1>3. InBag(u, k)' <=>
        /\ Files(u)'[k].name \in DOMAIN bag'
        /\ OwnName(u, k)' =>
             bag'[Files(u)'[k].name] = [source |-> Files(u)'[k].source, whole |-> TRUE]
  BY DEF InBag
<1> QED BY <1>1, <1>2, <1>3

LEMMA SameExport ==
  ASSUME repo' = repo, sheets' = sheets, bag' = bag, NEW u
  PROVE  Arrived(u)' <=> Arrived(u)
<1>1. \A k : InBag(u, k)' <=> InBag(u, k)
  BY SameBag
<1> QED BY <1>1, SameFiles, SameRows DEF Arrived

(* The end of a turn: the item at hand is behind the job.                   *)
LEMMA TurnEnds ==
  ASSUME ExportTypeOK, AtItem, Working, NextItem
  PROVE  /\ pc' \in {"read", "finish"} /\ turn' \in DOMAIN Uris /\ AtItem'
         /\ turn - 1 \in Nat /\ turn <= Len(Uris)
         /\ Past = turn - 1 /\ Past' = Past + 1 /\ Tried' = Tried \cup {uri}
         /\ uri \in Items
<1> DEFINE L == Len(Uris)
<1>1. L \in Nat /\ DOMAIN Uris = 1..L /\ Items = {Uris[i] : i \in 1..L}
  BY ListLength
<1>2. turn \in 1..L
  BY <1>1 DEF AtItem
<1>3. /\ turn < L => pc' = "read" /\ turn' = turn + 1
      /\ ~ (turn < L) => pc' = "finish" /\ turn' = turn
  BY DEF NextItem
<1>4. Past = turn - 1 /\ Past' = IF pc' \in {"read", "write", "copy"} THEN turn' - 1 ELSE L
  BY DEF Past, Working
<1> HIDE DEF L
<1>5. turn \in Nat /\ turn - 1 \in Nat /\ turn <= L /\ (turn - 1) + 1 = turn
  BY <1>1, <1>2
<1>6. pc' \in {"read", "finish"} /\ turn' \in 1..L /\ Past' = turn
  <2>1. CASE turn < L
    BY <2>1, <1>1, <1>3, <1>4, <1>5
  <2>2. CASE ~ (turn < L)
    BY <2>2, <1>1, <1>2, <1>3, <1>4, <1>5
  <2> QED BY <2>1, <2>2
<1>7. Tried' = Tried \cup {uri}
  <2>1. \A i : i \in 1..turn <=> i \in 1..(turn - 1) \/ i = turn
    BY <1>5
  <2> QED BY <1>4, <1>6, <2>1 DEF Tried, uri
<1>8. uri \in Items
  BY <1>1, <1>2 DEF uri
<1> QED BY <1>1, <1>4, <1>5, <1>6, <1>7, <1>8 DEF AtItem, L

LEMMA OneMoreLoss ==
  ASSUME NEW S, NEW T, NEW x, NEW c \in Nat,
         IsFiniteSet(S), Cardinality(S) <= c, T \subseteq S \cup {x}
  PROVE  IsFiniteSet(T) /\ Cardinality(T) <= c + 1
<1>1. Cardinality(S) \in Nat /\ IsFiniteSet(S \cup {x})
      /\ (Cardinality(S \cup {x}) = Cardinality(S) \/ Cardinality(S \cup {x}) = Cardinality(S) + 1)
  BY FS_AddElement, FS_CardinalityType
<1>2. IsFiniteSet(T) /\ Cardinality(T) <= Cardinality(S \cup {x})
  BY <1>1, FS_Subset
<1>3. Cardinality(T) \in Nat /\ Cardinality(S \cup {x}) \in Nat
  BY <1>1, <1>2, FS_CardinalityType
<1> QED BY <1>1, <1>2, <1>3

-----------------------------------------------------------------------------
LEMMA ExportStarts == ExportInit => ExportInv
<1> SUFFICES ASSUME ExportInit PROVE ExportInv
  OBVIOUS
<1> USE DEF ExportInit
<1>1. Len(Uris) \in Nat /\ DOMAIN Uris = 1..Len(Uris) /\ (Uris = <<>> <=> Len(Uris) = 0)
  BY ListLength, ListAssumption
<1>2. Past = 0
  BY <1>1 DEF Past, Working
<1>3. LostItems = {} /\ IsFiniteSet({}) /\ Cardinality({}) = 0
  BY <1>2, FS_EmptySet DEF LostItems, Tried
<1>4. DOMAIN bag = {}
  OBVIOUS
<1>5. ExportTypeOK
  <2>1. sheets \in [SheetNames -> Seq({RowFor(repo[u], u) : u \in Items})]
    OBVIOUS
  <2>2. count \in [exported : 0..Len(Uris), errors : 0..Len(Uris)]
    BY <1>1
  <2> QED BY <1>1, <1>4, <2>1, <2>2 DEF ExportTypeOK
<1>6. AtItem /\ AllCounted /\ LossesCounted /\ CutsCounted
  BY <1>1, <1>2, <1>3, <1>4 DEF AtItem, AllCounted, LossesCounted, CutsCounted, Working
<1>7. CopiedSoFar /\ VerdictIsCount /\ ReadAfterwards /\ LoadsAreSound
  BY DEF CopiedSoFar, VerdictIsCount, ReadAfterwards, LoadsAreSound, Delivered
<1> QED BY <1>5, <1>6, <1>7 DEF ExportInv

(* While the job is at work nobody has its results yet.                     *)
LEMMA NotYetRead ==
  ASSUME ExportInv, ~ Delivered, UNCHANGED <<edited, loaded>>
  PROVE  edited' = NotYet /\ loaded' = NotYet /\ ReadAfterwards' /\ LoadsAreSound'
BY DEF ExportInv, ReadAfterwards, LoadsAreSound

LEMMA ReadKeeps ==
  ASSUME ExportInv, Read
  PROVE  ExportInv'
<1> USE DEF Read
<1>1. ~ Delivered /\ ReadAfterwards' /\ LoadsAreSound'
  BY NotYetRead DEF Delivered
<1>2. Past' = Past /\ Tried' = Tried /\ LostItems' = LostItems
  <2>1. Past' = Past
    BY DEF Past, Working
  <2> QED BY <2>1, SameExport DEF Tried, LostItems
<1>3. ExportTypeOK'
  BY SameFiles DEF ExportInv, ExportTypeOK, uri
<1>4. AtItem' /\ AllCounted' /\ LossesCounted' /\ CutsCounted'
  BY <1>2 DEF ExportInv, AtItem, AllCounted, LossesCounted, CutsCounted, Working
<1>5. CopiedSoFar' /\ VerdictIsCount'
  BY DEF CopiedSoFar, VerdictIsCount, Delivered
<1> QED BY <1>1, <1>3, <1>4, <1>5 DEF ExportInv

LEMMA WriteKeeps ==
  ASSUME ExportInv, Write
  PROVE  ExportInv'
<1> USE DEF Write
<1>1. ~ Delivered /\ ReadAfterwards' /\ LoadsAreSound'
  BY NotYetRead DEF Delivered
<1>2. turn \in DOMAIN Uris /\ uri \in Items /\ uri' = uri
  BY ListLength DEF ExportInv, AtItem, Working, uri
<1>3. /\ sheets' \in [SheetNames -> Seq({RowFor(repo[v], v) : v \in Items})]
      /\ RowUris \cup {uri} \subseteq RowUris'
  BY <1>2, RowIsWritten DEF ExportInv
<1>4. \A u, k : InBag(u, k)' <=> InBag(u, k)
  BY SameBag
<1>5. \A u : Arrived(u) => Arrived(u)'
  BY <1>3, <1>4, SameFiles DEF Arrived
<1>6. Past' = Past /\ Tried' = Tried /\ LostItems' \subseteq LostItems
  <2>1. Past' = Past
    BY DEF Past, Working
  <2> QED BY <2>1, <1>5 DEF Tried, LostItems
<1>7. ExportTypeOK'
  BY <1>2, <1>3, SameFiles DEF ExportInv, ExportTypeOK
<1>8. LossesCounted'
  <2>1. IsFiniteSet(LostItems) /\ Cardinality(LostItems) <= count.errors /\ count.errors \in Nat
    BY ListLength DEF ExportInv, LossesCounted, ExportTypeOK
  <2>2. IsFiniteSet(LostItems') /\ Cardinality(LostItems') <= Cardinality(LostItems)
    BY <2>1, <1>6, FS_Subset
  <2> QED BY <2>1, <2>2, FS_CardinalityType DEF LossesCounted
<1>9. AtItem' /\ AllCounted' /\ CutsCounted'
  BY <1>2, <1>6 DEF ExportInv, AtItem, AllCounted, CutsCounted
<1>10. CopiedSoFar' /\ VerdictIsCount'
  BY <1>2, <1>3, SameFiles DEF CopiedSoFar, VerdictIsCount, Delivered
<1> QED BY <1>1, <1>7, <1>8, <1>9, <1>10 DEF ExportInv

LEMMA CopyKeeps ==
  ASSUME ExportInv, Copy
  PROVE  ExportInv'
<1> USE DEF Copy
<1>1. ~ Delivered /\ ReadAfterwards' /\ LoadsAreSound'
  BY NotYetRead DEF Delivered
<1>2. turn \in DOMAIN Uris /\ uri \in Items /\ uri' = uri
  BY ListLength DEF ExportInv, AtItem, Working, uri
<1>3. PICK k \in pending : WriteFile(Files(uri)[k], TRUE) /\ pending' = pending \ {k}
  OBVIOUS
<1>4. pending \subseteq DOMAIN Files(uri)
  BY DEF ExportInv, ExportTypeOK
<1>5. /\ \A v \in Items : \A j \in DOMAIN Files(v) : InBag(v, j) => InBag(v, j)'
      /\ InBag(uri, k)'
      /\ DOMAIN bag \subseteq DOMAIN bag'
      /\ \A name \in DOMAIN bag' : \E v \in Items : \E j \in DOMAIN Files(v) :
              name = Files(v)[j].name /\ bag'[name].source = Files(v)[j].source
      /\ (\E name \in DOMAIN bag' : ~ bag'[name].whole)
            => \E name \in DOMAIN bag : ~ bag[name].whole
  BY <1>2, <1>3, <1>4, FileIsWritten DEF ExportInv
<1>6. Tried \subseteq Items
  BY ListLength DEF Tried, Past, Working, ExportInv, AtItem
<1>7. Past' = Past /\ Tried' = Tried /\ LostItems' \subseteq LostItems
  <2>1. Past' = Past
    BY DEF Past, Working
  <2>2. \A u \in Items : Arrived(u) => Arrived(u)'
    BY <1>5, SameFiles, SameRows DEF Arrived
  <2> QED BY <2>1, <2>2, <1>6 DEF Tried, LostItems
<1>8. ExportTypeOK'
  BY <1>2, <1>3, <1>4, <1>5, SameFiles, NotYetRead, <1>1 DEF ExportInv, ExportTypeOK
<1>9. LossesCounted'
  <2>1. IsFiniteSet(LostItems) /\ Cardinality(LostItems) <= count.errors /\ count.errors \in Nat
    BY ListLength DEF ExportInv, LossesCounted, ExportTypeOK
  <2>2. IsFiniteSet(LostItems') /\ Cardinality(LostItems') <= Cardinality(LostItems)
    BY <2>1, <1>7, FS_Subset
  <2> QED BY <2>1, <2>2, FS_CardinalityType DEF LossesCounted
<1>10. AtItem' /\ AllCounted' /\ CutsCounted'
  BY <1>2, <1>5, <1>7 DEF ExportInv, AtItem, AllCounted, CutsCounted
<1>11. CopiedSoFar'
  BY <1>2, <1>3, <1>5, SameFiles, SameRows DEF ExportInv, CopiedSoFar
<1>12. VerdictIsCount'
  BY DEF VerdictIsCount, Delivered
<1> QED BY <1>1, <1>8, <1>9, <1>10, <1>11, <1>12 DEF ExportInv

(* At the end of a turn no item but the one at hand may be lost anew.       *)
LEMMA OnlyThisIsLost ==
  ASSUME ExportInv, Working, NextItem, repo' = repo, sheets' = sheets,
         \A v \in Items \ {uri} : \A j \in DOMAIN Files(v) : InBag(v, j) => InBag(v, j)'
  PROVE  LostItems' \subseteq LostItems \cup {uri}
<1>1. Tried' = Tried \cup {uri} /\ uri \in Items
  BY TurnEnds DEF ExportInv
<1>2. Tried \subseteq Items
  <2>1. Past = turn - 1 /\ turn \in 1..Len(Uris)
    BY TurnEnds, ListLength DEF ExportInv, AtItem
  <2> QED BY <2>1, ListLength DEF Tried
<1>3. \A v \in Items \ {uri} : Arrived(v) => Arrived(v)'
  BY SameFiles, SameRows DEF Arrived
<1> QED BY <1>1, <1>2, <1>3 DEF LostItems

LEMMA FailKeeps ==
  ASSUME ExportInv, Fail
  PROVE  ExportInv'
<1> USE DEF Fail
<1>0. ~ Delivered /\ Working /\ ReadAfterwards' /\ LoadsAreSound' /\ edited' = NotYet /\ loaded' = NotYet
  BY NotYetRead DEF Delivered, Working
<1>1. uri \in Items /\ turn \in DOMAIN Uris
  BY <1>0, ListLength DEF ExportInv, AtItem, uri
<1>2. /\ \A v \in Items \ {uri} : \A j \in DOMAIN Files(v) : InBag(v, j) => InBag(v, j)'
      /\ \A name \in DOMAIN bag' : \E v \in Items : \E j \in DOMAIN Files(v) :
              name = Files(v)[j].name /\ bag'[name].source = Files(v)[j].source
  <2>1. CASE pc = "copy" /\ CutShort
    <3>1. PICK k \in pending : WriteFile(Files(uri)[k], FALSE)
      BY <2>1 DEF CutShort
    <3>2. k \in DOMAIN Files(uri)
      BY DEF ExportInv, ExportTypeOK
    <3> QED BY <1>1, <3>1, <3>2, FileIsWritten DEF ExportInv
  <2>2. CASE bag' = bag
    BY <2>2, SameBag DEF ExportInv, ExportTypeOK
  <2> QED BY <2>1, <2>2
<1>3. /\ pc' \in {"read", "finish", "raised"} /\ turn' \in DOMAIN Uris /\ AtItem'
      /\ count' \in [exported : 0..Len(Uris), errors : 0..Len(Uris)]
      /\ pc' # "raised" =>
           /\ NextItem /\ Past' = Past + 1
           /\ count' = [count EXCEPT !.errors = count.errors + 1]
           /\ count.exported + count.errors = Past
  <2>1. CASE NextItem /\ count' = [count EXCEPT !.errors = count.errors + 1]
    <3>1. /\ pc' \in {"read", "finish"} /\ turn' \in DOMAIN Uris /\ AtItem'
          /\ Past = turn - 1 /\ turn - 1 \in Nat /\ turn <= Len(Uris) /\ Past' = Past + 1
      BY <2>1, <1>0, TurnEnds DEF ExportInv
    <3>2. count.exported + count.errors = Past
      BY <1>0 DEF ExportInv, AllCounted, Working
    <3>3. /\ count \in [exported : 0..Len(Uris), errors : 0..Len(Uris)]
          /\ Len(Uris) \in Nat /\ turn \in Nat
      BY <1>1, ListLength DEF ExportInv, ExportTypeOK
    <3>4. count.errors + 1 \in 0..Len(Uris)
      BY <3>1, <3>2, <3>3
    <3> QED BY <2>1, <3>1, <3>2, <3>3, <3>4
  <2>2. CASE pc' = "raised" /\ UNCHANGED <<count, turn>>
    BY <2>2, <1>1 DEF ExportInv, ExportTypeOK, AtItem, Working
  <2> QED BY <2>1, <2>2
<1>4. ExportTypeOK'
  BY <1>0, <1>2, <1>3, SameFiles DEF ExportInv, ExportTypeOK
<1>5. pc' # "raised" => IsFiniteSet(LostItems') /\ Cardinality(LostItems') <= count'.errors
  <2> SUFFICES ASSUME pc' # "raised"
               PROVE  IsFiniteSet(LostItems') /\ Cardinality(LostItems') <= count'.errors
    OBVIOUS
  <2>1. LostItems' \subseteq LostItems \cup {uri}
    BY <1>0, <1>2, <1>3, OnlyThisIsLost
  <2>2. count.errors \in Nat /\ count'.errors = count.errors + 1
    BY <1>3, ListLength DEF ExportInv, ExportTypeOK
  <2>3. IsFiniteSet(LostItems) /\ Cardinality(LostItems) <= count.errors
    BY <1>0 DEF ExportInv, LossesCounted, Working
  <2>4. IsFiniteSet(LostItems') /\ Cardinality(LostItems') <= count.errors + 1
    BY <2>1, <2>2, <2>3, OneMoreLoss
  <2> QED BY <2>2, <2>4
<1>6. pc' # "raised" => count'.errors > 0 /\ count'.exported + count'.errors = Past'
  <2> SUFFICES ASSUME pc' # "raised"
               PROVE  count'.errors > 0 /\ count'.exported + count'.errors = Past'
    OBVIOUS
  <2>1. /\ count.errors \in Nat /\ count.exported \in Nat
        /\ count'.errors = count.errors + 1 /\ count'.exported = count.exported
    BY <1>3, ListLength DEF ExportInv, ExportTypeOK
  <2>2. count.exported + count.errors = Past /\ Past' = Past + 1
    BY <1>3
  <2> QED BY <2>1, <2>2
<1>7. AllCounted' /\ LossesCounted' /\ CutsCounted'
  BY <1>5, <1>6 DEF AllCounted, LossesCounted, CutsCounted
<1>8. CopiedSoFar' /\ VerdictIsCount'
  BY <1>3 DEF CopiedSoFar, VerdictIsCount, Delivered
<1> QED BY <1>0, <1>3, <1>4, <1>7, <1>8 DEF ExportInv

LEMMA ExportedKeeps ==
  ASSUME ExportInv, Exported
  PROVE  ExportInv'
<1> USE DEF Exported
<1>0. ~ Delivered /\ Working /\ ReadAfterwards' /\ LoadsAreSound' /\ edited' = NotYet /\ loaded' = NotYet
  BY NotYetRead DEF Delivered, Working
<1>1. /\ pc' \in {"read", "finish"} /\ turn' \in DOMAIN Uris /\ AtItem'
      /\ Past = turn - 1 /\ turn - 1 \in Nat /\ turn <= Len(Uris) /\ Past' = Past + 1
      /\ Tried' = Tried \cup {uri}
  BY <1>0, TurnEnds DEF ExportInv
<1>2. count.exported + count.errors = Past
  BY <1>0 DEF ExportInv, AllCounted, Working
<1>3. /\ count \in [exported : 0..Len(Uris), errors : 0..Len(Uris)]
      /\ Len(Uris) \in Nat /\ turn \in Nat
  BY <1>0, ListLength DEF ExportInv, ExportTypeOK, AtItem
<1>4. count.exported + 1 \in 0..Len(Uris)
  BY <1>1, <1>2, <1>3
<1>5. ExportTypeOK'
  BY <1>0, <1>1, <1>3, <1>4, SameFiles DEF ExportInv, ExportTypeOK
<1>6. LostItems' \subseteq LostItems
  <2>1. Arrived(uri)
    BY DEF ExportInv, CopiedSoFar, Arrived
  <2>2. \A u : Arrived(u)' <=> Arrived(u)
    BY SameExport
  <2> QED BY <1>1, <2>1, <2>2 DEF LostItems
<1>7. AllCounted' /\ CutsCounted'
  BY <1>0, <1>1, <1>2, <1>3 DEF ExportInv, AllCounted, CutsCounted, Working
<1>8. LossesCounted'
  <2>1. IsFiniteSet(LostItems) /\ Cardinality(LostItems) <= count.errors /\ count.errors \in Nat
    BY <1>0, <1>3 DEF ExportInv, LossesCounted, Working
  <2>2. IsFiniteSet(LostItems') /\ Cardinality(LostItems') <= Cardinality(LostItems)
    BY <2>1, <1>6, FS_Subset
  <2>3. count'.errors = count.errors
    BY <1>3
  <2> QED BY <2>1, <2>2, <2>3, FS_CardinalityType DEF LossesCounted
<1>9. CopiedSoFar' /\ VerdictIsCount'
  BY <1>1 DEF CopiedSoFar, VerdictIsCount, Delivered
<1> QED BY <1>0, <1>1, <1>5, <1>7, <1>8, <1>9 DEF ExportInv

LEMMA FinishKeeps ==
  ASSUME ExportInv, Finish
  PROVE  ExportInv'
<1> USE DEF Finish
<1>0. ~ Delivered /\ ReadAfterwards' /\ LoadsAreSound' /\ edited' = NotYet /\ loaded' = NotYet
  BY NotYetRead DEF Delivered
<1>1. pc' \in {"export_complete", "partial_export", "raised"} /\ ~ Working /\ ~ Working'
      /\ pc # "raised"
  BY DEF Working
<1>2. Past' = Past /\ Tried' = Tried /\ LostItems' = LostItems
  <2>1. Past' = Past
    BY <1>1 DEF Past
  <2> QED BY <2>1, SameExport DEF Tried, LostItems
<1>3. ExportTypeOK'
  BY <1>0, <1>1, SameFiles DEF ExportInv, ExportTypeOK
<1>4. AtItem' /\ AllCounted' /\ LossesCounted' /\ CutsCounted'
  BY <1>1, <1>2 DEF ExportInv, AtItem, AllCounted, LossesCounted, CutsCounted
<1>5. CopiedSoFar' /\ VerdictIsCount'
  BY <1>1 DEF CopiedSoFar, VerdictIsCount, Delivered
<1> QED BY <1>0, <1>3, <1>4, <1>5 DEF ExportInv

(* What happens after the job leaves what it has made.                      *)
LEMMA AfterwardsKeeps ==
  ASSUME ExportInv, Delivered, UNCHANGED <<repo, pc, turn, sheets, pending, bag, count>>,
         ExportTypeOK', ReadAfterwards', LoadsAreSound'
  PROVE  ExportInv'
<1>1. Past' = Past /\ Tried' = Tried /\ LostItems' = LostItems
  <2>1. Past' = Past
    BY DEF Past, Working
  <2> QED BY <2>1, SameExport DEF Tried, LostItems
<1>2. AtItem' /\ AllCounted' /\ LossesCounted' /\ CutsCounted'
  BY <1>1 DEF ExportInv, AtItem, AllCounted, LossesCounted, CutsCounted, Working
<1>3. CopiedSoFar' /\ VerdictIsCount'
  BY DEF ExportInv, CopiedSoFar, VerdictIsCount, Delivered
<1> QED BY <1>2, <1>3 DEF ExportInv

LEMMA SameLoaded ==
  ASSUME LoadsAreSound, UNCHANGED <<sheets, bag, loaded>>
  PROVE  LoadsAreSound'
<1>1. RowOf(loaded.uri)' = RowOf(loaded.uri)
  BY SameRows
<1> QED BY <1>1 DEF LoadsAreSound

LEMMA EditKeeps ==
  ASSUME ExportInv, EditCell
  PROVE  ExportInv'
<1> USE DEF EditCell
<1>1. PICK u \in RowUris, edit \in Edits : edited' = [uri |-> u, edit |-> edit]
  OBVIOUS
<1>2. u \in Items
  BY RowsAreOfItems DEF ExportInv
<1>3. ExportTypeOK'
  BY <1>1, <1>2, SameFiles DEF ExportInv, ExportTypeOK, uri
<1>4. ReadAfterwards' /\ LoadsAreSound'
  BY SameRows, SameLoaded DEF ExportInv, ReadAfterwards, Delivered
<1> QED BY <1>3, <1>4, AfterwardsKeeps

LEMMA ImportKeeps ==
  ASSUME ExportInv, NEW u \in Items, Import(u)
  PROVE  ExportInv'
<1>1. /\ imported' = [imported EXCEPT ![u] = ImportOf(u)] /\ Delivered
      /\ UNCHANGED <<repo, pc, turn, sheets, pending, bag, count, edited, loaded>>
  BY DEF Import
<1>2. DOMAIN ImportOf(u) = {"refused", "graph", "groups"}
  BY DEF ImportOf
<1>3. ExportTypeOK'
  BY <1>1, <1>2, SameFiles DEF ExportInv, ExportTypeOK, uri
<1>4. ReadAfterwards' /\ LoadsAreSound'
  BY <1>1, SameRows, SameLoaded DEF ExportInv, ReadAfterwards, Delivered
<1> QED BY <1>1, <1>3, <1>4, AfterwardsKeeps

-----------------------------------------------------------------------------
(* What the sources of one place answer when a file is asked for, and when  *)
(* one that was found is opened.                                            *)
LEMMA ExistsAnswers ==
  ASSUME NEW place, NEW name, NEW content
  PROVE  LET answer == exists(get_source(place, name), content)
             http == place.scheme \in {"http:", "https:"}
             zip == place.scheme \in {"zip:", "zip+sftp:"}
         IN  /\ answer \in {"yes", "no", "RuntimeError", "ConnectionError",
                            "BinarySourceNotFoundError"}
             /\ answer = "yes" => name \in DOMAIN content \ place.lost
             /\ answer = "RuntimeError" => Remote(place) /\ ~ place.up
             /\ answer \in {"ConnectionError", "BinarySourceNotFoundError"} =>
                  http \/ (zip /\ ~ place.there)
BY DEF exists, get_source, IsStored, Unreachable, Archive, Remote, Yes, No

LEMMA UploadAnswers ==
  ASSUME NEW place, NEW name, NEW content, exists(get_source(place, name), content) = Yes
  PROVE  LET answer == upload(get_source(place, name), content)
         IN  /\ answer \in {"yes", "TypeError"}
             /\ answer = "TypeError" => place.scheme \in {"http:", "https:"}
<1> DEFINE s == get_source(place, name)
<1>1. /\ s.place = place /\ s.path = name
      /\ s.class = CASE place.scheme \in {"zip:", "zip+sftp:"} -> "ZipFileSource"
               [] place.scheme = "sftp:" -> "RemoteFileSource"
               [] place.scheme \in {"http:", "https:"} -> "HTTPFileSource"
               [] OTHER -> "LocalFileSource"
  BY DEF get_source
<1> HIDE DEF s
<1>2. exists(s, content) = "yes"
  BY DEF s, Yes
<1>3. IsStored(s, content) /\ place.there
  BY <1>1, <1>2 DEF exists, IsStored, Unreachable, Archive, Yes, No
<1>4. Unreachable(s, "yes") = "yes"
  BY <1>1, <1>2 DEF exists, Unreachable, Archive, Yes, No
<1>5. open(s, content) = "yes" /\ mimetype(s) = "yes"
  BY <1>1, <1>3, <1>4 DEF open, mimetype, Yes
<1>6. with_open(s, content) = IF s.class = "HTTPFileSource" THEN "TypeError" ELSE "yes"
  BY <1>5 DEF with_open, Yes
<1>7. digest(s, content) \in {"yes", with_open(s, content)}
  BY <1>3, <1>4 DEF digest, Yes
<1>8. upload(s, content) = with_open(s, content)
  BY <1>5, <1>6, <1>7 DEF upload, Yes
<1> QED BY <1>1, <1>6, <1>8 DEF s

(* An exception among the answers is one of them.                           *)
LEMMA RaisedIsAnAnswer ==
  ASSUME NEW answers
  PROVE  /\ FirstRaised(answers) # Yes => FirstRaised(answers) \in answers /\ Raised(FirstRaised(answers))
         /\ FirstRaised(answers) = Yes => \A a \in answers : a \in {Yes, No}
<1> DEFINE bad == {a \in answers : Raised(a)}
<1>1. CASE bad = {}
  BY <1>1 DEF FirstRaised, Raised
<1>2. CASE bad # {}
  <2>1. (CHOOSE a \in bad : TRUE) \in bad
    BY <1>2
  <2> QED BY <1>2, <2>1 DEF FirstRaised, Raised, Yes
<1> QED BY <1>1, <1>2

LEMMA ValidationAnswers ==
  ASSUME NEW place, NEW names, NEW content
  PROVE  LET answer == validate_files(place, names, content)
             http == place.scheme \in {"http:", "https:"}
             zip == place.scheme \in {"zip:", "zip+sftp:"}
         IN  /\ answer \in {"yes", "no", "RuntimeError", "ConnectionError",
                            "BinarySourceNotFoundError"}
             /\ answer = "yes" =>
                  /\ names \subseteq DOMAIN content \ place.lost
                  /\ \A name \in names : exists(get_source(place, name), content) = Yes
             /\ answer = "RuntimeError" => Remote(place) /\ ~ place.up
             /\ answer \in {"ConnectionError", "BinarySourceNotFoundError"} =>
                  names # {} /\ (http \/ (zip /\ ~ place.there))
<1> DEFINE answers == {exists(get_source(place, name), content) : name \in names}
           first == FirstRaised(answers)
<1>1. validate_files(place, names, content) =
        IF first # Yes THEN first ELSE IF No \in answers THEN No ELSE Yes
  BY DEF validate_files
<1>2. /\ first # Yes => first \in answers /\ Raised(first)
      /\ first = Yes => \A a \in answers : a \in {Yes, No}
  BY RaisedIsAnAnswer
<1> HIDE DEF first
<1>3. CASE first # Yes
  <2>1. PICK name \in names : first = exists(get_source(place, name), content)
    BY <1>2, <1>3
  <2>2. validate_files(place, names, content) = exists(get_source(place, name), content)
        /\ exists(get_source(place, name), content) \notin {"yes", "no"}
    BY <1>1, <1>2, <1>3, <2>1 DEF Raised, Yes, No
  <2> QED BY <2>2, ExistsAnswers
<1>4. CASE first = Yes /\ No \in answers
  BY <1>1, <1>4 DEF No, Yes
<1>5. CASE first = Yes /\ No \notin answers
  <2>1. ASSUME NEW name \in names PROVE exists(get_source(place, name), content) = Yes
    <3>1. exists(get_source(place, name), content) \in answers
      OBVIOUS
    <3> QED BY <1>2, <1>5, <3>1
  <2>2. names \subseteq DOMAIN content \ place.lost
    BY <2>1, ExistsAnswers DEF Yes
  <2> QED BY <1>1, <1>5, <2>1, <2>2 DEF Yes
<1> QED BY <1>3, <1>4, <1>5

LEMMA UploadsAnswer ==
  ASSUME NEW place, NEW names, NEW content,
         \A name \in names : exists(get_source(place, name), content) = Yes
  PROVE  LET answer == upload_files(place, names, content)
         IN  /\ answer \in {"yes", "TypeError"}
             /\ answer = "TypeError" => names # {} /\ place.scheme \in {"http:", "https:"}
<1> DEFINE answers == {upload(get_source(place, name), content) : name \in names}
           first == FirstRaised(answers)
<1>1. upload_files(place, names, content) = first
  BY DEF upload_files
<1>2. first # Yes => first \in answers /\ Raised(first)
  BY RaisedIsAnAnswer
<1> HIDE DEF first
<1>3. CASE first # Yes
  <2>1. PICK name \in names : first = upload(get_source(place, name), content)
    BY <1>2, <1>3
  <2>2. first \in {"yes", "TypeError"} /\ (first = "TypeError" => place.scheme \in {"http:", "https:"})
    BY <2>1, UploadAnswers
  <2> QED BY <1>1, <2>1, <2>2
<1>4. CASE first = Yes
  BY <1>1, <1>4 DEF Yes
<1> QED BY <1>3, <1>4

LEMMA LoadKeeps ==
  ASSUME ExportInv, NEW u \in Items, NEW place \in Places, Load(u, place)
  PROVE  ExportInv'
<1> DEFINE row == RowOf(u)
           names == Range(FileNames(row))
           error == build_file_groups(row.files).error
           validation == validate_files(place, names, bag)
           uploaded == upload_files(place, names, bag)
           result == IF error \/ validation = No THEN "invalid"
                     ELSE IF validation = "RuntimeError" THEN "failed"
                     ELSE IF Raised(validation) THEN validation
                     ELSE uploaded
           files == IF result = Yes THEN [name \in names |-> bag[name]]
                                    ELSE [name \in {} |-> <<>>]
<1>1. /\ loaded' = [uri |-> u, place |-> place, result |-> result, files |-> files]
      /\ Delivered /\ u \in RowUris
      /\ UNCHANGED <<repo, pc, turn, sheets, pending, bag, count, edited, imported>>
  BY DEF Load
<1>2. /\ validation \in {"yes", "no", "RuntimeError", "ConnectionError",
                         "BinarySourceNotFoundError"}
      /\ validation = "yes" =>
           /\ names \subseteq DOMAIN bag \ place.lost
           /\ \A name \in names : exists(get_source(place, name), bag) = Yes
      /\ validation = "RuntimeError" => Remote(place) /\ ~ place.up
      /\ validation \in {"ConnectionError", "BinarySourceNotFoundError"} =>
           /\ names # {}
           /\ \/ place.scheme \in {"http:", "https:"}
              \/ place.scheme \in {"zip:", "zip+sftp:"} /\ ~ place.there
  BY ValidationAnswers
<1>3. validation = "yes" =>
        /\ uploaded \in {"yes", "TypeError"}
        /\ uploaded = "TypeError" => names # {} /\ place.scheme \in {"http:", "https:"}
  BY <1>2, UploadsAnswer
<1> HIDE DEF names, error, validation, uploaded, row
<1>4. \/ result = "invalid"
      \/ result = "failed" /\ validation = "RuntimeError"
      \/ /\ result \in {"ConnectionError", "BinarySourceNotFoundError"}
         /\ result = validation
      \/ result = uploaded /\ validation = "yes"
  BY <1>2 DEF Raised, Yes, No
<1> HIDE DEF result
<1>5. /\ result = Yes => names \subseteq DOMAIN bag \ place.lost
      /\ Raised(result) /\ result \notin {"invalid", "failed"} =>
           /\ names # {}
           /\ \/ place.scheme \in {"http:", "https:"}
              \/ place.scheme \in {"zip:", "zip+sftp:"} /\ ~ place.there
      /\ result = "failed" => Remote(place) /\ ~ place.up
  BY <1>2, <1>3, <1>4 DEF Yes, No, Raised
<1>6. /\ DOMAIN files \subseteq DOMAIN bag
      /\ result = Yes => files = [name \in names |-> bag[name]]
  BY <1>5
<1> HIDE DEF files
<1>7. /\ loaded'.uri = u /\ loaded'.place = place /\ loaded'.result = result
      /\ loaded'.files = files
  BY <1>1
<1>8. ExportTypeOK'
  BY <1>1, <1>6, <1>7, SameFiles DEF ExportInv, ExportTypeOK, uri
<1>9. ReadAfterwards'
  BY <1>1, <1>7, SameRows DEF ExportInv, ReadAfterwards, Delivered
<1>10. LoadsAreSound'
  <2>1. Range(FileNames(RowOf(loaded.uri)'))  = names
    BY <1>1, <1>7, SameRows DEF names, row, RowOf, Rows
  <2> QED BY <1>1, <1>5, <1>6, <1>7, <2>1 DEF LoadsAreSound
<1> QED BY <1>1, <1>8, <1>9, <1>10, AfterwardsKeeps

-----------------------------------------------------------------------------
LEMMA ExportStep == ExportInv /\ [ExportNext]_exportVars => ExportInv'
<1> SUFFICES ASSUME ExportInv, [ExportNext]_exportVars PROVE ExportInv'
  OBVIOUS
<1>1. CASE UNCHANGED exportVars
  <2>1. /\ UNCHANGED <<repo, pc, turn, sheets, pending, bag, count, edited, imported, loaded>>
    BY <1>1 DEF exportVars
  <2>2. Past' = Past /\ Tried' = Tried /\ LostItems' = LostItems
    <3>1. Past' = Past
      BY <2>1 DEF Past, Working
    <3> QED BY <2>1, <3>1, SameExport DEF Tried, LostItems
  <2>3. ExportTypeOK' /\ ReadAfterwards' /\ LoadsAreSound'
    BY <2>1, SameFiles, SameRows, SameLoaded
       DEF ExportInv, ExportTypeOK, uri, ReadAfterwards, Delivered
  <2>4. AtItem' /\ AllCounted' /\ LossesCounted' /\ CutsCounted' /\ VerdictIsCount'
    BY <2>1, <2>2
       DEF ExportInv, AtItem, AllCounted, LossesCounted, CutsCounted, VerdictIsCount,
           Working, Delivered
  <2>5. CopiedSoFar'
    <3>1. uri' = uri
      BY <2>1 DEF uri
    <3> QED BY <2>1, <3>1, SameFiles, SameRows, SameBag DEF ExportInv, CopiedSoFar
  <2> QED BY <2>3, <2>4, <2>5 DEF ExportInv
<1>2. CASE ExportNext
  BY <1>2, FailKeeps, ReadKeeps, WriteKeeps, CopyKeeps, ExportedKeeps, FinishKeeps,
     EditKeeps, ImportKeeps, LoadKeeps DEF ExportNext
<1> QED BY <1>1, <1>2

LEMMA ExportAlways == ExportSpec => []ExportInv
BY ExportStarts, ExportStep, PTL DEF ExportSpec

(* A delivered job has tried every item.                                    *)
LEMMA ArrivalFollows == ExportInv => EveryItemArrives
<1> SUFFICES ASSUME ExportInv, Delivered
             PROVE  /\ Cardinality({u \in Items : ~ Arrived(u)}) <= count.errors
                    /\ pc = "export_complete" <=> count.errors = 0
                    /\ (\E name \in DOMAIN bag : ~ bag[name].whole) => count.errors > 0
  BY DEF EveryItemArrives
<1>1. Past = Len(Uris) /\ pc # "raised"
  BY DEF Past, Working, Delivered
<1>2. {u \in Items : ~ Arrived(u)} = LostItems
  BY <1>1, ListLength DEF LostItems, Tried
<1>3. Cardinality({u \in Items : ~ Arrived(u)}) <= count.errors
  BY <1>1, <1>2 DEF ExportInv, LossesCounted
<1>4. pc = "export_complete" <=> count.errors = 0
  <2>1. count.exported + count.errors = Len(Uris)
        /\ (pc = "export_complete" <=> count.exported = Len(Uris))
    BY <1>1 DEF ExportInv, AllCounted, VerdictIsCount
  <2>2. count.exported \in Nat /\ count.errors \in Nat /\ Len(Uris) \in Nat
    BY ListLength DEF ExportInv, ExportTypeOK
  <2> QED BY <2>1, <2>2
<1>5. (\E name \in DOMAIN bag : ~ bag[name].whole) => count.errors > 0
  BY <1>1 DEF ExportInv, CutsCounted
<1> QED BY <1>3, <1>4, <1>5

(* For any lists of URIs, classes and failures, the export keeps its types: *)
(* every row is that of an item, and what is in the bag is a file of one.   *)
THEOREM ExportTypes == ExportSpec => []ExportTypeOK
BY ExportAlways, PTL DEF ExportInv

(* Whatever fails and however often an item is listed: each one that is not *)
(* in the spreadsheet with all of its files in the bag has been counted.    *)
THEOREM ItemsArrive == ExportSpec => []EveryItemArrives
BY ExportAlways, ArrivalFollows, PTL

(* Wherever the bag is moved to, a row is loaded with the files it names,   *)
(* and only HTTP and a missing archive end the run.                         *)
THEOREM RowsAreLoaded == ExportSpec => []LoadsAreSound
BY ExportAlways, PTL DEF ExportInv

(* Both, as the run checks it: files arrive in the bag, or the loss is      *)
(* counted, and from the bag.                                               *)
THEOREM FilesHaveArrived == ExportSpec => []FilesArrive
<1>1. ExportInv => FilesArrive
  BY ArrivalFollows DEF ExportInv, FilesArrive
<1> QED BY <1>1, ExportAlways, PTL

-----------------------------------------------------------------------------
(* Induction over numbers and sequences, from the least number that would   *)
(* be an exception; and that a function over sequences which is defined by  *)
(* what it makes of one more element exists and is the one so defined.      *)
LEMMA NumberInduction ==
  ASSUME NEW Good, 0 \in Good, \A n \in Nat : n \in Good => n + 1 \in Good
  PROVE  Nat \subseteq Good
<1> SUFFICES ASSUME Nat \ Good # {} PROVE FALSE
  OBVIOUS
<1>1. PICK m \in Nat \ Good : \A j \in Nat \ Good : m <= j
  BY LeastNumber
<1>2. m - 1 \in Nat /\ m - 1 \in Good /\ (m - 1) + 1 = m
  BY <1>1
<1> QED BY <1>1, <1>2

LEMMA FrontLast ==
  ASSUME NEW T, NEW t \in Seq(T), t # <<>>
  PROVE  /\ Front(t) \in Seq(T) /\ Last(t) \in T
         /\ Len(Front(t)) = Len(t) - 1 /\ Len(t) - 1 \in Nat
         /\ Len(t) \in Nat /\ Len(Front(t)) \in Nat
         /\ t = Append(Front(t), Last(t))
<1>1. Len(t) \in Nat /\ Len(t) # 0 /\ Len(t) - 1 \in Nat
  OBVIOUS
<1>2. /\ Front(t) \in Seq(T) /\ Len(Front(t)) = Len(t) - 1
      /\ \A i \in 1..(Len(t) - 1) : Front(t)[i] = t[i]
  <2> DEFINE n == Len(t) - 1
  <2>1. n \in Nat /\ n <= Len(t) /\ Front(t) = SubSeq(t, 1, n)
    BY <1>1 DEF Front
  <2> HIDE DEF n
  <2>2. SubSeq(t, 1, n) = [i \in 1..n |-> t[i]]
    BY <1>1, <2>1
  <2>3. \A i \in 1..n : t[i] \in T
    BY <1>1, <2>1
  <2>4. Front(t) \in Seq(T)
    BY <2>1, <2>2, <2>3
  <2>5. Len(Front(t)) = n
    BY <2>1, <2>2
  <2>6. \A i \in 1..n : Front(t)[i] = t[i]
    BY <2>1, <2>2
  <2> QED BY <2>4, <2>5, <2>6 DEF n
<1>3. Last(t) \in T
  BY <1>1 DEF Last
<1>4. t = Append(Front(t), Last(t))
  <2> DEFINE s == Append(Front(t), Last(t))
  <2>1. s \in Seq(T) /\ Len(s) = Len(t) /\ s[Len(t)] = t[Len(t)]
    BY <1>1, <1>2, <1>3 DEF Last
  <2>2. \A i \in 1..(Len(t) - 1) : s[i] = t[i]
    BY <1>1, <1>2, <1>3
  <2>3. \A i \in 1..Len(t) : s[i] = t[i]
    BY <1>1, <2>1, <2>2
  <2> HIDE DEF s
  <2>4. s = t
    BY <2>1, <2>3
  <2> QED BY <2>4 DEF s
<1> QED BY <1>1, <1>2, <1>3, <1>4

LEMMA AppendFront ==
  ASSUME NEW T, NEW t \in Seq(T), NEW x \in T
  PROVE  /\ Append(t, x) \in Seq(T) /\ Append(t, x) # <<>>
         /\ Front(Append(t, x)) = t /\ Last(Append(t, x)) = x
BY DEF Front, Last

LEMMA AppendParts ==
  ASSUME NEW T, NEW t \in Seq(T), NEW x \in T
  PROVE  /\ Len(t) \in Nat /\ DOMAIN t = 1..Len(t)
         /\ DOMAIN Append(t, x) = 1..(Len(t) + 1) /\ Len(Append(t, x)) = Len(t) + 1
         /\ \A i \in 1..Len(t) : Append(t, x)[i] = t[i]
         /\ Append(t, x)[Len(t) + 1] = x
OBVIOUS

LEMMA OneElement ==
  ASSUME NEW T, NEW x \in T PROVE <<x>> \in Seq(T) /\ <<>> \in Seq(T)
OBVIOUS

LEMMA ConcatParts ==
  ASSUME NEW T, NEW s \in Seq(T), NEW t \in Seq(T)
  PROVE  s \o t \in Seq(T) /\ Len(s \o t) = Len(s) + Len(t)
OBVIOUS

LEMMA ConcatAppend ==
  ASSUME NEW T, NEW s \in Seq(T), NEW t \in Seq(T), NEW x \in T
  PROVE  /\ s \o Append(t, x) = Append(s \o t, x)
         /\ s \o <<>> = s /\ s \o <<x>> = Append(s, x)
         /\ <<>> \o s = s /\ (s \o <<x>>) \o t = s \o (<<x>> \o t)
<1>1. s \o Append(t, x) = Append(s \o t, x)
  OBVIOUS
<1>2. s \o <<>> = s /\ <<>> \o s = s
  OBVIOUS
<1>3. s \o <<x>> = Append(s, x)
  OBVIOUS
<1>4. (s \o <<x>>) \o t = s \o (<<x>> \o t)
  OBVIOUS
<1> QED BY <1>1, <1>2, <1>3, <1>4

LEMMA SequenceInduction ==
  ASSUME NEW T, NEW Good, <<>> \in Good,
         \A t \in Seq(T) : \A x \in T : t \in Good => Append(t, x) \in Good
  PROVE  Seq(T) \subseteq Good
<1> DEFINE Lengths == {n \in Nat : \A t \in Seq(T) : Len(t) = n => t \in Good}
<1>1. 0 \in Lengths
  OBVIOUS
<1>2. ASSUME NEW n \in Nat, n \in Lengths PROVE n + 1 \in Lengths
  <2>1. ASSUME NEW t \in Seq(T), Len(t) = n + 1 PROVE t \in Good
    <3>1. t # <<>>
      BY <2>1
    <3>2. Len(Front(t)) = n /\ Front(t) \in Seq(T) /\ Last(t) \in T /\ t = Append(Front(t), Last(t))
      BY <2>1, <3>1, FrontLast
    <3> QED BY <1>2, <3>2
  <2> QED BY <2>1
<1>3. Nat \subseteq Lengths
  <2> HIDE DEF Lengths
  <2> QED BY <1>1, <1>2, NumberInduction
<1> QED BY <1>3

(* A function of sequences may be given by its value for the empty one and  *)
(* by how a further element changes it.                                     *)
FollowsSteps(f, T, start, step) ==
  /\ f[<<>>] = start
  /\ \A t \in Seq(T) : t # <<>> => f[t] = step[<<f[Front(t)], t>>]

LEMMA SequenceRecursion ==
  ASSUME NEW T, NEW S, NEW start \in S, NEW step \in [S \X Seq(T) -> S]
  PROVE  \E f \in [Seq(T) -> S] : FollowsSteps(f, T, start, step)
<1> DEFINE UpTo(f, n) ==
             /\ f[<<>>] = start
             /\ \A t \in Seq(T) : t # <<>> /\ Len(t) <= n => f[t] = step[<<f[Front(t)], t>>]
           Reached == {n \in Nat : \E f \in [Seq(T) -> S] : UpTo(f, n)}
<1>1. 0 \in Reached
  <2>1. [t \in Seq(T) |-> start] \in [Seq(T) -> S] /\ UpTo([t \in Seq(T) |-> start], 0)
    OBVIOUS
  <2> QED BY <2>1
<1>2. ASSUME NEW n \in Nat, n \in Reached PROVE n + 1 \in Reached
  <2>1. PICK f \in [Seq(T) -> S] : UpTo(f, n)
    BY <1>2
  <2> DEFINE g == [t \in Seq(T) |-> IF Len(t) = n + 1 THEN step[<<f[Front(t)], t>>] ELSE f[t]]
  <2>2. g \in [Seq(T) -> S]
    <3>1. ASSUME NEW t \in Seq(T), Len(t) = n + 1 PROVE step[<<f[Front(t)], t>>] \in S
      <4>1. t # <<>>
        BY <3>1
      <4>2. f[Front(t)] \in S
        BY <4>1, FrontLast
      <4> QED BY <4>2
    <3> QED BY <3>1
  <2>3. g[<<>>] = start
    <3>1. <<>> \in Seq(T) /\ Len(<<>>) # n + 1
      OBVIOUS
    <3> QED BY <2>1, <3>1
  <2>4. ASSUME NEW t \in Seq(T), t # <<>>, Len(t) <= n + 1
        PROVE  g[t] = step[<<g[Front(t)], t>>]
    <3>1. Front(t) \in Seq(T) /\ Len(Front(t)) = Len(t) - 1 /\ Len(t) \in Nat
      BY <2>4, FrontLast
    <3>2. g[Front(t)] = f[Front(t)]
      BY <3>1, <2>4
    <3>3. CASE Len(t) = n + 1
      BY <3>2, <3>3
    <3>4. CASE Len(t) # n + 1
      <4>1. Len(t) <= n
        BY <2>4, <3>1, <3>4
      <4>2. f[t] = step[<<f[Front(t)], t>>]
        BY <2>1, <2>4, <4>1
      <4> QED BY <3>2, <3>4, <4>2
    <3> QED BY <3>3, <3>4
  <2> HIDE DEF g
  <2>5. UpTo(g, n + 1)
    BY <2>3, <2>4
  <2>6. n + 1 \in Nat
    OBVIOUS
  <2> HIDE DEF UpTo
  <2> QED BY <2>2, <2>5, <2>6
<1>3. Nat \subseteq Reached
  <2> HIDE DEF Reached
  <2> QED BY <1>1, <1>2, NumberInduction
<1>4. ASSUME NEW n \in Nat, NEW m \in Nat, NEW f \in [Seq(T) -> S], NEW g \in [Seq(T) -> S],
             UpTo(f, n), UpTo(g, m), n <= m
      PROVE  \A t \in Seq(T) : Len(t) <= n => f[t] = g[t]
  <2> DEFINE Good == {t \in Seq(T) : Len(t) <= n => f[t] = g[t]}
  <2>1. <<>> \in Good
    BY <1>4
  <2>2. ASSUME NEW t \in Seq(T), NEW x \in T, t \in Good PROVE Append(t, x) \in Good
    <3> DEFINE s == Append(t, x)
    <3>1. s \in Seq(T) /\ s # <<>> /\ Front(s) = t /\ Len(s) = Len(t) + 1
      BY AppendFront
    <3> HIDE DEF s
    <3>2. SUFFICES ASSUME Len(s) <= n PROVE f[s] = g[s]
      BY <3>1 DEF s
    <3>3. f[t] = g[t]
      BY <2>2, <3>1, <3>2
    <3>4. Len(s) <= m
      BY <3>1, <3>2, <1>4
    <3> QED BY <1>4, <3>1, <3>2, <3>3, <3>4
  <2>3. Seq(T) \subseteq Good
    <3> HIDE DEF Good
    <3> QED BY <2>1, <2>2, SequenceInduction
  <2> QED BY <2>3
<1> DEFINE at(n) == CHOOSE f \in [Seq(T) -> S] : UpTo(f, n)
           F == [t \in Seq(T) |-> at(Len(t))[t]]
<1>5. \A n \in Nat : at(n) \in [Seq(T) -> S] /\ UpTo(at(n), n)
  BY <1>3
<1> HIDE DEF at, Reached, UpTo
<1>6. F \in [Seq(T) -> S]
  <2>1. \A t \in Seq(T) : Len(t) \in Nat
    OBVIOUS
  <2> QED BY <1>5, <2>1
<1>7. F[<<>>] = start
  <2>1. <<>> \in Seq(T) /\ Len(<<>>) = 0
    OBVIOUS
  <2> QED BY <1>5, <2>1 DEF UpTo
<1>8. ASSUME NEW t \in Seq(T), t # <<>> PROVE F[t] = step[<<F[Front(t)], t>>]
  <2> DEFINE n == Len(Front(t))
  <2>1. Front(t) \in Seq(T) /\ n \in Nat /\ Len(t) \in Nat /\ n <= Len(t)
    <3>1. Front(t) \in Seq(T) /\ n = Len(t) - 1 /\ Len(t) \in Nat /\ n \in Nat
      BY <1>8, FrontLast
    <3> HIDE DEF n
    <3> QED BY <3>1
  <2>2. at(n)[Front(t)] = at(Len(t))[Front(t)]
    <3> HIDE DEF n
    <3>1. n <= n /\ Len(Front(t)) <= n
      BY <2>1 DEF n
    <3> QED BY <1>4, <1>5, <2>1, <3>1
  <2>3. F[Front(t)] = at(n)[Front(t)] /\ F[t] = at(Len(t))[t]
    BY <2>1
  <2>4. at(Len(t))[t] = step[<<at(Len(t))[Front(t)], t>>]
    <3>1. UpTo(at(Len(t)), Len(t)) /\ Len(t) <= Len(t)
      BY <1>5, <2>1
    <3> QED BY <1>8, <3>1 DEF UpTo
  <2> QED BY <2>2, <2>3, <2>4
<1> HIDE DEF F
<1> QED BY <1>6, <1>7, <1>8 DEF FollowsSteps

-----------------------------------------------------------------------------
(* The functions on texts, with one more token.                             *)
LEMMA PiecesStep ==
  ASSUME NEW sep, NEW guards
  PROVE  /\ Pieces(<<>>, sep, guards) = << <<>> >>
         /\ \A t \in Text : t # <<>> =>
              Pieces(t, sep, guards) =
                IF Last(t) = sep /\ ~ (Front(t) # <<>> /\ Last(Front(t)) \in guards)
                THEN Append(Pieces(Front(t), sep, guards), <<>>)
                ELSE Append(Front(Pieces(Front(t), sep, guards)),
                            Append(Last(Pieces(Front(t), sep, guards)), Last(t)))
         /\ \A t \in Text : Pieces(t, sep, guards) \in Seq(Text) \ {<<>>}
<1> DEFINE S == Seq(Text) \ {<<>>}
           Next_(done, t) ==
             IF Last(t) = sep /\ ~ (Front(t) # <<>> /\ Last(Front(t)) \in guards)
             THEN Append(done, <<>>)
             ELSE Append(Front(done), Append(Last(done), Last(t)))
           Fix(f) == f = [t \in Text |-> IF t = <<>> THEN << <<>> >>
                            ELSE Next_(f[Front(t)], t)]
           step == [p \in S \X Text |-> IF p[2] = <<>> THEN p[1] ELSE Next_(p[1], p[2])]
<1>1. ASSUME NEW done \in S, NEW t \in Text, t # <<>> PROVE Next_(done, t) \in S
  <2>1. Last(t) \in Token
    BY <1>1, FrontLast DEF Text
  <2>2. Front(done) \in Seq(Text) /\ Last(done) \in Text
    BY FrontLast
  <2>3. Append(Last(done), Last(t)) \in Text
    BY <2>1, <2>2 DEF Text
  <2>4. Append(done, <<>>) \in S
    <3>1. <<>> \in Text
      BY DEF Text
    <3> QED BY <3>1, AppendFront
  <2>5. Append(Front(done), Append(Last(done), Last(t))) \in S
    BY <2>2, <2>3, AppendFront
  <2> QED BY <2>4, <2>5
<1>2. step \in [S \X Text -> S]
  <2> HIDE DEF Next_, S
  <2> QED BY <1>1
<1>3. << <<>> >> \in S
  BY DEF Text
<1>4. PICK f \in [Text -> S] : FollowsSteps(f, Token, << <<>> >>, step)
  <2> HIDE DEF step, S
  <2> QED BY <1>2, <1>3, SequenceRecursion DEF Text
<1>5. ASSUME NEW t \in Text, t # <<>> PROVE f[t] = Next_(f[Front(t)], t)
  <2>1. Front(t) \in Text
    BY <1>5, FrontLast DEF Text
  <2>2. f[t] = step[<<f[Front(t)], t>>]
    BY <1>4, <1>5 DEF FollowsSteps, Text
  <2> HIDE DEF Next_, S
  <2> QED BY <1>4, <1>5, <2>1, <2>2
<1>6. Fix(f)
  <2> HIDE DEF Next_
  <2>1. f[<<>>] = << <<>> >>
    BY <1>4 DEF FollowsSteps
  <2> QED BY <1>4, <1>5, <2>1
<1> DEFINE F == CHOOSE f_ : Fix(f_)
<1>7. Fix(F)
  <2> HIDE DEF Fix
  <2> QED BY <1>6
<1>8. \A t : Pieces(t, sep, guards) = F[t]
  BY DEF Pieces
<1> HIDE DEF F
<1>9. <<>> \in Text /\ F[<<>>] = << <<>> >> /\ \A t \in Text : t # <<>> => F[t] = Next_(F[Front(t)], t)
  <2> HIDE DEF Next_
  <2>1. <<>> \in Text
    BY DEF Text
  <2> QED BY <1>7, <2>1
<1>10. \A t \in Text : F[t] \in S
  <2> DEFINE Good == {t \in Text : F[t] \in S}
  <2>1. <<>> \in Good
    BY <1>3, <1>9
  <2>2. ASSUME NEW t \in Seq(Token), NEW x \in Token, t \in Good PROVE Append(t, x) \in Good
    <3> HIDE DEF Next_, S
    <3> QED BY <2>2, <1>1, <1>9, AppendFront DEF Text
  <2> HIDE DEF Good
  <2>3. Seq(Token) \subseteq Good
    BY <2>1, <2>2, SequenceInduction
  <2> QED BY <2>3 DEF Text, Good
<1> QED BY <1>8, <1>9, <1>10

LEMMA PiecesAppend ==
  ASSUME NEW sep, NEW guards, NEW t \in Text, NEW x \in Token
  PROVE  /\ x = sep /\ ~ (t # <<>> /\ Last(t) \in guards)
              => Pieces(Append(t, x), sep, guards) = Append(Pieces(t, sep, guards), <<>>)
         /\ x # sep
              => Pieces(Append(t, x), sep, guards) =
                   Append(Front(Pieces(t, sep, guards)),
                          Append(Last(Pieces(t, sep, guards)), x))
<1> DEFINE a == Append(t, x)
<1>1. a \in Text /\ a # <<>> /\ Front(a) = t /\ Last(a) = x
  BY AppendFront DEF Text
<1> HIDE DEF a
<1>2. Pieces(a, sep, guards) =
        IF x = sep /\ ~ (t # <<>> /\ Last(t) \in guards)
        THEN Append(Pieces(t, sep, guards), <<>>)
        ELSE Append(Front(Pieces(t, sep, guards)), Append(Last(Pieces(t, sep, guards)), x))
  <2>1. Pieces(a, sep, guards) =
          IF Last(a) = sep /\ ~ (Front(a) # <<>> /\ Last(Front(a)) \in guards)
          THEN Append(Pieces(Front(a), sep, guards), <<>>)
          ELSE Append(Front(Pieces(Front(a), sep, guards)),
                      Append(Last(Pieces(Front(a), sep, guards)), Last(a)))
    BY <1>1, PiecesStep, Zenon
  <2> QED BY <1>1, <2>1
<1> QED BY <1>2 DEF a

(* A text in which a token does not occur.                                  *)
Without(t, x) == \A i \in DOMAIN t : t[i] # x

LEMMA WithoutParts ==
  ASSUME NEW x
  PROVE  /\ Without(<<>>, x)
         /\ \A t \in Text : \A y \in Token :
              Without(Append(t, y), x) <=> Without(t, x) /\ y # x
         /\ \A t \in Text : t # <<>> /\ Without(t, x) => Last(t) # x
<1>1. ASSUME NEW t \in Text, NEW y \in Token
      PROVE  Without(Append(t, y), x) <=> Without(t, x) /\ y # x
  <2>1. Len(t) \in Nat /\ DOMAIN t = 1..Len(t) /\ DOMAIN Append(t, y) = 1..(Len(t) + 1)
    BY AppendParts DEF Text
  <2>2. /\ \A i \in 1..Len(t) : Append(t, y)[i] = t[i]
        /\ Append(t, y)[Len(t) + 1] = y
    BY AppendParts DEF Text
  <2>3. \A i : i \in 1..(Len(t) + 1) <=> i \in 1..Len(t) \/ i = Len(t) + 1
    BY <2>1
  <2> QED BY <2>1, <2>2, <2>3 DEF Without
<1>2. ASSUME NEW t \in Text, t # <<>>, Without(t, x) PROVE Last(t) # x
  <2>1. Len(t) \in DOMAIN t
    BY <1>2 DEF Text
  <2> QED BY <1>2, <2>1 DEF Without, Last
<1>3. Without(<<>>, x)
  BY DEF Without
<1> QED BY <1>1, <1>2, <1>3

LEMMA UnescapePlain ==
  ASSUME NEW t \in Text, Without(t, Escape)
  PROVE  Unescape(t) = t
<1> DEFINE S == [out : Text, open : BOOLEAN]
           Next_(before, s) ==
             IF Last(s) = Escape /\ ~ before.open
             THEN [out |-> before.out, open |-> TRUE]
             ELSE [out |-> Append(before.out, Last(s)), open |-> FALSE]
           start == [out |-> <<>>, open |-> FALSE]
           Fix(f) == f = [s \in Text |-> IF s = <<>> THEN start ELSE Next_(f[Front(s)], s)]
           step == [p \in S \X Text |-> IF p[2] = <<>> THEN p[1] ELSE Next_(p[1], p[2])]
<1>1. ASSUME NEW r \in S, NEW s \in Text, s # <<>> PROVE Next_(r, s) \in S
  <2>1. Last(s) \in Token
    BY <1>1, FrontLast DEF Text
  <2>2. Append(r.out, Last(s)) \in Text
    BY <2>1 DEF Text
  <2> QED BY <2>2
<1>2. step \in [S \X Text -> S]
  <2> HIDE DEF Next_, S
  <2> QED BY <1>1
<1>3. start \in S
  BY DEF Text
<1>4. PICK f \in [Text -> S] : FollowsSteps(f, Token, start, step)
  <2> HIDE DEF step, S, start
  <2> QED BY <1>2, <1>3, SequenceRecursion DEF Text
<1>5. ASSUME NEW s \in Text, s # <<>> PROVE f[s] = Next_(f[Front(s)], s)
  <2>1. Front(s) \in Text
    BY <1>5, FrontLast DEF Text
  <2>2. f[s] = step[<<f[Front(s)], s>>]
    BY <1>4, <1>5 DEF FollowsSteps, Text
  <2> HIDE DEF Next_, S, start
  <2> QED BY <1>4, <1>5, <2>1, <2>2
<1>6. Fix(f)
  <2> HIDE DEF Next_, start
  <2>1. f[<<>>] = start
    BY <1>4 DEF FollowsSteps
  <2> QED BY <1>4, <1>5, <2>1
<1> DEFINE F == CHOOSE f_ : Fix(f_)
<1>7. Fix(F)
  <2> HIDE DEF Fix
  <2> QED BY <1>6
<1>8. Unescape(t) = IF F[t].open THEN Append(F[t].out, Escape) ELSE F[t].out
  BY DEF Unescape
<1> HIDE DEF F
<1>9. F[<<>>] = start /\ \A s \in Text : s # <<>> => F[s] = Next_(F[Front(s)], s)
  <2> HIDE DEF Next_, start
  <2>1. <<>> \in Text
    BY DEF Text
  <2> QED BY <1>7, <2>1
<1> DEFINE Good == {s \in Text : Without(s, Escape) => F[s] = [out |-> s, open |-> FALSE]}
<1>10. <<>> \in Good
  BY <1>9 DEF Text
<1>11. ASSUME NEW s \in Seq(Token), NEW x \in Token, s \in Good PROVE Append(s, x) \in Good
  <2>1. /\ Append(s, x) \in Text /\ Append(s, x) # <<>>
        /\ Front(Append(s, x)) = s /\ Last(Append(s, x)) = x
    BY AppendFront DEF Text
  <2>2. SUFFICES ASSUME Without(Append(s, x), Escape)
                 PROVE  F[Append(s, x)] = [out |-> Append(s, x), open |-> FALSE]
    BY <2>1
  <2>3. x # Escape /\ F[s] = [out |-> s, open |-> FALSE]
    BY <1>11, <2>2, WithoutParts DEF Text
  <2>4. F[Append(s, x)] = Next_(F[s], Append(s, x))
    <3> HIDE DEF Next_
    <3> QED BY <1>9, <2>1
  <2> QED BY <2>1, <2>3, <2>4
<1>12. t \in Good
  <2> HIDE DEF Good
  <2> QED BY <1>10, <1>11, SequenceInduction DEF Text
<1> QED BY <1>8, <1>12

LEMMA JoinStep ==
  ASSUME NEW sep \in Token
  PROVE  /\ JoinWith(<<>>, sep) = <<>>
         /\ \A p \in Seq(Text) : \A t \in Text :
              JoinWith(Append(p, t), sep) =
                IF p = <<>> THEN t ELSE JoinWith(p, sep) \o <<sep>> \o t
         /\ \A p \in Seq(Text) : JoinWith(p, sep) \in Text
<1> DEFINE Next_(joined, p) ==
             IF Front(p) = <<>> THEN Last(p) ELSE joined \o <<sep>> \o Last(p)
           Fix(f) == f = [p \in Seq(Text) |-> IF p = <<>> THEN <<>>
                            ELSE IF Front(p) = <<>> THEN Last(p)
                            ELSE f[Front(p)] \o <<sep>> \o Last(p)]
           step == [p \in Text \X Seq(Text) |-> IF p[2] = <<>> THEN p[1] ELSE Next_(p[1], p[2])]
<1>0. <<>> \in Text /\ <<>> \in Seq(Text)
  BY DEF Text
<1>1. ASSUME NEW r \in Text, NEW p \in Seq(Text), p # <<>> PROVE Next_(r, p) \in Text
  <2>1. Last(p) \in Text
    BY <1>1, FrontLast
  <2>2. <<sep>> \in Text
    BY OneElement DEF Text
  <2>3. r \o <<sep>> \o Last(p) \in Text
    BY <2>1, <2>2, ConcatParts DEF Text
  <2> QED BY <2>1, <2>3
<1>2. step \in [Text \X Seq(Text) -> Text]
  <2> HIDE DEF Next_
  <2> QED BY <1>1
<1>4. PICK f \in [Seq(Text) -> Text] : FollowsSteps(f, Text, <<>>, step)
  <2> HIDE DEF step
  <2> QED BY <1>0, <1>2, SequenceRecursion
<1>5. ASSUME NEW p \in Seq(Text), p # <<>> PROVE f[p] = Next_(f[Front(p)], p)
  <2>1. Front(p) \in Seq(Text)
    BY <1>5, FrontLast
  <2>2. f[p] = step[<<f[Front(p)], p>>]
    BY <1>4, <1>5 DEF FollowsSteps
  <2> HIDE DEF Next_
  <2> QED BY <1>4, <1>5, <2>1, <2>2
<1>6. Fix(f)
  <2>1. f[<<>>] = <<>>
    BY <1>4 DEF FollowsSteps
  <2> QED BY <1>4, <1>5, <2>1
<1> DEFINE F == CHOOSE f_ : Fix(f_)
<1>7. Fix(F)
  <2> HIDE DEF Fix
  <2> QED BY <1>6
<1>8. \A p : JoinWith(p, sep) = F[p]
  BY DEF JoinWith
<1> HIDE DEF F
<1>9. F[<<>>] = <<>> /\ \A p \in Seq(Text) : p # <<>> => F[p] = Next_(F[Front(p)], p)
  BY <1>0, <1>7
<1>10. ASSUME NEW p \in Seq(Text), NEW t \in Text
       PROVE  F[Append(p, t)] = IF p = <<>> THEN t ELSE F[p] \o <<sep>> \o t
  <2>1. /\ Append(p, t) \in Seq(Text) /\ Append(p, t) # <<>>
        /\ Front(Append(p, t)) = p /\ Last(Append(p, t)) = t
    BY AppendFront
  <2> QED BY <1>9, <2>1
<1>11. \A p \in Seq(Text) : F[p] \in Text
  <2> DEFINE Good == {p \in Seq(Text) : F[p] \in Text}
  <2>1. <<>> \in Good
    BY <1>0, <1>9
  <2>2. ASSUME NEW p \in Seq(Text), NEW t \in Text, p \in Good PROVE Append(p, t) \in Good
    <3>1. <<sep>> \in Text
      BY OneElement DEF Text
    <3>2. F[p] \o <<sep>> \o t \in Text
      BY <2>2, <3>1, ConcatParts DEF Text
    <3> QED BY <2>2, <3>2, <1>10, AppendFront
  <2> HIDE DEF Good
  <2>3. Seq(Text) \subseteq Good
    BY <2>1, <2>2, SequenceInduction
  <2> QED BY <2>3 DEF Good
<1>12. F[<<>>] = <<>>
  BY <1>9
<1>13. JoinWith(<<>>, sep) = <<>>
  BY <1>8, <1>12
<1>14. ASSUME NEW p \in Seq(Text), NEW t \in Text
       PROVE  JoinWith(Append(p, t), sep) =
                IF p = <<>> THEN t ELSE JoinWith(p, sep) \o <<sep>> \o t
  <2>1. JoinWith(Append(p, t), sep) = F[Append(p, t)] /\ JoinWith(p, sep) = F[p]
    BY <1>8
  <2> QED BY <1>10, <2>1
<1>15. \A p \in Seq(Text) : JoinWith(p, sep) \in Text
  BY <1>8, <1>11
<1> QED BY <1>13, <1>14, <1>15

-----------------------------------------------------------------------------
(* Splitting undoes joining, for pieces without the separator.              *)
LEMMA WholePiece ==
  ASSUME NEW sep \in Token, NEW guards, NEW t \in Text, Without(t, sep)
  PROVE  Pieces(t, sep, guards) = <<t>>
<1> DEFINE Good == {s \in Text : Without(s, sep) => Pieces(s, sep, guards) = <<s>>}
<1>1. <<>> \in Good
  BY PiecesStep, OneElement DEF Text
<1>2. ASSUME NEW s \in Seq(Token), NEW x \in Token, s \in Good PROVE Append(s, x) \in Good
  <2> DEFINE a == Append(s, x)
  <2>1. a \in Text /\ a # <<>> /\ Front(a) = s /\ Last(a) = x
    BY AppendFront DEF Text
  <2>2. SUFFICES ASSUME Without(a, sep) PROVE Pieces(a, sep, guards) = <<a>>
    BY <2>1
  <2>3. x # sep /\ Pieces(s, sep, guards) = <<s>>
    BY <1>2, <2>2, WithoutParts DEF Text
  <2>4. Pieces(a, sep, guards) = Append(Front(<<s>>), Append(Last(<<s>>), x))
    BY <2>3, PiecesAppend DEF Text
  <2>5. Front(<<s>>) = <<>> /\ Last(<<s>>) = s
    BY DEF Front, Last
  <2>6. Append(<<>>, Append(s, x)) = <<Append(s, x)>>
    OBVIOUS
  <2> QED BY <2>4, <2>5, <2>6
<1>3. Text \subseteq Good
  <2> HIDE DEF Good
  <2> QED BY <1>1, <1>2, SequenceInduction DEF Text
<1> QED BY <1>3

LEMMA OneMorePiece ==
  ASSUME NEW sep \in Token, NEW guards, NEW u \in Text, NEW t \in Text,
         sep \notin guards, Without(t, sep),
         \A x \in guards : Without(u, x) /\ Without(t, x)
  PROVE  Pieces(u \o <<sep>> \o t, sep, guards) = Append(Pieces(u, sep, guards), t)
<1> DEFINE us == Append(u, sep)
           before == Pieces(u, sep, guards)
           Good == {s \in Text : Without(s, sep) /\ (\A g \in guards : Without(s, g)) =>
                      Pieces(us \o s, sep, guards) = Append(before, s)}
<1>0. /\ us \in Text /\ us # <<>> /\ Front(us) = u /\ Last(us) = sep
      /\ (\A g \in guards : Without(us, g))
      /\ before \in Seq(Text) /\ <<>> \in Text
  <2>1. us \in Text /\ us # <<>> /\ Front(us) = u /\ Last(us) = sep
    BY AppendFront DEF Text
  <2>2. \A g \in guards : Without(us, g)
    BY WithoutParts
  <2>3. before \in Seq(Text) /\ <<>> \in Text
    BY PiecesStep, OneElement DEF Text
  <2> QED BY <2>1, <2>2, <2>3
<1>1. <<>> \in Good
  <2>1. us \o <<>> = us
    BY <1>0, ConcatAppend DEF Text
  <2>2. Pieces(us, sep, guards) = Append(before, <<>>)
    <3>1. ~ (u # <<>> /\ Last(u) \in guards)
      BY WithoutParts
    <3> QED BY <3>1, PiecesAppend
  <2> HIDE DEF us, before
  <2> QED BY <1>0, <2>1, <2>2
<1>2. ASSUME NEW s \in Seq(Token), NEW x \in Token, s \in Good PROVE Append(s, x) \in Good
  <2> DEFINE a == us \o s
             done == Pieces(a, sep, guards)
  <2>0. a \in Text
    <3> HIDE DEF us
    <3> QED BY <1>0, ConcatParts DEF Text
  <2>1. us \o Append(s, x) = Append(a, x)
    <3> HIDE DEF us
    <3> QED BY <1>0, ConcatAppend DEF Text
  <2>2. /\ Append(a, x) \in Text /\ Append(a, x) # <<>>
        /\ Front(Append(a, x)) = a /\ Last(Append(a, x)) = x
        /\ Append(s, x) \in Text
    <3> HIDE DEF a
    <3> QED BY <2>0, AppendFront DEF Text
  <2>3. SUFFICES ASSUME Without(Append(s, x), sep), \A g \in guards : Without(Append(s, x), g)
                 PROVE  Pieces(Append(a, x), sep, guards) = Append(before, Append(s, x))
    BY <2>1, <2>2
  <2>4. x # sep /\ done = Append(before, s)
    <3> HIDE DEF us, before
    <3> QED BY <1>2, <2>3, WithoutParts DEF Text
  <2>5. Front(done) = before /\ Last(done) = s
    <3> HIDE DEF before, done
    <3> QED BY <1>0, <2>4, AppendFront DEF Text
  <2>6. Pieces(Append(a, x), sep, guards) = Append(Front(done), Append(Last(done), x))
    <3>1. x # sep
      BY <2>4
    <3>2. \A b \in Text : Pieces(Append(b, x), sep, guards) =
            Append(Front(Pieces(b, sep, guards)), Append(Last(Pieces(b, sep, guards)), x))
      BY <3>1, PiecesAppend
    <3> HIDE DEF a
    <3> QED BY <2>0, <3>2
  <2> QED BY <2>5, <2>6
<1>3. Text \subseteq Good
  <2> HIDE DEF Good
  <2> QED BY <1>1, <1>2, SequenceInduction DEF Text
<1>4. u \o <<sep>> = us
  BY ConcatAppend DEF Text
<1> QED BY <1>3, <1>4

LEMMA JoinWithout ==
  ASSUME NEW sep \in Token, NEW x, sep # x
  PROVE  \A p \in Seq(Text) : (\A k \in DOMAIN p : Without(p[k], x))
                                => Without(JoinWith(p, sep), x)
<1> DEFINE Good == {p \in Seq(Text) : (\A k \in DOMAIN p : Without(p[k], x))
                                        => Without(JoinWith(p, sep), x)}
<1>1. <<>> \in Good
  <2>1. JoinWith(<<>>, sep) = <<>> /\ Without(<<>>, x) /\ <<>> \in Seq(Text)
    <3>1. JoinWith(<<>>, sep) = <<>>
      BY JoinStep, Zenon
    <3>2. Without(<<>>, x) /\ <<>> \in Seq(Text)
      BY OneElement, WithoutParts
    <3> QED BY <3>1, <3>2
  <2> QED BY <2>1
<1>2. ASSUME NEW p \in Seq(Text), NEW t \in Text, p \in Good PROVE Append(p, t) \in Good
  <2> DEFINE a == Append(p, t)
  <2>1. /\ Len(p) \in Nat /\ DOMAIN p = 1..Len(p) /\ DOMAIN a = 1..(Len(p) + 1)
        /\ \A k \in 1..Len(p) : a[k] = p[k]
        /\ a[Len(p) + 1] = t
        /\ a \in Seq(Text)
    BY AppendParts, AppendFront
  <2> HIDE DEF a
  <2>2. SUFFICES ASSUME \A k \in DOMAIN a : Without(a[k], x)
                 PROVE  Without(JoinWith(a, sep), x)
    BY <2>1 DEF a
  <2>3. Without(t, x)
    BY <2>1, <2>2
  <2>4. \A k \in DOMAIN p : Without(p[k], x)
    BY <2>1, <2>2
  <2>5. Without(JoinWith(p, sep), x)
    BY <1>2, <2>4
  <2>6. JoinWith(a, sep) = IF p = <<>> THEN t ELSE JoinWith(p, sep) \o <<sep>> \o t
    BY JoinStep DEF a
  <2>7. Without(JoinWith(p, sep) \o <<sep>> \o t, x)
    <3> DEFINE j == JoinWith(p, sep)
    <3>1. j \in Text
      BY JoinStep
    <3> HIDE DEF j
    <3>2. /\ j \o <<sep>> = Append(j, sep) /\ Append(j, sep) \in Text
          /\ Without(Append(j, sep), x)
      <4>1. Without(j, x)
        BY <2>5 DEF j
      <4>2. j \o <<sep>> = Append(j, sep) /\ Append(j, sep) \in Text
        BY <3>1, ConcatAppend, AppendFront DEF Text
      <4>3. Without(Append(j, sep), x)
        BY <3>1, <4>1, WithoutParts
      <4> QED BY <4>2, <4>3
    <3>3. \A r, s \in Text : Without(r, x) /\ Without(s, x) => Without(r \o s, x)
      BY DEF Text, Without
    <3> QED BY <2>3, <3>2, <3>3 DEF j
  <2> QED BY <2>3, <2>6, <2>7
<1>3. Seq(Text) \subseteq Good
  <2> HIDE DEF Good
  <2> QED BY <1>1, <1>2, SequenceInduction
<1> QED BY <1>3

LEMMA SplitOfJoin ==
  ASSUME NEW sep \in Token, NEW guards, sep \notin guards
  PROVE  \A p \in Seq(Text) :
           p # <<>> /\ (\A k \in DOMAIN p : Without(p[k], sep)
                                             /\ (\A g \in guards : Without(p[k], g)))
             => Pieces(JoinWith(p, sep), sep, guards) = p
<1> DEFINE Fit(p) == \A k \in DOMAIN p : Without(p[k], sep) /\ (\A g \in guards : Without(p[k], g))
           Good == {p \in Seq(Text) : p # <<>> /\ Fit(p) =>
                      Pieces(JoinWith(p, sep), sep, guards) = p}
<1>1. <<>> \in Good
  OBVIOUS
<1>2. ASSUME NEW p \in Seq(Text), NEW t \in Text, p \in Good PROVE Append(p, t) \in Good
  <2> DEFINE a == Append(p, t)
  <2>1. /\ Len(p) \in Nat /\ DOMAIN p = 1..Len(p) /\ DOMAIN a = 1..(Len(p) + 1)
        /\ \A k \in 1..Len(p) : a[k] = p[k]
        /\ a[Len(p) + 1] = t
        /\ a \in Seq(Text)
    BY AppendParts, AppendFront
  <2> HIDE DEF a
  <2>2. SUFFICES ASSUME Fit(a) PROVE Pieces(JoinWith(a, sep), sep, guards) = a
    BY <2>1 DEF a
  <2>3. Without(t, sep) /\ (\A g \in guards : Without(t, g))
    BY <2>1, <2>2
  <2>4. Fit(p)
    BY <2>1, <2>2
  <2>5. JoinWith(a, sep) = IF p = <<>> THEN t ELSE JoinWith(p, sep) \o <<sep>> \o t
    BY JoinStep DEF a
  <2>6. CASE p = <<>>
    <3>1. a = <<t>>
      BY <2>6 DEF a
    <3> QED BY <2>3, <2>5, <2>6, <3>1, WholePiece
  <2>7. CASE p # <<>>
    <3> DEFINE j == JoinWith(p, sep)
    <3>1. j \in Text /\ Pieces(j, sep, guards) = p
      BY <1>2, <2>4, <2>7, JoinStep
    <3>2. \A g \in guards : Without(j, g)
      BY <2>4, JoinWithout
    <3> HIDE DEF j
    <3>3. Pieces(j \o <<sep>> \o t, sep, guards) = Append(p, t)
      BY <2>3, <3>1, <3>2, OneMorePiece
    <3> QED BY <2>5, <2>7, <3>3 DEF a, j
  <2> QED BY <2>6, <2>7
<1>3. Seq(Text) \subseteq Good
  <2> HIDE DEF Good
  <2> QED BY <1>1, <1>2, SequenceInduction
<1> QED BY <1>3

-----------------------------------------------------------------------------
(* The values of an attribute, through a cell and back.                     *)
LEMMA SetAsSequence ==
  ASSUME NEW S, IsFiniteSet(S)
  PROVE  /\ SetToSeq(S) \in Seq(S) /\ Range(SetToSeq(S)) = S
         /\ DOMAIN SetToSeq(S) = 1..Len(SetToSeq(S)) /\ Len(SetToSeq(S)) \in Nat
         /\ IsInjective(SetToSeq(S))
         /\ S = {} => SetToSeq(S) = <<>>
<1> DEFINE n == Cardinality(S)
           f == SetToSeq(S)
<1>1. n \in Nat /\ ExistsBijection(1..n, S)
  BY FS_CardinalityType
<1>2. f \in [1..n -> S] /\ IsInjective(f)
  <2>1. \E f_ \in [1..n -> S] : IsInjective(f_)
    BY <1>1 DEF ExistsBijection, Bijection, Injection, Surjection
  <2> QED BY <2>1 DEF SetToSeq
<1> HIDE DEF f
<1>3. f \in Surjection(1..n, S)
  <2>1. f \in Injection(1..n, S)
    BY <1>2 DEF Injection
  <2>2. Cardinality(1..n) = n
    BY <1>1, FS_Interval
  <2> HIDE DEF n
  <2> QED BY <2>1, <2>2, FS_Injection DEF n
<1>4. \A y \in S : \E k \in 1..n : f[k] = y
  BY <1>3 DEF Surjection
<1> HIDE DEF n
<1>5. f \in Seq(S) /\ Len(f) = n /\ DOMAIN f = 1..n
  BY <1>1, <1>2
<1>6. Range(f) = S
  BY <1>2, <1>4, <1>5 DEF Range
<1>7. ASSUME S = {} PROVE f = <<>>
  BY <1>5, <1>7
<1> QED BY <1>1, <1>2, <1>5, <1>6, <1>7 DEF f

(* What a cell can hold of an attribute, and how it is written there.       *)
FitsCell(a, v) ==
  IF Prop[a].kind = "data"
  THEN v = Literal(v.text, v.lang, Prop[a].datatype) /\ v.text \in Text /\ PlainValue(v)
  ELSE v = Uri(v.base) /\ v.base \in Token \ {Bar, Semi, Escape}

TextOf(a, v) == IF Prop[a].kind = "data" THEN language_tagged_str(v) ELSE <<v.base>>

ReadAs(h, a, t) == IF Prop[a].kind = "data" THEN get_literal(h, a, t) ELSE Uri(Whole(t))

LEMMA SeparatorsAreTokens == Bar \in Token /\ Semi \in Token /\ Escape \in Token /\ Colon \in Token
BY TokenAssumption

LEMMA SeparatorsDiffer == Bar # Semi /\ Bar # Escape /\ Semi # Escape /\ Semi # Colon
BY DEF Bar, Semi, Escape, Colon

LEMMA TextReturns ==
  ASSUME NEW a, NEW v, NEW label, FitsCell(a, v)
  PROVE  /\ TextOf(a, v) \in Text /\ TextOf(a, v) # <<>>
         /\ Without(TextOf(a, v), Bar) /\ Without(TextOf(a, v), Semi)
         /\ Without(TextOf(a, v), Escape)
         /\ ReadAs(Header(label), a, TextOf(a, v)) = v
<1> DEFINE t == TextOf(a, v)
<1>1. CASE Prop[a].kind = "data" /\ v.lang = NoLanguage
  <2>1. t = v.text /\ v.text \in Text /\ v.text # <<>>
    BY <1>1 DEF TextOf, language_tagged_str, PythonValue, FitsCell, PlainValue, Literal
  <2>2. Without(t, Bar) /\ Without(t, Semi) /\ Without(t, Escape)
    BY <1>1, <2>1 DEF FitsCell, PlainValue, Without
  <2>3. ~ IsTagged(v.text)
    BY <1>1 DEF FitsCell, PlainValue
  <2>4. get_literal(Header(label), a, v.text) = Literal(v.text, NoLanguage, Prop[a].datatype)
    BY <2>3 DEF get_literal, Header
  <2>5. v = Literal(v.text, NoLanguage, Prop[a].datatype)
    BY <1>1 DEF FitsCell
  <2> QED BY <1>1, <2>1, <2>2, <2>4, <2>5 DEF ReadAs
<1>2. CASE Prop[a].kind = "data" /\ v.lang # NoLanguage
  <2>1. t = <<Tag(v.lang)>> \o v.text /\ v.text \in Text /\ v.text # <<>>
    BY <1>2 DEF TextOf, language_tagged_str, FitsCell, PlainValue
  <2>2. v.lang \in WordLangs
    BY <1>2 DEF FitsCell, PlainValue
  <2>3. Tag(v.lang) \in Token \ {Bar, Semi, Escape}
    BY <2>2, TokenAssumption
  <2> DEFINE g == Tag(v.lang)
  <2> HIDE DEF g
  <2>4. t \in Text /\ Len(t) = Len(v.text) + 1 /\ t[1] = g /\ Tail(t) = v.text /\ t # <<>>
        /\ \A i \in DOMAIN t : t[i] = g \/ \E j \in DOMAIN v.text : t[i] = v.text[j]
    <3> DEFINE s == v.text
    <3>1. t = <<g>> \o s /\ s \in Seq(Token) /\ g \in Token
      BY <2>1, <2>3 DEF g, Text
    <3> HIDE DEF s, t
    <3>2. <<g>> \o s \in Seq(Token) /\ Len(<<g>> \o s) = Len(s) + 1
      BY <3>1
    <3>3. (<<g>> \o s)[1] = g /\ <<g>> \o s # <<>> /\ Tail(<<g>> \o s) = s
      BY <3>1
    <3>4. \A i \in 1..(Len(s) + 1) : i # 1 => (<<g>> \o s)[i] = s[i - 1] /\ i - 1 \in 1..Len(s)
      BY <3>1
    <3>5. DOMAIN t = 1..(Len(s) + 1) /\ DOMAIN s = 1..Len(s)
      BY <3>1, <3>2
    <3>6. \A i \in DOMAIN t : t[i] = g \/ \E j \in DOMAIN s : t[i] = s[j]
      BY <3>1, <3>3, <3>4, <3>5
    <3> QED BY <3>1, <3>2, <3>3, <3>6 DEF s, Text
  <2>5. Without(t, Bar) /\ Without(t, Semi) /\ Without(t, Escape)
    <3>1. \A i \in DOMAIN v.text : v.text[i] \notin {Bar, Semi, Escape}
      BY <1>2 DEF FitsCell, PlainValue
    <3>2. g \notin {Bar, Semi, Escape}
      BY <2>3 DEF g
    <3> QED BY <2>4, <3>1, <3>2 DEF Without
  <2>6. IsTagged(t)
    BY <2>2, <2>4 DEF IsTagged, g
  <2>7. (CHOOSE l \in WordLangs : t[1] = Tag(l)) = v.lang
    <3> HIDE DEF t
    <3>1. t[1] = Tag(v.lang)
      BY <2>4 DEF g
    <3>2. \A l \in WordLangs : t[1] = Tag(l) => l = v.lang
      BY <2>2, <3>1, TokenAssumption
    <3> QED BY <2>2, <3>1, <3>2
  <2>8. get_literal(Header(label), a, t) = Literal(v.text, v.lang, Prop[a].datatype)
    <3> HIDE DEF t
    <3> QED BY <2>4, <2>6, <2>7 DEF get_literal
  <2>9. v = Literal(v.text, v.lang, Prop[a].datatype)
    BY <1>2 DEF FitsCell
  <2> HIDE DEF t
  <2>10. ReadAs(Header(label), a, t) = get_literal(Header(label), a, t)
    BY <1>2 DEF ReadAs
  <2> QED BY <2>4, <2>5, <2>8, <2>9, <2>10 DEF t
<1>3. CASE Prop[a].kind # "data"
  <2>1. t = <<v.base>> /\ v = Uri(v.base) /\ v.base \in Token \ {Bar, Semi, Escape}
    BY <1>3 DEF TextOf, FitsCell
  <2> DEFINE b == v.base
  <2> HIDE DEF b
  <2>2. t = <<b>> /\ b \in Token \ {Bar, Semi, Escape}
    BY <2>1 DEF b
  <2> HIDE DEF t
  <2>3. t \in Text /\ t # <<>> /\ Len(t) = 1 /\ t[1] = b /\ DOMAIN t = {1}
    BY <2>2 DEF Text
  <2>4. Without(t, Bar) /\ Without(t, Semi) /\ Without(t, Escape)
    BY <2>2, <2>3 DEF Without
  <2>5. Whole(t) = b
    BY <2>3 DEF Whole
  <2>6. ReadAs(Header(label), a, t) = Uri(b)
    BY <1>3, <2>5 DEF ReadAs
  <2> QED BY <2>1, <2>3, <2>4, <2>6 DEF b, t
<1> QED BY <1>1, <1>2, <1>3

(* The cell of some values of an attribute.                                 *)
CellOf(a, V) == join_values([k \in DOMAIN SetToSeq(V) |-> TextOf(a, SetToSeq(V)[k])])

LEMMA CellComesBack ==
  ASSUME NEW a, NEW V, NEW label, IsFiniteSet(V), \A v \in V : FitsCell(a, v)
  PROVE  /\ CellOf(a, V) \in Text /\ Without(CellOf(a, V), Semi)
         /\ CellValues(Header(label), a, CellOf(a, V)) = V
<1> DEFINE values == SetToSeq(V)
           texts == [k \in DOMAIN values |-> TextOf(a, values[k])]
           cell == join_values(texts)
<1>1. /\ values \in Seq(V) /\ Range(values) = V /\ Len(values) \in Nat
      /\ DOMAIN values = 1..Len(values)
      /\ V = {} => values = <<>>
  BY SetAsSequence
<1>2. \A k \in DOMAIN values : values[k] \in V
  BY <1>1
<1> HIDE DEF values
<1>3. texts \in Seq(Text) /\ DOMAIN texts = DOMAIN values /\ Len(texts) = Len(values)
  <2>1. \A k \in 1..Len(values) : TextOf(a, values[k]) \in Text
    BY <1>1, <1>2, TextReturns
  <2> QED BY <1>1, <2>1
<1>4. \A k \in DOMAIN texts :
        /\ texts[k] # <<>> /\ texts[k] \in Text
        /\ Without(texts[k], Bar) /\ Without(texts[k], Semi) /\ Without(texts[k], Escape)
        /\ ReadAs(Header(label), a, texts[k]) = values[k]
  BY <1>2, <1>3, TextReturns
<1>5. \A v \in V : \E k \in DOMAIN texts : values[k] = v
  BY <1>1, <1>3 DEF Range
<1>6. \A k \in DOMAIN texts : values[k] \in V
  BY <1>2, <1>3
<1> HIDE DEF texts
<1>7. cell \in Text /\ Without(cell, Semi)
  <2>1. JoinWith(texts, Bar) \in Text
    BY <1>3, JoinStep, SeparatorsAreTokens
  <2>2. Without(JoinWith(texts, Bar), Semi)
    BY <1>3, <1>4, JoinWithout, SeparatorsAreTokens, SeparatorsDiffer
  <2> QED BY <2>1, <2>2 DEF join_values
<1>8. {t \in Range(split_escaped(cell, Bar)) : t # <<>>} = Range(texts)
  <2>1. CASE texts = <<>>
    <3>1. cell = <<>>
      <4>1. JoinWith(<<>>, Bar) = <<>>
        BY JoinStep, SeparatorsAreTokens, Zenon
      <4> QED BY <2>1, <4>1 DEF join_values
    <3>2. split_escaped(cell, Bar) = <<>>
      BY <3>1 DEF split_escaped
    <3> QED BY <2>1, <3>2 DEF Range
  <2>2. CASE texts # <<>>
    <3>1. Pieces(cell, Bar, {Escape}) = texts
      <4>1. Bar \notin {Escape}
        BY SeparatorsDiffer
      <4>2. \A k \in DOMAIN texts : Without(texts[k], Bar)
              /\ (\A g \in {Escape} : Without(texts[k], g))
        BY <1>4
      <4> QED BY <1>3, <2>2, <4>1, <4>2, SplitOfJoin, SeparatorsAreTokens DEF join_values
    <3> HIDE DEF cell
    <3>2. cell # <<>>
      <4> SUFFICES ASSUME cell = <<>> PROVE FALSE
        OBVIOUS
      <4>1. texts = << <<>> >>
        BY <3>1, PiecesStep
      <4>2. 1 \in DOMAIN texts /\ texts[1] = <<>>
        BY <4>1
      <4> QED BY <1>4, <4>2
    <3>3. split_escaped(cell, Bar) = [k \in DOMAIN texts |-> Unescape(texts[k])]
      BY <3>1, <3>2 DEF split_escaped
    <3>4. \A k \in DOMAIN texts : Unescape(texts[k]) = texts[k]
      BY <1>4, UnescapePlain
    <3>5. Range(split_escaped(cell, Bar)) = {texts[k] : k \in DOMAIN texts}
      BY <3>3, <3>4 DEF Range
    <3> QED BY <1>4, <3>5 DEF Range
  <2> QED BY <2>1, <2>2
<1>9. CellValues(Header(label), a, cell) = {ReadAs(Header(label), a, t) : t \in Range(texts)}
  <2> HIDE DEF cell
  <2> QED BY <1>8 DEF CellValues, ReadAs
<1>10. {ReadAs(Header(label), a, t) : t \in Range(texts)} = V
  BY <1>4, <1>5, <1>6 DEF Range
<1>11. CellOf(a, V) = cell
  BY DEF CellOf, values, texts
<1> HIDE DEF cell
<1> QED BY <1>7, <1>9, <1>10, <1>11

-----------------------------------------------------------------------------
(* The columns of a row that was just written.                              *)
LEMMA HeaderLabel ==
  ASSUME NEW l, NEW m
  PROVE  /\ Header(l).label = l /\ Header(l).mark = "plain"
         /\ Header(l) = Header(m) => l = m
BY DEF Header

LEMMA TogetherParts ==
  ASSUME NEW f, NEW h
  PROVE  /\ DOMAIN Together(f, h) = DOMAIN f \cup DOMAIN h
         /\ \A x \in DOMAIN f : Together(f, h)[x] = f[x]
         /\ \A x \in DOMAIN h : x \notin DOMAIN f => Together(f, h)[x] = h[x]
BY DEF Together

LEMMA BasicColumn ==
  ASSUME NEW g, NEW s, NEW a \in DOMAIN Basic
  PROVE  /\ Header(Basic[a]) \in DOMAIN FlattenBasic(g, s)
         /\ FlattenBasic(g, s)[Header(Basic[a])] = CellOf(a, Values(g, s, a))
<1> DEFINE h == Header(Basic[a])
           H == {Header(Basic[a_]) : a_ \in DOMAIN Basic}
<1>1. h \in H
  OBVIOUS
<1>2. \A b \in DOMAIN Basic : Header(Basic[b]) = h => b = a
  BY HeaderLabel, HeaderAssumption
<1>3. (CHOOSE b \in DOMAIN Basic : Header(Basic[b]) = h) = a
  BY <1>2
<1>4. join_values(flatten_basic_property(g, s, a)) = CellOf(a, Values(g, s, a))
  BY DEF flatten_basic_property, CellOf, TextOf
<1>5. FlattenBasic(g, s)[h] =
        join_values(flatten_basic_property(g, s, CHOOSE b \in DOMAIN Basic : Header(Basic[b]) = h))
  BY <1>1 DEF FlattenBasic
<1> QED BY <1>1, <1>3, <1>4, <1>5 DEF FlattenBasic

LEMMA EmbeddedColumn ==
  ASSUME NEW g, NEW s, NEW a \in DOMAIN Embedded, NEW b \in DOMAIN Embedded[a]
  PROVE  /\ Header(Embedded[a][b]) \in DOMAIN FlattenEmbedded(g, s, a)
         /\ FlattenEmbedded(g, s, a)[Header(Embedded[a][b])] =
              join_lists([n \in DOMAIN Objects(g, s, a) |->
                            flatten_basic_property(g, Objects(g, s, a)[n], b)])
<1> DEFINE h == Header(Embedded[a][b])
           H == {Header(Embedded[a][b_]) : b_ \in DOMAIN Embedded[a]}
<1>1. h \in H
  OBVIOUS
<1>2. \A c \in DOMAIN Embedded[a] : Header(Embedded[a][c]) = h => c = b
  BY HeaderLabel, HeaderAssumption
<1>3. (CHOOSE c \in DOMAIN Embedded[a] : Header(Embedded[a][c]) = h) = b
  BY <1>2
<1>4. FlattenEmbedded(g, s, a)[h] =
        join_lists([n \in DOMAIN Objects(g, s, a) |->
          flatten_basic_property(g, Objects(g, s, a)[n],
            CHOOSE c \in DOMAIN Embedded[a] : Header(Embedded[a][c]) = h)])
  BY <1>1 DEF FlattenEmbedded
<1> QED BY <1>1, <1>3, <1>4 DEF FlattenEmbedded

LEMMA FlattenedColumns ==
  ASSUME NEW g, NEW s
  PROVE  /\ DOMAIN flatten(g, s) = {Header(l) : l \in Labels}
         /\ \A a \in DOMAIN Basic :
              flatten(g, s)[Header(Basic[a])] = CellOf(a, Values(g, s, a))
         /\ \A a \in DOMAIN Embedded : \A b \in DOMAIN Embedded[a] :
              flatten(g, s)[Header(Embedded[a][b])] =
                join_lists([n \in DOMAIN Objects(g, s, a) |->
                              flatten_basic_property(g, Objects(g, s, a)[n], b)])
<1> DEFINE columns(a) == DOMAIN FlattenEmbedded(g, s, a)
           basic == FlattenBasic(g, s)
           U == UNION {columns(a) : a \in DOMAIN Embedded}
           nested == [h \in U |->
                        FlattenEmbedded(g, s, CHOOSE a \in DOMAIN Embedded : h \in columns(a))[h]]
<1>1. flatten(g, s) = Together(basic, nested)
  BY DEF flatten
<1>2. DOMAIN basic = {Header(Basic[a]) : a \in DOMAIN Basic}
  BY DEF FlattenBasic
<1>3. \A a \in DOMAIN Embedded : columns(a) = {Header(Embedded[a][b]) : b \in DOMAIN Embedded[a]}
  BY DEF FlattenEmbedded
<1> HIDE DEF basic, columns
<1>4. DOMAIN nested = U
  OBVIOUS
<1>5. ASSUME NEW a \in DOMAIN Embedded, NEW b \in DOMAIN Embedded[a]
      PROVE  /\ Header(Embedded[a][b]) \in U
             /\ Header(Embedded[a][b]) \notin DOMAIN basic
             /\ nested[Header(Embedded[a][b])] = FlattenEmbedded(g, s, a)[Header(Embedded[a][b])]
  <2> DEFINE h == Header(Embedded[a][b])
  <2>1. h \in columns(a)
    BY <1>3
  <2>2. h \in U
    BY <2>1
  <2>3. \A c \in DOMAIN Embedded : h \in columns(c) => c = a
    <3>1. SUFFICES ASSUME NEW c \in DOMAIN Embedded, NEW d \in DOMAIN Embedded[c],
                          h = Header(Embedded[c][d])
                   PROVE  c = a
      BY <1>3
    <3>2. Embedded[c][d] = Embedded[a][b]
      BY <3>1, HeaderLabel
    <3> QED BY <3>2, HeaderAssumption
  <2>4. (CHOOSE c \in DOMAIN Embedded : h \in columns(c)) = a
    BY <2>1, <2>3
  <2>5. h \notin DOMAIN basic
    BY <1>2, HeaderLabel, HeaderAssumption
  <2> QED BY <2>2, <2>4, <2>5
<1> HIDE DEF nested
<1>6. DOMAIN flatten(g, s) = {Header(l) : l \in Labels}
  <2>1. DOMAIN flatten(g, s) = DOMAIN basic \cup U
    BY <1>1, <1>4, TogetherParts
  <2>2. U = UNION {{Header(Embedded[a][b]) : b \in DOMAIN Embedded[a]} : a \in DOMAIN Embedded}
    BY <1>3
  <2> HIDE DEF U
  <2>3. \A h : h \in DOMAIN flatten(g, s) <=> \E l \in Labels : h = Header(l)
    BY <1>2, <2>1, <2>2 DEF Labels
  <2> QED BY <2>3
<1>7. \A a \in DOMAIN Basic : flatten(g, s)[Header(Basic[a])] = CellOf(a, Values(g, s, a))
  <2>1. \A a \in DOMAIN Basic : /\ Header(Basic[a]) \in DOMAIN basic
                                /\ basic[Header(Basic[a])] = CellOf(a, Values(g, s, a))
    BY BasicColumn DEF basic
  <2>2. \A h \in DOMAIN basic : Together(basic, nested)[h] = basic[h]
    BY TogetherParts
  <2> QED BY <1>1, <2>1, <2>2
<1>8. ASSUME NEW a \in DOMAIN Embedded, NEW b \in DOMAIN Embedded[a]
      PROVE  flatten(g, s)[Header(Embedded[a][b])] =
                join_lists([n \in DOMAIN Objects(g, s, a) |->
                              flatten_basic_property(g, Objects(g, s, a)[n], b)])
  <2>1. flatten(g, s)[Header(Embedded[a][b])] = nested[Header(Embedded[a][b])]
    <3>1. \A h \in DOMAIN nested : h \notin DOMAIN basic => Together(basic, nested)[h] = nested[h]
      BY TogetherParts
    <3> HIDE DEF U
    <3> QED BY <1>1, <1>4, <1>5, <3>1
  <2> QED BY <1>5, <2>1, EmbeddedColumn
<1> QED BY <1>6, <1>7, <1>8

(* The values a property has can be written into cells.                     *)
Filled(g, s, a) == IsFiniteSet(Values(g, s, a)) /\ \A v \in Values(g, s, a) : FitsCell(a, v)

(* The column of a label is as it was written.                              *)
Unchanged(cells, g, s, l) ==
  /\ get_column_headers(DOMAIN cells, l) = {Header(l)}
  /\ cells[Header(l)] = flatten(g, s)[Header(l)]

LEMMA FlattenedUnchanged ==
  ASSUME NEW g, NEW s, NEW l \in Labels
  PROVE  Unchanged(flatten(g, s), g, s, l)
<1>1. get_column_headers({Header(m) : m \in Labels}, l) = {Header(l)}
  BY HeaderLabel DEF get_column_headers
<1> QED BY <1>1, FlattenedColumns DEF Unchanged

LEMMA BasicComesBack ==
  ASSUME NEW g, NEW s, NEW a \in DOMAIN Basic, NEW cells,
         Unchanged(cells, g, s, Basic[a]), Filled(g, s, a)
  PROVE  /\ get_column_headers(DOMAIN cells, Basic[a]) # {}
         /\ RowValues(cells, a, Basic[a]) = Values(g, s, a)
<1>1. get_column_headers(DOMAIN cells, Basic[a]) = {Header(Basic[a])}
  BY DEF Unchanged
<1>2. cells[Header(Basic[a])] = CellOf(a, Values(g, s, a))
  BY FlattenedColumns DEF Unchanged
<1>3. RowValues(cells, a, Basic[a]) = CellValues(Header(Basic[a]), a, cells[Header(Basic[a])])
  BY <1>1 DEF RowValues
<1> QED BY <1>1, <1>2, <1>3, CellComesBack DEF Filled

-----------------------------------------------------------------------------
(* The embedded objects of a property can be written into cells.            *)
FilledObjects(g, s, a) ==
  /\ IsFiniteSet(Values(g, s, a))
  /\ \A e \in Values(g, s, a) :
       /\ e = [base |-> s.base, frag |-> e.frag] /\ e.frag # NoFragment
       /\ \A b \in DOMAIN Embedded[a] : Filled(g, e, b)
       /\ \E b \in DOMAIN Embedded[a] : Values(g, e, b) # {}

(* The pieces of one column, one for each object.                           *)
PiecesOf(g, s, a, b) ==
  [n \in DOMAIN Objects(g, s, a) |-> CellOf(b, Values(g, Objects(g, s, a)[n], b))]

LEMMA ObjectsInOrder ==
  ASSUME NEW g, NEW s, NEW a, FilledObjects(g, s, a)
  PROVE  /\ Objects(g, s, a) \in Seq(Values(g, s, a))
         /\ Range(Objects(g, s, a)) = Values(g, s, a)
         /\ Len(Objects(g, s, a)) \in Nat
         /\ DOMAIN Objects(g, s, a) = 1..Len(Objects(g, s, a))
         /\ \A n \in DOMAIN Objects(g, s, a) : Objects(g, s, a)[n] \in Values(g, s, a)
         /\ Values(g, s, a) = {Objects(g, s, a)[n] : n \in DOMAIN Objects(g, s, a)}
<1>1. /\ Objects(g, s, a) \in Seq(Values(g, s, a))
      /\ Range(Objects(g, s, a)) = Values(g, s, a)
      /\ Len(Objects(g, s, a)) \in Nat
      /\ DOMAIN Objects(g, s, a) = 1..Len(Objects(g, s, a))
  BY SetAsSequence DEF Objects, FilledObjects
<1> QED BY <1>1 DEF Range

LEMMA ColumnPieces ==
  ASSUME NEW g, NEW s, NEW a \in DOMAIN Embedded, NEW b \in DOMAIN Embedded[a],
         FilledObjects(g, s, a)
  PROVE  Split(flatten(g, s)[Header(Embedded[a][b])], Semi) =
           IF Objects(g, s, a) = <<>> THEN << <<>> >> ELSE PiecesOf(g, s, a, b)
<1> DEFINE e == Objects(g, s, a)
           pieces == PiecesOf(g, s, a, b)
           lists == [n \in DOMAIN e |-> flatten_basic_property(g, e[n], b)]
<1>1. Len(e) \in Nat /\ DOMAIN e = 1..Len(e) /\ \A n \in DOMAIN e : e[n] \in Values(g, s, a)
  BY ObjectsInOrder
<1>2. flatten(g, s)[Header(Embedded[a][b])] = join_lists(lists)
  BY FlattenedColumns
<1>3. join_lists(lists) = JoinWith([n \in DOMAIN e |-> join_values(lists[n])], Semi)
  BY DEF join_lists
<1>4. \A n \in DOMAIN e : join_values(lists[n]) = CellOf(b, Values(g, e[n], b))
  BY DEF flatten_basic_property, CellOf, TextOf
<1>5. [n \in DOMAIN e |-> join_values(lists[n])] = pieces
  <2> HIDE DEF e, lists
  <2>1. pieces = [n \in DOMAIN e |-> CellOf(b, Values(g, e[n], b))]
    BY DEF PiecesOf, e
  <2> QED BY <1>4, <2>1
<1>6. /\ pieces \in Seq(Text) /\ Len(pieces) = Len(e) /\ DOMAIN pieces = DOMAIN e
      /\ \A n \in DOMAIN pieces : Without(pieces[n], Semi)
  <2> HIDE DEF e
  <2>1. pieces = [n \in DOMAIN e |-> CellOf(b, Values(g, e[n], b))]
    BY DEF PiecesOf, e
  <2>2. \A n \in DOMAIN e : CellOf(b, Values(g, e[n], b)) \in Text
                            /\ Without(CellOf(b, Values(g, e[n], b)), Semi)
    <3>1. \A n \in DOMAIN e : Filled(g, e[n], b)
      BY <1>1 DEF FilledObjects
    <3> QED BY <3>1, CellComesBack DEF Filled
  <2> HIDE DEF pieces
  <2> QED BY <1>1, <2>1, <2>2
<1>7. flatten(g, s)[Header(Embedded[a][b])] = JoinWith(pieces, Semi)
  BY <1>2, <1>3, <1>5
<1> HIDE DEF pieces, e
<1>8. CASE e = <<>>
  <2>1. pieces = <<>>
    BY <1>1, <1>6, <1>8
  <2>2. JoinWith(<<>>, Semi) = <<>>
    BY JoinStep, SeparatorsAreTokens, Zenon
  <2>3. Pieces(<<>>, Semi, {}) = << <<>> >>
    BY PiecesStep, Zenon
  <2> QED BY <1>7, <1>8, <2>1, <2>2, <2>3 DEF Split, e
<1>9. CASE e # <<>>
  <2>1. pieces # <<>>
    BY <1>1, <1>6, <1>9
  <2>2. Pieces(JoinWith(pieces, Semi), Semi, {}) = pieces
    BY <1>6, <2>1, SplitOfJoin, SeparatorsAreTokens
  <2> QED BY <1>7, <1>9, <2>2 DEF Split, pieces, e
<1> QED BY <1>8, <1>9

LEMMA EmptyCell == ASSUME NEW h, NEW a PROVE CellValues(h, a, <<>>) = {}
<1>1. split_escaped(<<>>, Bar) = <<>>
  BY DEF split_escaped
<1>2. Range(<<>>) = {}
  BY DEF Range
<1> QED BY <1>1, <1>2 DEF CellValues

UnchangedObjects(cells, g, s, a) ==
  \A b \in DOMAIN Embedded[a] : Unchanged(cells, g, s, Embedded[a][b])

LEMMA ParamsComeBack ==
  ASSUME NEW g, NEW s, NEW a \in DOMAIN Embedded, NEW cells, NEW n \in Nat \ {0},
         FilledObjects(g, s, a), UnchangedObjects(cells, g, s, a), DOMAIN Embedded[a] # {}
  PROVE  LET params == get_embedded_params(cells, a)
             e == Objects(g, s, a)
         IN  /\ DOMAIN params \subseteq Nat \ {0}
             /\ n \in DOMAIN params <=> n = 1 \/ n <= Len(e)
             /\ n \in DOMAIN params =>
                  /\ DOMAIN params[n] = {Header(Embedded[a][b]) : b \in DOMAIN Embedded[a]}
                  /\ \A b \in DOMAIN Embedded[a] :
                       params[n][Header(Embedded[a][b])] =
                         IF e = <<>> THEN <<>> ELSE CellOf(b, Values(g, e[n], b))
<1> DEFINE params == get_embedded_params(cells, a)
           e == Objects(g, s, a)
           H == {Header(Embedded[a][b]) : b \in DOMAIN Embedded[a]}
           split == EmbeddedCells(cells, a)
           most == IF e = <<>> THEN 1 ELSE Len(e)
<1>1. Len(e) \in Nat /\ DOMAIN e = 1..Len(e) /\ (e = <<>> <=> Len(e) = 0)
  BY ObjectsInOrder
<1>2. \A b \in DOMAIN Embedded[a] :
        get_column_headers(DOMAIN cells, Embedded[a][b]) = {Header(Embedded[a][b])}
  BY DEF UnchangedObjects, Unchanged
<1>3. DOMAIN split = H /\ \A h \in H : split[h] = Split(cells[h], Semi)
  <2>1. UNION {get_column_headers(DOMAIN cells, Embedded[a][b]) : b \in DOMAIN Embedded[a]} = H
    BY <1>2
  <2> HIDE DEF H
  <2> QED BY <2>1 DEF EmbeddedCells
<1>4. \A b \in DOMAIN Embedded[a] :
        split[Header(Embedded[a][b])] = IF e = <<>> THEN << <<>> >> ELSE PiecesOf(g, s, a, b)
  <2>1. \A b \in DOMAIN Embedded[a] :
          cells[Header(Embedded[a][b])] = flatten(g, s)[Header(Embedded[a][b])]
    BY DEF UnchangedObjects, Unchanged
  <2>2. \A b \in DOMAIN Embedded[a] :
          Split(flatten(g, s)[Header(Embedded[a][b])], Semi) =
            IF e = <<>> THEN << <<>> >> ELSE PiecesOf(g, s, a, b)
    BY ColumnPieces
  <2> HIDE DEF split, e
  <2> QED BY <1>3, <2>1, <2>2
<1>5. \A b \in DOMAIN Embedded[a] : e # <<>> =>
        /\ Len(PiecesOf(g, s, a, b)) = Len(e)
        /\ \A k \in 1..Len(e) : PiecesOf(g, s, a, b)[k] = CellOf(b, Values(g, e[k], b))
  <2> HIDE DEF e
  <2>1. \A b \in DOMAIN Embedded[a] :
          PiecesOf(g, s, a, b) = [k \in 1..Len(e) |-> CellOf(b, Values(g, e[k], b))]
    BY <1>1 DEF PiecesOf, e
  <2> QED BY <1>1, <2>1
<1> HIDE DEF e, split
<1>6. \A h \in H : Len(split[h]) = most
  <2> SUFFICES ASSUME NEW b \in DOMAIN Embedded[a]
               PROVE  Len(split[Header(Embedded[a][b])]) = most
    OBVIOUS
  <2>1. Len(<< <<>> >>) = 1
    OBVIOUS
  <2>2. CASE e = <<>>
    BY <1>4, <2>1, <2>2
  <2>3. CASE e # <<>>
    BY <1>4, <1>5, <2>3
  <2> QED BY <2>2, <2>3
<1>7. H # {} /\ most \in Nat \ {0}
  BY <1>1
<1>8. (IF DOMAIN split = {} THEN 0
       ELSE CHOOSE m \in {Len(split[h]) : h \in DOMAIN split} :
              \A h \in DOMAIN split : Len(split[h]) <= m) = most
  <2> HIDE DEF H, most
  <2>1. {Len(split[h]) : h \in H} = {most}
    BY <1>6, <1>7
  <2>2. \A h \in H : Len(split[h]) <= most
    BY <1>6, <1>7
  <2>3. (CHOOSE m \in {most} : \A h \in H : Len(split[h]) <= m) = most
    BY <2>2
  <2> QED BY <1>3, <1>7, <2>1, <2>3
<1>9. params = [k \in 1..most |->
                  [h \in H |-> IF k <= Len(split[h]) THEN split[h][k] ELSE <<>>]]
  <2> HIDE DEF most, H
  <2> QED BY <1>3, <1>8 DEF get_embedded_params, Aligned, split
<1> HIDE DEF params
<1>10. n \in DOMAIN params <=> n = 1 \/ n <= Len(e)
  <2>1. n \in DOMAIN params <=> n <= most
    <3> HIDE DEF most
    <3> QED BY <1>7, <1>9
  <2> QED BY <1>1, <2>1
<1>11. ASSUME n \in DOMAIN params, NEW b \in DOMAIN Embedded[a]
       PROVE  params[n][Header(Embedded[a][b])] =
                IF e = <<>> THEN <<>> ELSE CellOf(b, Values(g, e[n], b))
  <2> DEFINE h == Header(Embedded[a][b])
  <2>1. h \in H
    OBVIOUS
  <2>2. n <= most
    <3> HIDE DEF most, H, h
    <3> QED BY <1>7, <1>9, <1>11
  <2>3. params[n][h] = split[h][n]
    <3> HIDE DEF most, H, h
    <3> QED BY <1>6, <1>9, <1>11, <2>1, <2>2
  <2>4. CASE e = <<>>
    <3>1. n = 1
      BY <2>2, <2>4
    <3>2. split[h] = << <<>> >>
      BY <1>4, <2>4
    <3> QED BY <2>3, <2>4, <3>1, <3>2
  <2>5. CASE e # <<>>
    <3>1. n \in 1..Len(e)
      BY <1>1, <2>2, <2>5
    <3>2. split[h] = PiecesOf(g, s, a, b)
      BY <1>4, <2>5
    <3> QED BY <1>5, <2>3, <2>5, <3>1, <3>2
  <2> QED BY <2>4, <2>5
<1>12. n \in DOMAIN params => DOMAIN params[n] = H
  <2> HIDE DEF H, most
  <2> QED BY <1>9
<1>13. DOMAIN params \subseteq Nat \ {0}
  <2> HIDE DEF H, most
  <2> QED BY <1>7, <1>9
<1> QED BY <1>10, <1>11, <1>12, <1>13 DEF params, e

-----------------------------------------------------------------------------
(* The embedded objects come back under their fragments.                    *)
LEMMA FragmentKept ==
  ASSUME NEW g, NEW s, NEW a \in DOMAIN Embedded, FilledObjects(g, s, a),
         NEW n \in DOMAIN Objects(g, s, a)
  PROVE  FragmentOf(IndexOf(g, s), a, n) = Objects(g, s, a)[n].frag
<1> DEFINE e == Objects(g, s, a)
           entry(c, m) == [attr |-> c, at |-> m, fragment |-> Objects(g, s, c)[m].frag]
           found == {x \in IndexOf(g, s) : x.attr = a /\ x.at = n /\ x.fragment # NoFragment}
<1>1. \A x : x \in IndexOf(g, s) <=>
        \E c \in DOMAIN Embedded : \E m \in DOMAIN Objects(g, s, c) : x = entry(c, m)
  BY DEF IndexOf
<1>2. \A c, m : entry(c, m).attr = c /\ entry(c, m).at = m
                /\ entry(c, m).fragment = Objects(g, s, c)[m].frag
  OBVIOUS
<1>3. e[n].frag # NoFragment
  BY ObjectsInOrder DEF FilledObjects
<1>4. found = {entry(a, n)}
  <2>1. entry(a, n) \in found
    BY <1>1, <1>2, <1>3
  <2>2. \A x \in found : x = entry(a, n)
    <3> HIDE DEF entry
    <3> QED BY <1>1, <1>2
  <2> QED BY <2>1, <2>2
<1>5. (CHOOSE x \in found : TRUE).fragment = e[n].frag
  <2>1. (CHOOSE x \in found : TRUE) = entry(a, n)
    <3> HIDE DEF found, entry
    <3> QED BY <1>4
  <2> HIDE DEF found
  <2> QED BY <1>2, <2>1
<1>6. found # {}
  BY <1>4
<1> QED BY <1>5, <1>6 DEF FragmentOf

ObjectFrom(g, a, e) ==
  [fragment |-> e.frag, kwargs |-> [b \in DOMAIN Embedded[a] |-> Values(g, e, b)]]

LEMMA ObjectsComeBack ==
  ASSUME NEW g, NEW s, NEW a \in DOMAIN Embedded, NEW cells,
         FilledObjects(g, s, a), UnchangedObjects(cells, g, s, a)
  PROVE  RowObjects(cells, IndexOf(g, s), a) = {ObjectFrom(g, a, e) : e \in Values(g, s, a)}
<1> DEFINE params == get_embedded_params(cells, a)
           e == Objects(g, s, a)
           kwargs(n) == [b \in DOMAIN Embedded[a] |-> RowValues(params[n], b, Embedded[a][b])]
           N == {n \in DOMAIN params : \E b \in DOMAIN Embedded[a] : kwargs(n)[b] # {}}
<1>1. RowObjects(cells, IndexOf(g, s), a) =
        {[fragment |-> FragmentOf(IndexOf(g, s), a, n), kwargs |-> kwargs(n)] : n \in N}
  BY DEF RowObjects, NonemptyObjects
<1>2. CASE DOMAIN Embedded[a] = {}
  <2>1. N = {}
    BY <1>2
  <2>2. Values(g, s, a) = {}
    BY <1>2 DEF FilledObjects
  <2> HIDE DEF N
  <2> QED BY <1>1, <2>1, <2>2
<1>3. CASE DOMAIN Embedded[a] # {}
  <2>1. /\ Len(e) \in Nat /\ DOMAIN e = 1..Len(e) /\ \A n \in DOMAIN e : e[n] \in Values(g, s, a)
        /\ Values(g, s, a) = {e[n] : n \in DOMAIN e} /\ (e = <<>> <=> Len(e) = 0)
    BY ObjectsInOrder
  <2>2. DOMAIN params \subseteq Nat \ {0}
    <3>1. 1 \in Nat \ {0}
      OBVIOUS
    <3> HIDE DEF params
    <3> QED BY <1>3, <3>1, ParamsComeBack DEF params
  <2>3. \A n \in Nat \ {0} : n \in DOMAIN params <=> n = 1 \/ n <= Len(e)
    BY <1>3, ParamsComeBack
  <2>4. \A n \in DOMAIN params :
          /\ DOMAIN params[n] = {Header(Embedded[a][b]) : b \in DOMAIN Embedded[a]}
          /\ \A b \in DOMAIN Embedded[a] :
               params[n][Header(Embedded[a][b])] =
                 IF e = <<>> THEN <<>> ELSE CellOf(b, Values(g, e[n], b))
    BY <1>3, <2>2, ParamsComeBack
  <2> HIDE DEF params
  <2>5. ASSUME NEW n \in DOMAIN params, NEW b \in DOMAIN Embedded[a]
        PROVE  RowValues(params[n], b, Embedded[a][b]) =
                 CellValues(Header(Embedded[a][b]), b, params[n][Header(Embedded[a][b])])
    <3>1. get_column_headers(DOMAIN params[n], Embedded[a][b]) = {Header(Embedded[a][b])}
      <4>1. \A c \in DOMAIN Embedded[a] : Embedded[a][c] = Embedded[a][b] => c = b
        BY HeaderAssumption
      <4>2. DOMAIN params[n] = {Header(Embedded[a][c]) : c \in DOMAIN Embedded[a]}
        BY <2>4
      <4> QED BY <4>2, HeaderLabel DEF get_column_headers
    <3> QED BY <3>1 DEF RowValues
  <2> HIDE DEF e
  <2>6. CASE e = <<>>
    <3>1. \A n \in DOMAIN params, b \in DOMAIN Embedded[a] : kwargs(n)[b] = {}
      BY <2>4, <2>5, <2>6, EmptyCell
    <3>2. N = {}
      <4> HIDE DEF kwargs
      <4> QED BY <3>1
    <3>3. Values(g, s, a) = {}
      BY <2>1, <2>6
    <3> HIDE DEF N
    <3> QED BY <1>1, <3>2, <3>3
  <2>7. CASE e # <<>>
    <3>1. DOMAIN params = DOMAIN e
      <4>1. Len(e) \in Nat \ {0}
        BY <2>1, <2>7
      <4>2. \A n : n \in DOMAIN params <=> n \in Nat \ {0} /\ n <= Len(e)
        BY <2>2, <2>3, <4>1
      <4>3. \A n : n \in 1..Len(e) <=> n \in Nat \ {0} /\ n <= Len(e)
        BY <4>1
      <4>4. DOMAIN params = 1..Len(e)
        BY <4>2, <4>3
      <4> QED BY <2>1, <4>4
    <3>2. ASSUME NEW n \in DOMAIN e, NEW b \in DOMAIN Embedded[a]
          PROVE  RowValues(params[n], b, Embedded[a][b]) = Values(g, e[n], b)
      <4>1. Filled(g, e[n], b)
        BY <2>1, <3>2 DEF FilledObjects
      <4>2. RowValues(params[n], b, Embedded[a][b]) =
              CellValues(Header(Embedded[a][b]), b, CellOf(b, Values(g, e[n], b)))
        BY <2>4, <2>5, <2>7, <3>1, <3>2
      <4> QED BY <4>1, <4>2, CellComesBack DEF Filled
    <3>3. \A n \in DOMAIN e : kwargs(n) = [b \in DOMAIN Embedded[a] |-> Values(g, e[n], b)]
      BY <3>2
    <3> HIDE DEF kwargs
    <3>4. N = DOMAIN e
      <4>1. \A n \in DOMAIN e : \E b \in DOMAIN Embedded[a] : Values(g, e[n], b) # {}
        BY <2>1 DEF FilledObjects
      <4> QED BY <3>1, <3>3, <4>1
    <3>5. \A n \in DOMAIN e : FragmentOf(IndexOf(g, s), a, n) = e[n].frag
      BY FragmentKept DEF e
    <3>6. \A n \in DOMAIN e :
            [fragment |-> FragmentOf(IndexOf(g, s), a, n), kwargs |-> kwargs(n)]
              = ObjectFrom(g, a, e[n])
      BY <3>3, <3>5 DEF ObjectFrom
    <3> HIDE DEF N
    <3>7. RowObjects(cells, IndexOf(g, s), a) = {ObjectFrom(g, a, e[n]) : n \in DOMAIN e}
      BY <1>1, <3>4, <3>6
    <3> QED BY <2>1, <3>7
  <2> QED BY <2>6, <2>7
<1> QED BY <1>2, <1>3

-----------------------------------------------------------------------------
(* The row says of the item what the graph says, but for the properties X,  *)
(* whose cells hold the values that were typed.                             *)
RowKeeps(cells, g, s, X, typed) ==
  /\ \A a \in DOMAIN Basic \ X : Unchanged(cells, g, s, Basic[a]) /\ Filled(g, s, a)
  /\ \A a \in X : /\ a \in DOMAIN Basic
                  /\ get_column_headers(DOMAIN cells, Basic[a]) # {}
                  /\ RowValues(cells, a, Basic[a]) = typed
  /\ \A a \in DOMAIN Embedded : FilledObjects(g, s, a) /\ UnchangedObjects(cells, g, s, a)

LEMMA UnflattenedParts ==
  ASSUME NEW cells, NEW g, NEW s, NEW X, NEW typed, RowKeeps(cells, g, s, X, typed)
  PROVE  LET given == unflatten(cells, IndexOf(g, s))
         IN  /\ \A a : a \in DOMAIN given <=>
                  a \in DOMAIN Basic \/ (a \in DOMAIN Embedded /\ Values(g, s, a) # {})
             /\ \A a \in DOMAIN Basic \ X : given[a] = Values(g, s, a)
             /\ \A a \in X : given[a] = typed
             /\ \A a \in DOMAIN Embedded : Values(g, s, a) # {} =>
                  given[a] = {ObjectFrom(g, a, e) : e \in Values(g, s, a)}
<1> DEFINE index == IndexOf(g, s)
           given == unflatten(cells, index)
           B == {a \in DOMAIN Basic : get_column_headers(DOMAIN cells, Basic[a]) # {}}
           E == {a \in DOMAIN Embedded : RowObjects(cells, index, a) # {}}
           basic == [a \in B |-> RowValues(cells, a, Basic[a])]
           nested == [a \in E |-> RowObjects(cells, index, a)]
<1>1. given = Together(basic, nested)
  BY DEF unflatten
<1>2. B = DOMAIN Basic
  BY BasicComesBack DEF RowKeeps
<1>3. \A a \in DOMAIN Embedded :
        RowObjects(cells, index, a) = {ObjectFrom(g, a, e) : e \in Values(g, s, a)}
  BY ObjectsComeBack DEF RowKeeps
<1>4. \A a : a \in E <=> a \in DOMAIN Embedded /\ Values(g, s, a) # {}
  BY <1>3
<1> HIDE DEF E, index
<1>5. DOMAIN basic = DOMAIN Basic /\ \A a \in DOMAIN Basic : basic[a] = RowValues(cells, a, Basic[a])
  BY <1>2
<1>6. DOMAIN nested = E /\ \A a \in E : nested[a] = RowObjects(cells, index, a)
  OBVIOUS
<1> HIDE DEF B, basic, nested, given
<1>7. /\ DOMAIN given = DOMAIN basic \cup DOMAIN nested
      /\ \A a \in DOMAIN basic : given[a] = basic[a]
      /\ \A a \in DOMAIN nested : a \notin DOMAIN basic => given[a] = nested[a]
  <2>1. DOMAIN Together(basic, nested) = DOMAIN basic \cup DOMAIN nested
    BY TogetherParts
  <2>2. \A a \in DOMAIN basic : Together(basic, nested)[a] = basic[a]
    BY TogetherParts
  <2>3. \A a \in DOMAIN nested : a \notin DOMAIN basic => Together(basic, nested)[a] = nested[a]
    BY TogetherParts
  <2> QED BY <1>1, <2>1, <2>2, <2>3
<1>8. \A a \in DOMAIN Basic \ X : given[a] = Values(g, s, a)
  <2>1. \A a \in DOMAIN Basic \ X : RowValues(cells, a, Basic[a]) = Values(g, s, a)
    BY BasicComesBack DEF RowKeeps
  <2> QED BY <1>5, <1>7, <2>1
<1>9. \A a \in X : given[a] = typed
  BY <1>5, <1>7 DEF RowKeeps
<1>10. \A a \in DOMAIN Embedded : Values(g, s, a) # {} =>
         given[a] = {ObjectFrom(g, a, e) : e \in Values(g, s, a)}
  BY <1>3, <1>4, <1>5, <1>6, <1>7, HeaderAssumption
<1>11. \A a : a \in DOMAIN given <=>
         a \in DOMAIN Basic \/ (a \in DOMAIN Embedded /\ Values(g, s, a) # {})
  BY <1>4, <1>5, <1>6, <1>7
<1> QED BY <1>8, <1>9, <1>10, <1>11 DEF given, index

(* The triples of a graph have three parts.                                 *)
Shaped(g) == \A t \in g : t = Triple(t.s, t.p, t.o)

LEMMA LinksShaped ==
  ASSUME NEW s, NEW a, NEW vs, NEW t \in Links(s, a, vs)
  PROVE  t = Triple(t.s, t.p, t.o) /\ t.s = s /\ t.p = Prop[a].predicate /\ t.o \in vs
BY TripleParts DEF Links

LEMMA LinksBack ==
  ASSUME NEW g, Shaped(g), NEW s, NEW a
  PROVE  Links(s, a, Values(g, s, a)) \subseteq g
<1> SUFFICES ASSUME NEW t \in Links(s, a, Values(g, s, a)) PROVE t \in g
  OBVIOUS
<1>1. t = Triple(t.s, t.p, t.o) /\ t.s = s /\ t.p = Prop[a].predicate /\ t.o \in Values(g, s, a)
  BY LinksShaped
<1>2. PICK r \in g : r.s = s /\ r.p = Prop[a].predicate /\ r.o = t.o
  BY <1>1, ValuesOf, ObjectsOf
<1> QED BY <1>1, <1>2 DEF Shaped

(* The values of a property with a header are not those of a type.          *)
Headed == DOMAIN Basic \cup DOMAIN Embedded

OnlyTypes(h, s) == \A t \in h : t.s = s => t.p = Prop["rdf_type"].predicate

LEMMA TypesAside ==
  ASSUME NEW g, NEW h, NEW s, NEW a \in Headed, OnlyTypes(h, s)
  PROVE  Values(g \cup h, s, a) = Values(g, s, a)
<1>1. Prop[a].predicate # Prop["rdf_type"].predicate
  BY PropertyAssumption DEF Headed
<1>2. objects(g \cup h, s, Prop[a].predicate) = objects(g, s, Prop[a].predicate)
  BY <1>1 DEF objects, OnlyTypes
<1> QED BY <1>2 DEF Values

LEMMA NoneShared ==
  ASSUME NEW a \in Headed, NEW b \in Headed, a # b, Prop[a].predicate = Prop[b].predicate,
         NEW g, NEW h, NEW s, NEW v
  PROVE  ~ (v \in Values(g, s, a) /\ v \in Values(h, s, b))
<1>1. Prop[a].kind = "data" /\ Prop[b].kind = "data" /\ Prop[a].datatype # Prop[b].datatype
  BY PropertyAssumption DEF Headed
<1> QED BY <1>1, ValuesOf

-----------------------------------------------------------------------------
(* The item that is read from a row: what the graph said of it, with the    *)
(* types that the import adds, and what was typed instead of the values X.  *)
EmbeddedTypes(g, s) ==
  UNION {UNION {TypesOf(e, Prop[a].cls) : e \in Values(g, s, a)} : a \in DOMAIN Embedded}

Described(g, s, class) == g \cup TypesOf(s, class) \cup EmbeddedTypes(g, s)

LEMMA EmbeddedTypesParts ==
  ASSUME NEW g, NEW s, NEW t
  PROVE  t \in EmbeddedTypes(g, s) <=>
           \E a \in DOMAIN Embedded : \E e \in Values(g, s, a) : t \in TypesOf(e, Prop[a].cls)
BY DEF EmbeddedTypes

(* An object that comes back says what the graph says, and its types.       *)
LEMMA EmbedBack ==
  ASSUME NEW g, Shaped(g), NEW s, NEW a \in DOMAIN Embedded, FilledObjects(g, s, a),
         NEW e \in Values(g, s, a)
  PROVE  /\ EmbeddedUri(s, ObjectFrom(g, a, e)) = e
         /\ Embed(s, a, ObjectFrom(g, a, e)) \subseteq g \cup TypesOf(e, Prop[a].cls)
         /\ TypesOf(e, Prop[a].cls) \subseteq Embed(s, a, ObjectFrom(g, a, e))
         /\ Links(s, a, {e}) \subseteq Embed(s, a, ObjectFrom(g, a, e))
<1> DEFINE o == ObjectFrom(g, a, e)
<1>1. EmbeddedUri(s, o) = e
  BY DEF FilledObjects, ObjectFrom, EmbeddedUri
<1>2. o.kwargs = [b \in DOMAIN Embedded[a] |-> Values(g, e, b)]
  BY DEF ObjectFrom
<1> HIDE DEF o
<1>3. Embed(s, a, o) = (TypesOf(e, Prop[a].cls) \cup Said(e, o.kwargs)) \cup Links(s, a, {e})
  BY <1>1, EmbedParts
<1>4. \A t \in Said(e, o.kwargs) : t \in g /\ t.s = e
  <2> SUFFICES ASSUME NEW b \in DOMAIN Embedded[a], NEW t \in Links(e, b, Values(g, e, b))
               PROVE  t \in g /\ t.s = e
    BY <1>2 DEF Said
  <2> QED BY LinksBack, LinksShaped
<1>5. Links(s, a, {e}) \subseteq g
  <2>1. Links(s, a, {e}) \subseteq Links(s, a, Values(g, s, a))
    BY DEF Links
  <2> QED BY <2>1, LinksBack
<1>8. Embed(s, a, o) \subseteq g \cup TypesOf(e, Prop[a].cls)
  BY <1>3, <1>4, <1>5
<1>9. TypesOf(e, Prop[a].cls) \subseteq Embed(s, a, o) /\ Links(s, a, {e}) \subseteq Embed(s, a, o)
  BY <1>3
<1> QED BY <1>1, <1>8, <1>9 DEF o

LEMMA EmbedSubjects ==
  ASSUME NEW g, Shaped(g), NEW s, NEW a \in DOMAIN Embedded, FilledObjects(g, s, a),
         NEW e \in Values(g, s, a), NEW t \in Embed(s, a, ObjectFrom(g, a, e)), t.s # e
  PROVE  t.s = s /\ t.p = Prop[a].predicate
<1> DEFINE o == ObjectFrom(g, a, e)
<1>1. EmbeddedUri(s, o) = e
  BY DEF FilledObjects, ObjectFrom, EmbeddedUri
<1> HIDE DEF o
<1>2. t \in (TypesOf(e, Prop[a].cls) \cup Said(e, o.kwargs)) \cup Links(s, a, {e})
  BY <1>1, EmbedParts DEF o
<1>3. t \notin TypesOf(e, Prop[a].cls)
  BY LinksOf DEF TypesOf
<1>4. t \notin Said(e, o.kwargs)
  BY LinksOf DEF Said
<1> QED BY <1>2, <1>3, <1>4, LinksOf

LEMMA SetParts ==
  ASSUME NEW g, NEW s, NEW given, NEW t
  PROVE  t \in set_properties(g, s, given) <=>
           \/ t \in g /\ \A a \in DOMAIN given : t \notin Links(s, a, Values(g, s, a))
           \/ \E a \in DOMAIN given : t \in AddAll({}, s, a, given[a])
BY DEF set_properties

LEMMA ItemComesBack ==
  ASSUME NEW cells, NEW g, NEW s, NEW class, NEW X, NEW typed, Shaped(g),
         s.frag = NoFragment, RowKeeps(cells, g, s, X, typed)
  PROVE  get_object(g, s, class, cells, IndexOf(g, s)) =
           (Described(g, s, class) \ UNION {Links(s, a, Values(g, s, a)) : a \in X})
             \cup UNION {Links(s, a, typed) : a \in X}
<1> DEFINE G == g \cup TypesOf(s, class)
           given == unflatten(cells, IndexOf(g, s))
           R == get_object(g, s, class, cells, IndexOf(g, s))
           D == Described(g, s, class)
           gone == UNION {Links(s, a, Values(g, s, a)) : a \in X}
           come == UNION {Links(s, a, typed) : a \in X}
<1>1. /\ \A a : a \in DOMAIN given <=>
           a \in DOMAIN Basic \/ (a \in DOMAIN Embedded /\ Values(g, s, a) # {})
      /\ \A a \in DOMAIN Basic \ X : given[a] = Values(g, s, a)
      /\ \A a \in X : given[a] = typed
      /\ \A a \in DOMAIN Embedded : Values(g, s, a) # {} =>
           given[a] = {ObjectFrom(g, a, e) : e \in Values(g, s, a)}
  BY UnflattenedParts
<1>2. R = set_properties(G, s, given)
  BY DEF get_object
<1> HIDE DEF given, R
<1>3. \A a \in Headed : Values(G, s, a) = Values(g, s, a)
  <2>1. OnlyTypes(TypesOf(s, class), s)
    BY LinksOf DEF TypesOf, OnlyTypes
  <2> QED BY <2>1, TypesAside
<1>4. DOMAIN given \subseteq Headed /\ X \subseteq DOMAIN Basic /\ DOMAIN Basic \subseteq Headed
      /\ DOMAIN Embedded \subseteq Headed
  BY <1>1 DEF Headed, RowKeeps
<1>5. \A t : t \in R <=>
        \/ t \in G /\ \A a \in DOMAIN given : t \notin Links(s, a, Values(g, s, a))
        \/ \E a \in DOMAIN given : t \in AddAll({}, s, a, given[a])
  <2>1. \A a \in DOMAIN given : Values(G, s, a) = Values(g, s, a)
    BY <1>3, <1>4
  <2>2. \A t : t \in set_properties(G, s, given) <=>
          \/ t \in G /\ \A a \in DOMAIN given : t \notin Links(s, a, Values(G, s, a))
          \/ \E a \in DOMAIN given : t \in AddAll({}, s, a, given[a])
    BY SetParts
  <2> HIDE DEF G
  <2> QED BY <1>2, <2>1, <2>2
<1>6. /\ \A a \in DOMAIN Basic \ X : AddAll({}, s, a, given[a]) = Links(s, a, Values(g, s, a))
      /\ \A a \in X : AddAll({}, s, a, given[a]) = Links(s, a, typed)
  <2>1. \A a \in DOMAIN Basic : AddAll({}, s, a, given[a]) = Links(s, a, given[a])
    BY PropertyAssumption DEF AddAll
  <2> QED BY <1>1, <1>4, <2>1
<1>7. \A a \in DOMAIN Embedded : Values(g, s, a) # {} => \A t :
        t \in AddAll({}, s, a, given[a]) <=>
          \E e \in Values(g, s, a) : t \in Embed(s, a, ObjectFrom(g, a, e))
  <2> SUFFICES ASSUME NEW a \in DOMAIN Embedded, Values(g, s, a) # {}, NEW t
               PROVE  t \in AddAll({}, s, a, given[a]) <=>
                        \E e \in Values(g, s, a) : t \in Embed(s, a, ObjectFrom(g, a, e))
    OBVIOUS
  <2>1. AddAll({}, s, a, given[a]) = {} \cup UNION {Embed(s, a, e) : e \in given[a]}
    BY PropertyAssumption DEF AddAll
  <2>2. given[a] = {ObjectFrom(g, a, e) : e \in Values(g, s, a)}
    BY <1>1
  <2> QED BY <2>1, <2>2
<1>8. \A a \in DOMAIN Embedded : FilledObjects(g, s, a)
  BY DEF RowKeeps
<1>9. \A t : t \in gone <=> \E a \in X : t \in Links(s, a, Values(g, s, a))
  OBVIOUS
<1>10. \A t : t \in come <=> \E a \in X : t \in Links(s, a, typed)
  OBVIOUS
<1>11. \A t : t \in D <=> t \in G \/ t \in EmbeddedTypes(g, s)
  BY DEF Described
<1> HIDE DEF G, D, gone, come
<1>12. ASSUME NEW t, NEW a \in Headed, NEW b \in X, a # b, t.s = s, t.p = Prop[a].predicate,
              t.o \in Values(g, s, a)
       PROVE  t \notin Links(s, b, Values(g, s, b))
  <2> SUFFICES ASSUME t \in Links(s, b, Values(g, s, b)) PROVE FALSE
    OBVIOUS
  <2>1. t.p = Prop[b].predicate /\ t.o \in Values(g, s, b) /\ b \in Headed
    BY <1>4, LinksOf
  <2> QED BY <1>12, <2>1, NoneShared
<1>13. \A e : \A a \in DOMAIN Embedded : e \in Values(g, s, a) => e # s /\ e.frag # NoFragment
  BY <1>8 DEF FilledObjects
<1>14. ASSUME NEW t \in R, t \notin come PROVE t \in D /\ t \notin gone
  <2>1. CASE t \in G /\ \A a \in DOMAIN given : t \notin Links(s, a, Values(g, s, a))
    <3>1. X \subseteq DOMAIN given
      BY <1>1, <1>4
    <3> QED BY <1>9, <1>11, <2>1, <3>1
  <2>2. ASSUME NEW a \in DOMAIN given, t \in AddAll({}, s, a, given[a])
        PROVE  t \in D /\ t \notin gone
    <3>1. CASE a \in DOMAIN Basic \ X
      <4>1. t \in Links(s, a, Values(g, s, a))
        BY <1>6, <2>2, <3>1
      <4>2. t \in G
        BY <4>1, LinksBack DEF G
      <4>3. t.s = s /\ t.p = Prop[a].predicate /\ t.o \in Values(g, s, a)
        BY <4>1, LinksOf
      <4>4. a \in Headed /\ \A b \in X : a # b
        BY <1>4, <3>1
      <4> QED BY <1>9, <1>11, <1>12, <4>2, <4>3, <4>4
    <3>2. CASE a \in X
      BY <1>6, <1>10, <1>14, <2>2, <3>2
    <3>3. CASE a \notin DOMAIN Basic
      <4>1. a \in DOMAIN Embedded /\ Values(g, s, a) # {} /\ FilledObjects(g, s, a)
        BY <1>1, <1>8, <3>3
      <4>2. PICK e \in Values(g, s, a) : t \in Embed(s, a, ObjectFrom(g, a, e))
        BY <1>7, <2>2, <4>1
      <4>3. t \in g \cup TypesOf(e, Prop[a].cls)
        <5>1. Embed(s, a, ObjectFrom(g, a, e)) \subseteq g \cup TypesOf(e, Prop[a].cls)
          BY <4>1, EmbedBack
        <5> QED BY <4>2, <5>1
      <4>4. t \in D
        <5>1. t \in TypesOf(e, Prop[a].cls) => t \in EmbeddedTypes(g, s)
          BY <4>1, EmbeddedTypesParts
        <5> QED BY <1>11, <4>3, <5>1 DEF G
      <4>5. t.s # e => t.s = s /\ t.p = Prop[a].predicate
        BY <4>1, <4>2, EmbedSubjects
      <4>6. e # s
        BY <1>13, <4>1
      <4>7. t \notin gone
        <5> SUFFICES ASSUME NEW b \in X, t \in Links(s, b, Values(g, s, b)) PROVE FALSE
          BY <1>9
        <5>1. t.s = s /\ t.p = Prop[b].predicate
          BY LinksOf
        <5>2. Prop[a].predicate = Prop[b].predicate
          BY <4>5, <4>6, <5>1
        <5>3. a # b /\ a \in Headed /\ b \in Headed
          BY <1>4, <3>3, <4>1
        <5>4. Prop[a].kind = "data"
          BY <5>2, <5>3, PropertyAssumption DEF Headed
        <5>5. Prop[a].kind = "embedded"
          BY <4>1, PropertyAssumption
        <5> QED BY <5>4, <5>5
      <4> QED BY <4>4, <4>7
    <3> QED BY <1>1, <3>1, <3>2, <3>3
  <2> QED BY <1>5, <2>1, <2>2
<1>15. \A t \in come : t \in R
  BY <1>1, <1>4, <1>5, <1>6, <1>10
<1>16. ASSUME NEW t \in D, t \notin gone PROVE t \in R
  <2>1. CASE t \in G /\ \E a \in DOMAIN given : t \in Links(s, a, Values(g, s, a))
    <3>1. PICK a \in DOMAIN given : t \in Links(s, a, Values(g, s, a))
      BY <2>1
    <3>2. a \notin X
      BY <1>9, <1>16, <3>1
    <3>3. CASE a \in DOMAIN Basic
      BY <1>5, <1>6, <3>1, <3>2, <3>3
    <3>4. CASE a \notin DOMAIN Basic
      <4>1. a \in DOMAIN Embedded /\ Values(g, s, a) # {} /\ FilledObjects(g, s, a)
        BY <1>1, <1>8, <3>4
      <4>2. t = Triple(t.s, t.p, t.o) /\ t.s = s /\ t.p = Prop[a].predicate
            /\ t.o \in Values(g, s, a)
        BY <3>1, LinksShaped
      <4>3. t \in Links(s, a, {t.o})
        BY <4>2, LinksOf
      <4>4. t \in Embed(s, a, ObjectFrom(g, a, t.o))
        BY <4>1, <4>2, <4>3, EmbedBack
      <4> QED BY <1>5, <1>7, <4>1, <4>2, <4>4
    <3> QED BY <3>3, <3>4
  <2>2. CASE t \in G /\ \A a \in DOMAIN given : t \notin Links(s, a, Values(g, s, a))
    BY <1>5, <2>2
  <2>3. CASE t \in EmbeddedTypes(g, s)
    <3>0. PICK a \in DOMAIN Embedded : \E e \in Values(g, s, a) : t \in TypesOf(e, Prop[a].cls)
      BY <2>3, EmbeddedTypesParts
    <3>1. PICK e \in Values(g, s, a) : t \in TypesOf(e, Prop[a].cls)
      BY <3>0
    <3>2. t \in Embed(s, a, ObjectFrom(g, a, e))
      BY <1>8, <3>1, EmbedBack
    <3>3. a \in DOMAIN given /\ Values(g, s, a) # {}
      BY <1>1
    <3> QED BY <1>5, <1>7, <3>2, <3>3
  <2> QED BY <1>11, <2>1, <2>2, <2>3
<1>17. R = (D \ gone) \cup come
  BY <1>14, <1>15, <1>16
<1> QED BY <1>17 DEF R, D, gone, come

-----------------------------------------------------------------------------
(* ExportJob.  The values of the repository's items are terms, and finitely *)
(* many; those of a plain item can be written into cells.                   *)
LEMMA TermsOfItems ==
  ASSUME repo \in Repositories, NEW u \in Items
  PROVE  /\ Shaped(repo[u].graph)
         /\ \A s, a : IsFiniteSet(Values(repo[u].graph, s, a))
         /\ \A s, a : \A v \in Values(repo[u].graph, s, a) :
              IsTerm(v) /\ \E t \in repo[u].graph : t.o = v
<1> DEFINE g == repo[u].graph
<1>1. IsFiniteSet(g) /\ \A t \in g : t = Triple(t.s, t.p, t.o) /\ IsTerm(t.o)
  BY RepositoryAssumption
<1> HIDE DEF g
<1>2. ASSUME NEW s, NEW a PROVE IsFiniteSet(Values(g, s, a))
  <2> DEFINE G == {t \in g : t.s = s /\ t.p = Prop[a].predicate}
             f == [t \in G |-> t.o]
  <2>1. IsFiniteSet(G)
    BY <1>1, FS_Subset
  <2>2. IsFiniteSet({f[t] : t \in G})
    <3> HIDE DEF G
    <3> QED BY <2>1, FiniteRange
  <2>3. Values(g, s, a) \subseteq {f[t] : t \in G}
    <3>1. ASSUME NEW v \in Values(g, s, a) PROVE v \in {f[t] : t \in G}
      <4>1. PICK t \in g : t.s = s /\ t.p = Prop[a].predicate /\ t.o = v
        BY ValuesOf, ObjectsOf
      <4>2. t \in G
        BY <4>1
      <4> HIDE DEF G
      <4> QED BY <4>1, <4>2
    <3> QED BY <3>1
  <2> QED BY <2>2, <2>3, FS_Subset
<1>3. ASSUME NEW s, NEW a, NEW v \in Values(g, s, a)
      PROVE  IsTerm(v) /\ \E t \in g : t.o = v
  BY <1>1, ValuesOf, ObjectsOf
<1> QED BY <1>1, <1>2, <1>3 DEF g, Shaped

LEMMA TermFits ==
  ASSUME NEW v, IsTerm(v), NEW a, Prop[a].kind \in {"data", "object"},
         Prop[a].kind = "data" => IsLiteral(v) /\ v.type = Prop[a].datatype /\ PlainValue(v),
         Prop[a].kind = "object" => IsUri(v) /\ v.frag = NoFragment /\ v.base \notin {Bar, Semi, Escape}
  PROVE  FitsCell(a, v)
<1>1. CASE Prop[a].kind = "data"
  <2>1. ~ IsUri(v)
    BY <1>1, NodeKinds
  <2>2. v = Literal(v.text, v.lang, v.type) /\ v.text \in Text
    BY <2>1 DEF IsTerm
  <2> QED BY <1>1, <2>2 DEF FitsCell
<1>2. CASE Prop[a].kind = "object"
  <2>1. v = [base |-> v.base, frag |-> v.frag] /\ v.base \in Token
    BY <1>2 DEF IsTerm
  <2>2. v = Uri(v.base)
    BY <1>2, <2>1 DEF Uri
  <2> QED BY <1>2, <2>1, <2>2 DEF FitsCell
<1> QED BY <1>1, <1>2

LEMMA PlainIsFilled ==
  ASSUME repo \in Repositories, NEW u \in Items, PlainItem(u)
  PROVE  /\ \A a \in DOMAIN Basic : Filled(repo[u].graph, Uri(u), a)
         /\ \A a \in DOMAIN Embedded : FilledObjects(repo[u].graph, Uri(u), a)
<1> DEFINE g == repo[u].graph
<1>1. /\ \A t \in g : IsLiteral(t.o) => PlainValue(t.o)
      /\ \A a \in DOMAIN Basic : PlainObjects(g, Uri(u), a)
      /\ \A a \in DOMAIN Embedded : \A e \in Values(g, Uri(u), a) :
           /\ IsUri(e) /\ e.base = u /\ e.frag # NoFragment
           /\ \A b \in DOMAIN Embedded[a] : PlainObjects(g, e, b)
           /\ \E b \in DOMAIN Embedded[a] : Values(g, e, b) # {}
  BY DEF PlainItem
<1>2. /\ \A s, a : IsFiniteSet(Values(g, s, a))
      /\ \A s, a : \A v \in Values(g, s, a) : IsTerm(v) /\ \E t \in g : t.o = v
  BY TermsOfItems
<1> HIDE DEF g
<1>3. ASSUME NEW s, NEW a, Prop[a].kind \in {"data", "object"}, PlainObjects(g, s, a)
      PROVE  Filled(g, s, a)
  <2> SUFFICES ASSUME NEW v \in Values(g, s, a) PROVE FitsCell(a, v)
    BY <1>2 DEF Filled
  <2>1. IsTerm(v) /\ \E t \in g : t.o = v
    BY <1>2
  <2>2. Prop[a].kind = "data" => IsLiteral(v) /\ v.type = Prop[a].datatype /\ PlainValue(v)
    BY <1>1, <2>1, ValuesOf
  <2>3. Prop[a].kind = "object" => IsUri(v) /\ v.frag = NoFragment /\ v.base \notin {Bar, Semi, Escape}
    BY <1>3 DEF PlainObjects
  <2> QED BY <1>3, <2>1, <2>2, <2>3, TermFits
<1>4. \A a \in DOMAIN Basic : Filled(g, Uri(u), a)
  BY <1>1, <1>3, PropertyAssumption
<1>5. ASSUME NEW a \in DOMAIN Embedded PROVE FilledObjects(g, Uri(u), a)
  <2>1. ASSUME NEW e \in Values(g, Uri(u), a)
        PROVE  /\ e = [base |-> Uri(u).base, frag |-> e.frag] /\ e.frag # NoFragment
               /\ \A b \in DOMAIN Embedded[a] : Filled(g, e, b)
               /\ \E b \in DOMAIN Embedded[a] : Values(g, e, b) # {}
    <3>1. e = [base |-> e.base, frag |-> e.frag]
      BY <1>1, <1>2 DEF IsTerm
    <3>2. Uri(u).base = u
      BY UriOf
    <3>3. \A b \in DOMAIN Embedded[a] : Filled(g, e, b)
      BY <1>1, <1>3, PropertyAssumption
    <3> QED BY <1>1, <3>1, <3>2, <3>3
  <2> QED BY <1>2, <2>1 DEF FilledObjects
<1> QED BY <1>4, <1>5 DEF g

(* A row of the spreadsheet is the one that was written of its item.        *)
LEMMA RowIsItsItems ==
  ASSUME ExportTypeOK, NEW u \in RowUris
  PROVE  u \in Items /\ RowOf(u) = RowFor(repo[u], u)
<1> DEFINE R == {RowFor(repo[v], v) : v \in Items}
<1>1. \A r \in R : r.uri \in Items /\ r = RowFor(repo[r.uri], r.uri)
  BY DEF RowFor
<1>2. sheets \in [SheetNames -> Seq(R)]
  BY DEF ExportTypeOK
<1> HIDE DEF R
<1>3. \A c \in DOMAIN sheets : Range(sheets[c]) \subseteq R
  BY <1>2 DEF Range
<1>4. \A r \in Rows : r \in R
  BY <1>3 DEF Rows
<1>5. \E r \in Rows : r.uri = u
  BY DEF RowUris
<1>6. RowOf(u) \in Rows /\ RowOf(u).uri = u
  BY <1>5 DEF RowOf
<1> QED BY <1>1, <1>4, <1>6

(* What an import has made is what it would make now.                       *)
ImportedInv ==
  \A u \in Items : imported[u] # NotYet =>
    Delivered /\ u \in RowUris /\ imported[u] = ImportOf(u)

LEMMA SameImport ==
  ASSUME UNCHANGED <<repo, sheets, edited>>, NEW u
  PROVE  ImportOf(u)' = ImportOf(u)
<1>1. RowOf(u)' = RowOf(u)
  BY SameRows
<1>2. CellsOf(u)' = CellsOf(u)
  BY <1>1 DEF CellsOf
<1> QED BY <1>1, <1>2 DEF ImportOf

LEMMA ImportedStays ==
  ASSUME ImportedInv, UNCHANGED <<repo, pc, sheets, edited, imported>>
  PROVE  ImportedInv'
<1>1. Delivered' = Delivered /\ RowUris' = RowUris /\ \A u : ImportOf(u)' = ImportOf(u)
  BY SameRows, SameImport DEF Delivered
<1> QED BY <1>1 DEF ImportedInv

LEMMA ImportedStep == ImportedInv /\ ExportTypeOK /\ [ExportNext]_exportVars => ImportedInv'
<1> SUFFICES ASSUME ImportedInv, ExportTypeOK, [ExportNext]_exportVars PROVE ImportedInv'
  OBVIOUS
<1>1. CASE UNCHANGED exportVars
  BY <1>1, ImportedStays DEF exportVars
<1>2. CASE Fail \/ Read \/ Write \/ Copy \/ Exported \/ Finish
  <2>1. ~ Delivered
    BY <1>2 DEF Fail, Read, Write, Copy, Exported, Finish, Delivered
  <2>2. imported' = imported
    BY <1>2 DEF Fail, Read, Write, Copy, Exported, Finish
  <2> QED BY <2>1, <2>2 DEF ImportedInv
<1>3. CASE EditCell
  BY <1>3 DEF EditCell, ImportedInv
<1>4. ASSUME NEW u \in Items, Import(u) PROVE ImportedInv'
  <2>1. /\ imported' = [imported EXCEPT ![u] = ImportOf(u)] /\ Delivered /\ u \in RowUris
        /\ UNCHANGED <<repo, pc, sheets, edited>>
    BY <1>4 DEF Import
  <2>2. Delivered' = Delivered /\ RowUris' = RowUris /\ \A v : ImportOf(v)' = ImportOf(v)
    BY <2>1, SameRows, SameImport DEF Delivered
  <2>3. DOMAIN imported = Items
    BY DEF ExportTypeOK
  <2> QED BY <2>1, <2>2, <2>3 DEF ImportedInv
<1>5. ASSUME NEW u \in Items, NEW place \in Places, Load(u, place) PROVE ImportedInv'
  BY <1>5, ImportedStays DEF Load
<1> QED BY <1>1, <1>2, <1>3, <1>4, <1>5 DEF ExportNext

LEMMA ImportedAlways == ExportSpec => [](ExportInv /\ ImportedInv)
<1>1. ExportInit => ImportedInv
  BY DEF ExportInit, ImportedInv
<1>2. ExportInv => ExportTypeOK
  BY DEF ExportInv
<1> QED BY <1>1, <1>2, ExportAlways, ImportedStep, PTL DEF ExportSpec

-----------------------------------------------------------------------------
(* The rows that nobody changed.                                            *)
LEMMA OriginalIsDescribed ==
  ASSUME NEW u
  PROVE  Original(u) = Described(repo[u].graph, Uri(u),
                                 detect_resource_class(repo[u].graph, Uri(u)))
BY DEF Original, Described, EmbeddedTypes

(* An import that is not refused has read the item from its cells.          *)
LEMMA ImportReads ==
  ASSUME ExportTypeOK, ImportedInv, NEW u \in Items, imported[u] # NotYet, ~ imported[u].refused
  PROVE  LET g == repo[u].graph
         IN  /\ u \in RowUris /\ repo \in Repositories
             /\ imported[u].graph = get_object(g, Uri(u), detect_resource_class(g, Uri(u)),
                                               CellsOf(u), IndexOf(g, Uri(u)))
             /\ build_fields(DOMAIN CellsOf(u))
             /\ ~ Clashes(CellsOf(u), IndexOf(g, Uri(u)))
             /\ RowOf(u).cells = flatten(g, Uri(u))
<1>1. u \in RowUris /\ imported[u] = ImportOf(u) /\ repo \in Repositories
  BY DEF ImportedInv, ExportTypeOK
<1>2. RowOf(u) = RowFor(repo[u], u)
  BY <1>1, RowIsItsItems
<1>3. RowOf(u).index = IndexOf(repo[u].graph, Uri(u)) /\ RowOf(u).cells = flatten(repo[u].graph, Uri(u))
  BY <1>2 DEF RowFor
<1>4. ~ ImportOf(u).refused
  BY <1>1
<1>5. /\ build_fields(DOMAIN CellsOf(u)) /\ ~ Clashes(CellsOf(u), RowOf(u).index)
      /\ ImportOf(u).graph =
           get_object(repo[u].graph, Uri(u), detect_resource_class(repo[u].graph, Uri(u)),
                      CellsOf(u), RowOf(u).index)
  BY <1>4 DEF ImportOf
<1> QED BY <1>1, <1>3, <1>5

LEMMA EmbeddedLabels ==
  /\ \A a \in DOMAIN Basic : Basic[a] \in Labels
  /\ \A a \in DOMAIN Embedded : \A b \in DOMAIN Embedded[a] : Embedded[a][b] \in Labels
BY DEF Labels

LEMMA UneditedFollows == ExportInv /\ ImportedInv => UneditedComesBack
<1> SUFFICES ASSUME ExportInv, ImportedInv, NEW u \in Items, imported[u] # NotYet,
                    ~ imported[u].refused, PlainItem(u), edited = NotYet \/ edited.uri # u
             PROVE  imported[u].graph = Original(u)
  BY DEF UneditedComesBack
<1> DEFINE g == repo[u].graph
           s == Uri(u)
           class == detect_resource_class(g, s)
<1>1. ExportTypeOK
  BY DEF ExportInv
<1>2. /\ repo \in Repositories
      /\ imported[u].graph = get_object(g, s, class, CellsOf(u), IndexOf(g, s))
      /\ RowOf(u).cells = flatten(g, s)
  BY <1>1, ImportReads
<1>3. CellsOf(u) = flatten(g, s)
  BY <1>2 DEF CellsOf
<1>4. Shaped(g) /\ s.frag = NoFragment
  BY <1>2, TermsOfItems DEF Uri
<1>5. /\ \A a \in DOMAIN Basic : Filled(g, s, a)
      /\ \A a \in DOMAIN Embedded : FilledObjects(g, s, a)
  BY <1>2, PlainIsFilled
<1>6. Original(u) = Described(g, s, class)
  BY OriginalIsDescribed
<1> HIDE DEF g, s, class
<1>7. RowKeeps(flatten(g, s), g, s, {}, {})
  <2>1. \A a \in DOMAIN Basic : Unchanged(flatten(g, s), g, s, Basic[a])
    BY FlattenedUnchanged, EmbeddedLabels
  <2>2. \A a \in DOMAIN Embedded : UnchangedObjects(flatten(g, s), g, s, a)
    BY FlattenedUnchanged, EmbeddedLabels DEF UnchangedObjects
  <2> QED BY <1>5, <2>1, <2>2 DEF RowKeeps
<1>8. get_object(g, s, class, flatten(g, s), IndexOf(g, s)) =
        (Described(g, s, class) \ UNION {Links(s, a, Values(g, s, a)) : a \in {}})
          \cup UNION {Links(s, a, {}) : a \in {}}
  BY <1>4, <1>7, ItemComesBack
<1> QED BY <1>2, <1>3, <1>6, <1>8

(* A row that nobody changed gives its item back, with any HEADER_MAP, any  *)
(* repository and whatever the values are: languages, several values, and   *)
(* embedded objects under their own fragments (csv.py:187-351).             *)
THEOREM UneditedReturns == ExportSpec => []UneditedComesBack
BY ImportedAlways, UneditedFollows, PTL

-----------------------------------------------------------------------------
(* The column of the attribute that was edited, and every other one.        *)
LEMMA EditedColumn ==
  ASSUME NEW g, NEW s, NEW e \in Edits, e.to.label \in Labels, e.to.mark # "type"
  PROVE  /\ get_column_headers(DOMAIN EditRow(flatten(g, s), e), Basic[e.attr]) = {e.to}
         /\ EditRow(flatten(g, s), e)[e.to] = e.text
         /\ \A l \in Labels \ {Basic[e.attr]} : Unchanged(EditRow(flatten(g, s), e), g, s, l)
<1> DEFINE cells == flatten(g, s)
           row == EditRow(cells, e)
           label == Basic[e.attr]
<1>1. /\ e.attr \in DOMAIN Basic /\ e.from = Header(label) /\ e.to.label = label
      /\ e.to.mark \in {"plain", "lang"}
  BY EditAssumption
<1>2. DOMAIN cells = {Header(l) : l \in Labels}
  BY FlattenedColumns
<1>3. /\ DOMAIN row = (DOMAIN cells \ {e.from}) \cup {e.to}
      /\ row[e.to] = e.text
      /\ \A h \in DOMAIN cells \ {e.from} : h # e.to => row[h] = cells[h]
  BY DEF EditRow
<1> HIDE DEF row, cells
<1>4. get_column_headers(DOMAIN row, label) = {e.to}
  BY <1>1, <1>2, <1>3, HeaderLabel DEF get_column_headers
<1>5. ASSUME NEW l \in Labels, l # label PROVE Unchanged(row, g, s, l)
  <2>1. Header(l) \in DOMAIN cells \ {e.from} /\ Header(l) # e.to
    BY <1>1, <1>2, <1>5, HeaderLabel
  <2>2. \A h \in DOMAIN row : h.label = l => h = Header(l)
    BY <1>1, <1>2, <1>3, <1>5, HeaderLabel
  <2>3. get_column_headers(DOMAIN row, l) = {Header(l)}
    BY <1>3, <2>1, <2>2, HeaderLabel DEF get_column_headers
  <2> QED BY <1>3, <2>1, <2>3 DEF Unchanged, cells
<1> QED BY <1>3, <1>4, <1>5 DEF row, cells

LEMMA TypedFits ==
  ASSUME NEW a, NEW h, NEW text, NEW v \in CellValues(h, a, text), Prop[a].kind = "data"
  PROVE  IsLiteral(v) /\ v.type = Prop[a].datatype
<1>1. PICK t : v = get_literal(h, a, t)
  BY DEF CellValues
<1>2. PICK x, y : v = Literal(x, y, Prop[a].datatype)
  BY <1>1 DEF get_literal
<1> QED BY <1>2 DEF Literal, IsLiteral

OfAttribute(a, vs) ==
  Prop[a].kind = "data" => \A v \in vs : IsLiteral(v) /\ v.type = Prop[a].datatype

(* Giving an attribute other values leaves the rest.                        *)
Exchanged(g, s, a, vs) == (g \ Links(s, a, Values(g, s, a))) \cup Links(s, a, vs)

LEMMA ValuesExchanged ==
  ASSUME NEW g, Shaped(g), NEW s, NEW a, NEW typed, OfAttribute(a, typed)
  PROVE  LET R == Exchanged(g, s, a, typed)
         IN  /\ Values(R, s, a) = typed
             /\ R \ Links(s, a, typed) = g \ Links(s, a, Values(g, s, a))
<1> DEFINE R == Exchanged(g, s, a, typed)
<1>0. R = (g \ Links(s, a, Values(g, s, a))) \cup Links(s, a, typed)
  BY DEF Exchanged
<1> HIDE DEF R
<1>1. ASSUME NEW v \in typed PROVE v \in Values(R, s, a)
  <2> DEFINE t == Triple(s, Prop[a].predicate, v)
  <2>1. t \in R
    BY <1>0 DEF Links
  <2>2. t.s = s /\ t.p = Prop[a].predicate /\ t.o = v
    BY TripleParts
  <2>3. v \in objects(R, s, Prop[a].predicate)
    BY <2>1, <2>2, ObjectsOf
  <2> QED BY <2>3, ValuesOf DEF OfAttribute
<1>2. ASSUME NEW t \in g, t.s = s, t.p = Prop[a].predicate,
             Prop[a].kind = "data" => IsLiteral(t.o) /\ t.o.type = Prop[a].datatype
      PROVE  t \in Links(s, a, Values(g, s, a))
  <2>1. t.o \in Values(g, s, a)
    BY <1>2, ValuesOf, ObjectsOf
  <2>2. t = Triple(t.s, t.p, t.o)
    BY DEF Shaped
  <2> QED BY <1>2, <2>1, <2>2, LinksOf
<1>3. ASSUME NEW v \in Values(R, s, a) PROVE v \in typed
  <2>1. PICK t \in R : t.s = s /\ t.p = Prop[a].predicate /\ t.o = v
    BY ValuesOf, ObjectsOf
  <2>2. Prop[a].kind = "data" => IsLiteral(v) /\ v.type = Prop[a].datatype
    BY ValuesOf
  <2>3. t \in Links(s, a, typed)
    BY <1>0, <1>2, <2>1, <2>2
  <2> QED BY <2>1, <2>3, LinksOf
<1>4. ASSUME NEW t \in g, t \in Links(s, a, typed) PROVE t \in Links(s, a, Values(g, s, a))
  <2>1. t.s = s /\ t.p = Prop[a].predicate /\ t.o \in typed
    BY <1>4, LinksOf
  <2>2. Prop[a].kind = "data" => IsLiteral(t.o) /\ t.o.type = Prop[a].datatype
    BY <2>1 DEF OfAttribute
  <2> QED BY <1>2, <2>1, <2>2
<1> HIDE DEF Links
<1>5. R \ Links(s, a, typed) = g \ Links(s, a, Values(g, s, a))
  BY <1>0, <1>4
<1> QED BY <1>1, <1>3, <1>5 DEF R

(* The types that a description adds are no values of its properties.       *)
LEMMA DescribedValues ==
  ASSUME NEW g, Shaped(g), NEW s, NEW class, \A a \in DOMAIN Embedded : FilledObjects(g, s, a),
         s.frag = NoFragment, NEW a \in Headed
  PROVE  /\ Shaped(Described(g, s, class))
         /\ Values(Described(g, s, class), s, a) = Values(g, s, a)
<1> DEFINE h == TypesOf(s, class) \cup EmbeddedTypes(g, s)
<1>1. \A t \in TypesOf(s, class) : t = Triple(t.s, t.p, t.o) /\ t.p = Prop["rdf_type"].predicate
  BY LinksShaped DEF TypesOf
<1>2. \A t \in EmbeddedTypes(g, s) : t = Triple(t.s, t.p, t.o) /\ t.p = Prop["rdf_type"].predicate
  <2> SUFFICES ASSUME NEW t \in EmbeddedTypes(g, s)
               PROVE  t = Triple(t.s, t.p, t.o) /\ t.p = Prop["rdf_type"].predicate
    OBVIOUS
  <2>0. PICK b \in DOMAIN Embedded : \E e \in Values(g, s, b) : t \in TypesOf(e, Prop[b].cls)
    BY EmbeddedTypesParts
  <2>1. PICK e \in Values(g, s, b) : t \in TypesOf(e, Prop[b].cls)
    BY <2>0
  <2> QED BY <2>1, LinksShaped DEF TypesOf
<1>3. OnlyTypes(h, s)
  BY <1>1, <1>2 DEF OnlyTypes
<1>4. Described(g, s, class) = g \cup h
  BY DEF Described
<1>5. Shaped(g \cup h)
  BY <1>1, <1>2 DEF Shaped
<1> HIDE DEF h
<1> QED BY <1>3, <1>4, <1>5, TypesAside

LEMMA EditsFollow == ExportInv /\ ImportedInv => EditsArrive
<1> DEFINE u == edited.uri
           e == edited.edit
           g == repo[u].graph
           s == Uri(u)
           class == detect_resource_class(g, s)
           rest(G) == G \ Links(s, e.attr, Values(G, s, e.attr))
<1> SUFFICES ASSUME ExportInv, ImportedInv, edited # NotYet, imported[u] # NotYet,
                    ~ imported[u].refused, PlainItem(u), e.to.mark # "type"
             PROVE  /\ Values(imported[u].graph, s, e.attr) = e.expect
                    /\ rest(imported[u].graph) = rest(Original(u))
  BY DEF EditsArrive
<1> DEFINE cells == EditRow(flatten(g, s), e)
           typed == CellValues(e.to, e.attr, e.text)
<1>1. ExportTypeOK /\ u \in Items /\ e \in Edits
  BY DEF ExportInv, ExportTypeOK
<1>2. /\ repo \in Repositories
      /\ imported[u].graph = get_object(g, s, class, CellsOf(u), IndexOf(g, s))
      /\ build_fields(DOMAIN CellsOf(u))
      /\ ~ Clashes(CellsOf(u), IndexOf(g, s))
      /\ RowOf(u).cells = flatten(g, s)
  BY <1>1, ImportReads
<1>3. CellsOf(u) = cells
  BY <1>2 DEF CellsOf
<1>4. Shaped(g) /\ s.frag = NoFragment
  BY <1>1, <1>2, TermsOfItems DEF Uri
<1>5. /\ \A a \in DOMAIN Basic : Filled(g, s, a)
      /\ \A a \in DOMAIN Embedded : FilledObjects(g, s, a)
  BY <1>1, <1>2, PlainIsFilled
<1>6. Original(u) = Described(g, s, class)
  BY OriginalIsDescribed
<1>7. e.attr \in DOMAIN Basic
  BY <1>1, EditAssumption
<1>8. e.to.label \in Labels
  <2>1. e.to \in DOMAIN cells
    BY DEF EditRow
  <2> QED BY <1>2, <1>3, <2>1 DEF build_fields
<1> HIDE DEF g, s, class, u, e, rest
<1>9. /\ get_column_headers(DOMAIN cells, Basic[e.attr]) = {e.to}
      /\ cells[e.to] = e.text
      /\ \A l \in Labels \ {Basic[e.attr]} : Unchanged(cells, g, s, l)
  BY <1>1, <1>8, EditedColumn
<1> HIDE DEF cells
<1>10. RowValues(cells, e.attr, Basic[e.attr]) = typed
  BY <1>9 DEF RowValues
<1> HIDE DEF typed
<1>11. RowKeeps(cells, g, s, {e.attr}, typed)
  <2>1. \A a \in DOMAIN Basic \ {e.attr} : Unchanged(cells, g, s, Basic[a])
    BY <1>7, <1>9, EmbeddedLabels, HeaderAssumption
  <2>2. \A a \in DOMAIN Embedded : UnchangedObjects(cells, g, s, a)
    <3> SUFFICES ASSUME NEW a \in DOMAIN Embedded, NEW b \in DOMAIN Embedded[a]
                 PROVE  Unchanged(cells, g, s, Embedded[a][b])
      BY DEF UnchangedObjects
    <3>1. Embedded[a][b] \in Labels /\ Embedded[a][b] # Basic[e.attr]
      BY <1>7, EmbeddedLabels, HeaderAssumption
    <3> QED BY <1>9, <3>1
  <2> QED BY <1>5, <1>7, <1>9, <1>10, <2>1, <2>2 DEF RowKeeps
<1>12. typed = e.expect
  <2>1. e.attr \in DOMAIN unflatten(cells, IndexOf(g, s))
        /\ unflatten(cells, IndexOf(g, s))[e.attr] = typed
    BY <1>7, <1>11, UnflattenedParts
  <2>2. ~ AnyClash(typed)
    BY <1>2, <1>3, <1>7, <2>1 DEF Clashes, HasClash
  <2> QED BY <1>1, <1>8, <2>2, EditAssumption DEF typed, e
<1> DEFINE D == Described(g, s, class)
           R == imported[u].graph
<1>13. R = (D \ Links(s, e.attr, Values(g, s, e.attr))) \cup Links(s, e.attr, typed)
  <2>1. get_object(g, s, class, cells, IndexOf(g, s)) =
          (D \ UNION {Links(s, a, Values(g, s, a)) : a \in {e.attr}})
            \cup UNION {Links(s, a, typed) : a \in {e.attr}}
    BY <1>4, <1>11, ItemComesBack
  <2>2. /\ UNION {Links(s, a, Values(g, s, a)) : a \in {e.attr}} = Links(s, e.attr, Values(g, s, e.attr))
        /\ UNION {Links(s, a, typed) : a \in {e.attr}} = Links(s, e.attr, typed)
    OBVIOUS
  <2> QED BY <1>2, <1>3, <2>1, <2>2
<1>14. Shaped(D) /\ Values(D, s, e.attr) = Values(g, s, e.attr)
  <2>1. e.attr \in Headed
    BY <1>7 DEF Headed
  <2> QED BY <1>4, <1>5, <2>1, DescribedValues
<1>15. OfAttribute(e.attr, typed)
  BY TypedFits DEF typed, OfAttribute
<1>16. R = Exchanged(D, s, e.attr, typed)
  BY <1>13, <1>14 DEF Exchanged
<1> HIDE DEF D
<1>17. /\ Values(R, s, e.attr) = typed
       /\ R \ Links(s, e.attr, typed) = D \ Links(s, e.attr, Values(D, s, e.attr))
  BY <1>14, <1>15, <1>16, ValuesExchanged
<1>18. rest(R) = rest(D)
  BY <1>17 DEF rest
<1> QED BY <1>6, <1>12, <1>17, <1>18 DEF D, R

(* Whatever is typed into the column of a basic attribute, of whatever      *)
(* item, arrives as what the attribute takes from such a cell; and every    *)
(* other statement of the item stays as it was (csv.py:187-351).            *)
THEOREM EditsReturn == ExportSpec => []EditsArrive
BY ImportedAlways, EditsFollow, PTL

-----------------------------------------------------------------------------
(* The pages of an item, through the cell FILES and back.  First what the   *)
(* recursive operators do with one more element.                            *)
CountsUp(f, n, start, step) ==
  f[0] = start /\ \A i \in 1..n : f[i] = step[<<f[i - 1], i>>]

LEMMA CountedRecursion ==
  ASSUME NEW n \in Nat, NEW S, NEW start \in S, NEW step \in [S \X (1..n) -> S]
  PROVE  \E f \in [0..n -> S] : CountsUp(f, n, start, step)
<1> DEFINE Good == {m \in Nat : m <= n => \E f \in [0..m -> S] : CountsUp(f, m, start, step)}
<1>1. 0 \in Good
  <2>1. [i \in 0..0 |-> start] \in [0..0 -> S]
    OBVIOUS
  <2>2. CountsUp([i \in 0..0 |-> start], 0, start, step)
    BY DEF CountsUp
  <2> QED BY <2>1, <2>2
<1>2. ASSUME NEW m \in Nat, m \in Good PROVE m + 1 \in Good
  <2> SUFFICES ASSUME m + 1 <= n PROVE \E f \in [0..(m + 1) -> S] : CountsUp(f, m + 1, start, step)
    OBVIOUS
  <2>1. PICK f \in [0..m -> S] : CountsUp(f, m, start, step)
    BY <1>2
  <2> DEFINE next == step[<<f[m], m + 1>>]
             g == [i \in 0..(m + 1) |-> IF i <= m THEN f[i] ELSE next]
  <2>2. next \in S
    <3>1. f[m] \in S /\ m + 1 \in 1..n
      OBVIOUS
    <3> QED BY <3>1
  <2>3. g \in [0..(m + 1) -> S]
    <3> HIDE DEF next
    <3> QED BY <2>2
  <2>4. ASSUME NEW i \in 1..(m + 1) PROVE g[i] = step[<<g[i - 1], i>>]
    <3>1. CASE i = m + 1
      <4>1. g[i] = next /\ g[i - 1] = f[m]
        BY <3>1
      <4> QED BY <3>1, <4>1
    <3>2. CASE i # m + 1
      <4>1. i \in 1..m /\ i - 1 \in 0..m
        BY <3>2
      <4>2. g[i] = f[i] /\ g[i - 1] = f[i - 1]
        BY <4>1
      <4> QED BY <2>1, <4>1, <4>2 DEF CountsUp
    <3> QED BY <3>1, <3>2
  <2>5. g[0] = start
    BY <2>1 DEF CountsUp
  <2> HIDE DEF g
  <2> QED BY <2>3, <2>4, <2>5 DEF CountsUp
<1>3. n \in Good
  <2> HIDE DEF Good
  <2> QED BY <1>1, <1>2, NumberInduction
<1> QED BY <1>3

(* Those(): the elements that are in the set, up to one position.           *)
Chosen(f, s, S) ==
  /\ f[0] = <<>>
  /\ \A n \in 1..Len(s) : f[n] = IF s[n] \in S THEN Append(f[n - 1], s[n]) ELSE f[n - 1]

LEMMA ThoseUpTo ==
  ASSUME NEW T, NEW s \in Seq(T), NEW S
  PROVE  \E f \in [0..Len(s) -> Seq(T \cap S)] : Chosen(f, s, S) /\ Those(s, S) = f[Len(s)]
<1> DEFINE N == Len(s)
           Q == Seq(T \cap S)
           Next_(q, n) == IF s[n] \in S THEN Append(q, s[n]) ELSE q
           step == [p \in Q \X (1..N) |-> Next_(p[1], p[2])]
           Fix(f) == f = [n \in 0..N |-> IF n = 0 THEN <<>> ELSE Next_(f[n - 1], n)]
<1>1. N \in Nat /\ \A n \in 1..N : s[n] \in T
  OBVIOUS
<1> HIDE DEF N
<1>2. ASSUME NEW q \in Q, NEW n \in 1..N PROVE Next_(q, n) \in Q
  BY <1>1
<1> HIDE DEF Next_
<1>3. step \in [Q \X (1..N) -> Q]
  <2> HIDE DEF Q
  <2> QED BY <1>2
<1>4. <<>> \in Q
  OBVIOUS
<1> HIDE DEF Q
<1>5. PICK f \in [0..N -> Q] : CountsUp(f, N, <<>>, step)
  <2> HIDE DEF step
  <2> QED BY <1>1, <1>3, <1>4, CountedRecursion
<1>6. f[0] = <<>> /\ \A n \in 1..N : f[n] = Next_(f[n - 1], n)
  <2> SUFFICES ASSUME NEW n \in 1..N PROVE f[n] = Next_(f[n - 1], n)
    BY <1>5 DEF CountsUp
  <2>1. f[n] = step[<<f[n - 1], n>>]
    BY <1>5 DEF CountsUp
  <2>2. f[n - 1] \in Q
    BY <1>1
  <2> QED BY <2>1, <2>2
<1>7. Fix(f)
  <2>1. \A n \in 0..N : f[n] = IF n = 0 THEN <<>> ELSE Next_(f[n - 1], n)
    BY <1>1, <1>6
  <2> QED BY <2>1
<1> DEFINE F == CHOOSE g : Fix(g)
<1>8. Fix(F)
  <2> HIDE DEF Fix
  <2> QED BY <1>7
<1>9. Those(s, S) = F[N]
  BY DEF Those, N, Next_
<1> HIDE DEF F
<1>10. F[0] = <<>> /\ (\A n \in 1..N : F[n] = Next_(F[n - 1], n)) /\ F = [n \in 0..N |-> F[n]]
  BY <1>1, <1>8
<1>11. \A n \in Nat : n <= N => F[n] = f[n]
  <2> DEFINE Good == {n \in Nat : n <= N => F[n] = f[n]}
  <2>1. 0 \in Good
    BY <1>6, <1>10
  <2>2. ASSUME NEW n \in Nat, n \in Good PROVE n + 1 \in Good
    <3> SUFFICES ASSUME n + 1 <= N PROVE F[n + 1] = f[n + 1]
      OBVIOUS
    <3>1. n + 1 \in 1..N /\ (n + 1) - 1 = n /\ F[n] = f[n]
      BY <1>1, <2>2
    <3>2. F[n + 1] = Next_(F[n], n + 1) /\ f[n + 1] = Next_(f[n], n + 1)
      <4>1. F[n + 1] = Next_(F[(n + 1) - 1], n + 1)
        BY <1>10, <3>1
      <4>2. f[n + 1] = Next_(f[(n + 1) - 1], n + 1)
        BY <1>6, <3>1
      <4> QED BY <3>1, <4>1, <4>2
    <3> QED BY <3>1, <3>2
  <2> HIDE DEF Good
  <2>3. Nat \subseteq Good
    BY <2>1, <2>2, NumberInduction
  <2> QED BY <2>3 DEF Good
<1>12. Chosen(f, s, S)
  BY <1>6 DEF Chosen, N, Next_
<1>13. Those(s, S) = f[N]
  BY <1>1, <1>9, <1>11
<1> QED BY <1>12, <1>13 DEF N, Q

(* FlattenSeq(): the sequences one after another, up to one position.       *)
Joined(f, ss) == f[0] = <<>> /\ \A n \in 1..Len(ss) : f[n] = f[n - 1] \o ss[n]

LEMMA FlattenUpTo ==
  ASSUME NEW T, NEW ss \in Seq(Seq(T))
  PROVE  \E f \in [0..Len(ss) -> Seq(T)] : Joined(f, ss) /\ FlattenSeq(ss) = f[Len(ss)]
<1> DEFINE N == Len(ss)
           Q == Seq(T)
           Next_(q, n) == q \o ss[n]
           step == [p \in Q \X (1..N) |-> Next_(p[1], p[2])]
           Fix(f) == f = [n \in 1..N |-> IF n = 1 THEN ss[n] ELSE f[n - 1] \o ss[n]]
<1>1. N \in Nat /\ \A n \in 1..N : ss[n] \in Q
  OBVIOUS
<1> HIDE DEF N
<1>2. ASSUME NEW q \in Q, NEW n \in 1..N PROVE Next_(q, n) \in Q
  BY <1>1, ConcatParts
<1> HIDE DEF Next_
<1>4. <<>> \in Q
  OBVIOUS
<1> HIDE DEF Q
<1>3. step \in [Q \X (1..N) -> Q]
  BY <1>2
<1>5. PICK f \in [0..N -> Q] : CountsUp(f, N, <<>>, step)
  <2> HIDE DEF step
  <2> QED BY <1>1, <1>3, <1>4, CountedRecursion
<1>6. f[0] = <<>> /\ \A n \in 1..N : f[n] = Next_(f[n - 1], n)
  <2> SUFFICES ASSUME NEW n \in 1..N PROVE f[n] = Next_(f[n - 1], n)
    BY <1>5 DEF CountsUp
  <2>1. f[n] = step[<<f[n - 1], n>>]
    BY <1>5 DEF CountsUp
  <2>2. f[n - 1] \in Q
    BY <1>1
  <2> QED BY <2>1, <2>2
<1>12. Joined(f, ss)
  BY <1>6 DEF Joined, N, Next_
<1>13. FlattenSeq(ss) = f[N]
  <2>1. CASE N = 0
    <3>1. ss = <<>>
      BY <2>1 DEF N
    <3>2. FlattenSeq(ss) = ss
      BY <2>1 DEF FlattenSeq, N
    <3> QED BY <1>6, <2>1, <3>1, <3>2
  <2>2. CASE N # 0
    <3>1. 1 \in 1..N /\ f[1] = ss[1]
      <4>0. 1 \in 1..N /\ 1 - 1 = 0
        BY <1>1, <2>2
      <4>1. 1 \in 1..N /\ f[1] = f[0] \o ss[1] /\ ss[1] \in Q
        <5>1. f[1] = Next_(f[1 - 1], 1)
          BY <1>6, <4>0
        <5> QED BY <1>1, <4>0, <5>1 DEF Next_
      <4> QED BY <1>6, <4>1 DEF Q
    <3> DEFINE g == [n \in 1..N |-> f[n]]
    <3>2. Fix(g)
      <4>1. \A n \in 1..N : g[n] = IF n = 1 THEN ss[n] ELSE g[n - 1] \o ss[n]
        <5> SUFFICES ASSUME NEW n \in 1..N, n # 1 PROVE g[n] = g[n - 1] \o ss[n]
          BY <3>1
        <5>1. n - 1 \in 1..N
          BY <1>1
        <5> QED BY <1>6, <5>1 DEF Next_
      <4> QED BY <4>1
    <3> DEFINE F == CHOOSE h : Fix(h)
    <3>3. Fix(F)
      <4> HIDE DEF Fix, g
      <4> QED BY <3>2
    <3>4. FlattenSeq(ss) = F[N]
      BY <2>2 DEF FlattenSeq, N
    <3> HIDE DEF F
    <3>5. \A n \in 1..N : F[n] = IF n = 1 THEN ss[n] ELSE F[n - 1] \o ss[n]
      BY <3>3
    <3> DEFINE Good == {n \in Nat : n \in 1..N => F[n] = f[n]}
    <3>6. 0 \in Good
      OBVIOUS
    <3>7. ASSUME NEW n \in Nat, n \in Good PROVE n + 1 \in Good
      <4> SUFFICES ASSUME n + 1 \in 1..N PROVE F[n + 1] = f[n + 1]
        OBVIOUS
      <4>1. CASE n = 0
        BY <3>1, <3>5, <4>1
      <4>2. CASE n # 0
        <5>1. n \in 1..N /\ n + 1 # 1 /\ (n + 1) - 1 = n
          BY <1>1, <4>2
        <5>2. F[n] = f[n] /\ F[n + 1] = F[n] \o ss[n + 1]
          BY <3>5, <3>7, <5>1
        <5>3. f[n + 1] = f[n] \o ss[n + 1]
          BY <1>6, <5>1 DEF Next_
        <5> QED BY <5>2, <5>3
      <4> QED BY <4>1, <4>2
    <3> HIDE DEF Good
    <3>8. Nat \subseteq Good
      BY <3>6, <3>7, NumberInduction
    <3>9. N \in 1..N
      BY <1>1, <2>2
    <3> QED BY <1>1, <3>4, <3>8, <3>9 DEF Good
  <2> QED BY <2>1, <2>2
<1> QED BY <1>12, <1>13 DEF N, Q

-----------------------------------------------------------------------------
(* The groups of files, with one more file.                                 *)
LEMMA AppendTo ==
  ASSUME NEW T, NEW t \in Seq(T), NEW x
  PROVE  Append(t, x) = [i \in 1..(Len(t) + 1) |-> IF i <= Len(t) THEN t[i] ELSE x]
<1>1. t \in Seq(T \cup {x}) /\ x \in T \cup {x}
  OBVIOUS
<1> DEFINE a == Append(t, x)
<1>2. a \in Seq(T \cup {x}) /\ Len(a) = Len(t) + 1 /\ Len(t) \in Nat /\ a[Len(t) + 1] = x
      /\ \A i \in 1..Len(t) : a[i] = t[i]
  BY <1>1
<1> DEFINE b == [i \in 1..(Len(t) + 1) |-> IF i <= Len(t) THEN t[i] ELSE x]
<1>3. \A i \in 1..(Len(t) + 1) : b[i] \in T \cup {x}
  BY <1>2
<1>4. b \in Seq(T \cup {x}) /\ Len(b) = Len(t) + 1
  <2>1. Len(t) + 1 \in Nat
    BY <1>2
  <2> QED BY <1>3, <2>1
<1>5. \A i \in 1..(Len(t) + 1) : b[i] = a[i]
  BY <1>2
<1> HIDE DEF a, b
<1>6. a = b
  BY <1>2, <1>4, <1>5
<1> QED BY <1>6 DEF a, b

Roots == {rootname(f.name) : f \in Entry}
Named == [name : Text, usage : Token]
Group == [root : Roots, label : Text, files : Seq(Named), differs : BOOLEAN]

LEMMA EntryParts ==
  ASSUME NEW e \in Entry
  PROVE  /\ e.label \in Text /\ rootname(e.name) \in Roots
         /\ [name |-> e.name, usage |-> e.usage] \in Named
         /\ <<[name |-> e.name, usage |-> e.usage]>> \in Seq(Named)
<1>1. e.label \in Text /\ e.usage \in Token /\ e.name \in Text
  BY DEF Entry
<1>2. rootname(e.name) \in Roots
  BY DEF Roots
<1>3. [name |-> e.name, usage |-> e.usage] \in Named
  BY <1>1 DEF Named
<1> QED BY <1>1, <1>2, <1>3

LEMMA GroupGiven ==
  ASSUME NEW r \in Roots, NEW l \in Text, NEW f \in Seq(Named), NEW d \in BOOLEAN
  PROVE  [root |-> r, label |-> l, files |-> f, differs |-> d] \in Group
BY DEF Group

LEMMA GroupParts ==
  ASSUME NEW g \in Group
  PROVE  g.root \in Roots /\ g.label \in Text /\ g.files \in Seq(Named) /\ g.differs \in BOOLEAN
BY DEF Group

LEMMA WithFileGroups ==
  ASSUME NEW groups \in Seq(Group), NEW e \in Entry
  PROVE  WithFile(groups, e) \in Seq(Group)
<1> DEFINE root == rootname(e.name)
           new == [name |-> e.name, usage |-> e.usage]
           known == {i \in DOMAIN groups : groups[i].root = root}
           its == CHOOSE i \in known : TRUE
           old == groups[its].label
           fresh == [root |-> root, label |-> e.label, files |-> <<new>>, differs |-> FALSE]
           more == [root |-> root, files |-> Append(groups[its].files, new),
                    label |-> IF old = <<>> THEN e.label ELSE old,
                    differs |-> groups[its].differs
                                  \/ (e.label # <<>> /\ old # <<>> /\ old # e.label)]
<1>1. e.label \in Text /\ root \in Roots /\ new \in Named /\ <<new>> \in Seq(Named)
  BY EntryParts
<1>2. WithFile(groups, e) = IF known = {} THEN Append(groups, fresh) ELSE [groups EXCEPT ![its] = more]
  BY DEF WithFile
<1>3. fresh \in Group
  <2> HIDE DEF root, new
  <2> QED BY <1>1, GroupGiven
<1>4. CASE known = {}
  <2> HIDE DEF fresh, known
  <2> QED BY <1>2, <1>3, <1>4
<1>5. CASE known # {}
  <2>1. its \in DOMAIN groups
    BY <1>5
  <2> HIDE DEF its, root, new
  <2>2. groups[its] \in Group
    BY <2>1
  <2>3. old \in Text /\ groups[its].files \in Seq(Named) /\ groups[its].differs \in BOOLEAN
    BY <2>2, GroupParts
  <2>4. more \in Group
    <3>1. Append(groups[its].files, new) \in Seq(Named)
      BY <1>1, <2>3
    <3>2. (IF old = <<>> THEN e.label ELSE old) \in Text
      BY <1>1, <2>3
    <3>3. (groups[its].differs \/ (e.label # <<>> /\ old # <<>> /\ old # e.label)) \in BOOLEAN
      OBVIOUS
    <3> QED BY <1>1, <3>1, <3>2, <3>3 DEF Group
  <2> HIDE DEF more, fresh, known
  <2>5. [groups EXCEPT ![its] = more] \in Seq(Group)
    BY <2>1, <2>4
  <2> QED BY <1>2, <1>5, <2>5
<1> QED BY <1>4, <1>5

LEMMA GroupedStep ==
  /\ Grouped(<<>>) = <<>>
  /\ \A f \in Seq(Entry) : \A e \in Entry : Grouped(Append(f, e)) = WithFile(Grouped(f), e)
  /\ \A f \in Seq(Entry) : Grouped(f) \in Seq(Group)
<1> DEFINE S == Seq(Group)
           Next_(groups, f) == WithFile(groups, Last(f))
           Fix(g) == g = [f \in Seq(Entry) |-> IF f = <<>> THEN <<>> ELSE Next_(g[Front(f)], f)]
           step == [p \in S \X Seq(Entry) |-> IF p[2] = <<>> THEN p[1] ELSE Next_(p[1], p[2])]
<1>1. ASSUME NEW groups \in S, NEW f \in Seq(Entry), f # <<>> PROVE Next_(groups, f) \in S
  <2>1. Last(f) \in Entry
    BY <1>1, FrontLast
  <2> QED BY <2>1, WithFileGroups
<1> HIDE DEF Next_
<1>3. <<>> \in S
  OBVIOUS
<1> HIDE DEF S
<1>2. step \in [S \X Seq(Entry) -> S]
  BY <1>1
<1>4. PICK g \in [Seq(Entry) -> S] : FollowsSteps(g, Entry, <<>>, step)
  <2> HIDE DEF step
  <2> QED BY <1>2, <1>3, SequenceRecursion
<1>5. ASSUME NEW f \in Seq(Entry), f # <<>> PROVE g[f] = Next_(g[Front(f)], f)
  <2>1. Front(f) \in Seq(Entry)
    BY <1>5, FrontLast
  <2>2. g[f] = step[<<g[Front(f)], f>>]
    BY <1>4, <1>5 DEF FollowsSteps
  <2> QED BY <1>4, <1>5, <2>1, <2>2
<1>6. Fix(g)
  <2>1. g[<<>>] = <<>>
    BY <1>4 DEF FollowsSteps
  <2> QED BY <1>4, <1>5, <2>1
<1> DEFINE F == CHOOSE g_ : Fix(g_)
<1>7. Fix(F)
  <2> HIDE DEF Fix
  <2> QED BY <1>6
<1>8. \A f : Grouped(f) = F[f]
  BY DEF Grouped, Next_
<1> HIDE DEF F
<1>9. F[<<>>] = <<>> /\ \A f \in Seq(Entry) : f # <<>> => F[f] = Next_(F[Front(f)], f)
  <2>1. <<>> \in Seq(Entry)
    OBVIOUS
  <2>2. \A f \in Seq(Entry) : F[f] = IF f = <<>> THEN <<>> ELSE Next_(F[Front(f)], f)
    BY <1>7
  <2> QED BY <2>1, <2>2
<1>10. \A f \in Seq(Entry) : F[f] \in S
  <2> DEFINE Good == {f \in Seq(Entry) : F[f] \in S}
  <2>1. <<>> \in Good
    BY <1>3, <1>9
  <2>2. ASSUME NEW f \in Seq(Entry), NEW e \in Entry, f \in Good PROVE Append(f, e) \in Good
    <3>1. Append(f, e) \in Seq(Entry) /\ Append(f, e) # <<>> /\ Front(Append(f, e)) = f
      BY AppendFront
    <3>2. F[Append(f, e)] = Next_(F[f], Append(f, e))
      BY <1>9, <3>1
    <3> QED BY <1>1, <2>2, <3>1, <3>2
  <2> HIDE DEF Good
  <2>3. Seq(Entry) \subseteq Good
    BY <2>1, <2>2, SequenceInduction
  <2> QED BY <2>3 DEF Good
<1>11. \A f \in Seq(Entry) : \A e \in Entry : F[Append(f, e)] = WithFile(F[f], e)
  BY <1>9, AppendFront DEF Next_
<1> QED BY <1>8, <1>9, <1>10, <1>11 DEF S

(* Files of a root that has no group yet, all with one label, are a group.  *)
FilesOf(x) == [k \in DOMAIN x |-> [name |-> x[k].name, usage |-> x[k].usage]]
OneGroup(r, l, x) == [root |-> r, label |-> l, files |-> FilesOf(x), differs |-> FALSE]
AllOf(r, l, x) == \A k \in DOMAIN x : x[k].label = l /\ rootname(x[k].name) = r

LEMMA AnotherFile ==
  ASSUME NEW groups \in Seq(Group), NEW r, \A i \in DOMAIN groups : groups[i].root # r,
         NEW l, NEW x \in Seq(Entry), x # <<>>, NEW e \in Entry, e.label = l, rootname(e.name) = r
  PROVE  WithFile(Append(groups, OneGroup(r, l, x)), e) = Append(groups, OneGroup(r, l, Append(x, e)))
<1> DEFINE N == Len(groups)
           G == Append(groups, OneGroup(r, l, x))
           known == {i \in DOMAIN G : G[i].root = r}
           new == [name |-> e.name, usage |-> e.usage]
<1>1. /\ N \in Nat /\ DOMAIN groups = 1..N
      /\ DOMAIN G = 1..(N + 1) /\ G[N + 1] = OneGroup(r, l, x)
      /\ \A i \in 1..N : G[i] = groups[i]
  OBVIOUS
<1>2. OneGroup(r, l, x).root = r /\ OneGroup(r, l, x).label = l /\ OneGroup(r, l, x).files = FilesOf(x)
      /\ OneGroup(r, l, x).differs = FALSE
  BY DEF OneGroup
<1> HIDE DEF N, G
<1>3. known = {N + 1}
  BY <1>1, <1>2
<1>4. (CHOOSE i \in known : TRUE) = N + 1
  BY <1>3
<1> HIDE DEF known
<1>5. WithFile(G, e) =
        [G EXCEPT ![N + 1] =
           [root |-> r, files |-> Append(G[N + 1].files, new),
            label |-> IF G[N + 1].label = <<>> THEN e.label ELSE G[N + 1].label,
            differs |-> G[N + 1].differs
                          \/ (e.label # <<>> /\ G[N + 1].label # <<>> /\ G[N + 1].label # e.label)]]
  BY <1>3, <1>4 DEF WithFile, known
<1>6. Append(FilesOf(x), new) = FilesOf(Append(x, e))
  <2>1. Len(x) \in Nat /\ DOMAIN x = 1..Len(x) /\ DOMAIN Append(x, e) = 1..(Len(x) + 1)
        /\ Append(x, e)[Len(x) + 1] = e /\ \A k \in 1..Len(x) : Append(x, e)[k] = x[k]
    OBVIOUS
  <2>2. FilesOf(x) \in Seq(Named) /\ Len(FilesOf(x)) = Len(x)
    <3>1. \A k \in 1..Len(x) : [name |-> x[k].name, usage |-> x[k].usage] \in Named
      BY EntryParts
    <3>2. FilesOf(x) = [k \in 1..Len(x) |-> [name |-> x[k].name, usage |-> x[k].usage]]
      BY <2>1 DEF FilesOf
    <3> QED BY <2>1, <3>1, <3>2
  <2>3. new \in Named
    BY EntryParts
  <2>4. \A k \in 1..Len(x) : FilesOf(x)[k] = [name |-> x[k].name, usage |-> x[k].usage]
    BY <2>1 DEF FilesOf
  <2> HIDE DEF new
  <2>5. Append(FilesOf(x), new) =
          [k \in 1..(Len(x) + 1) |-> IF k <= Len(x) THEN FilesOf(x)[k] ELSE new]
    BY <2>2, AppendTo
  <2>6. \A k \in 1..(Len(x) + 1) :
          (IF k <= Len(x) THEN FilesOf(x)[k] ELSE new)
            = [name |-> Append(x, e)[k].name, usage |-> Append(x, e)[k].usage]
    BY <2>1, <2>4 DEF new
  <2> QED BY <2>1, <2>5, <2>6 DEF FilesOf
<1>7. WithFile(G, e) = [G EXCEPT ![N + 1] = OneGroup(r, l, Append(x, e))]
  <2>1. G[N + 1].files = FilesOf(x) /\ G[N + 1].label = l /\ G[N + 1].differs = FALSE
    BY <1>1, <1>2
  <2>2. (IF l = <<>> THEN e.label ELSE l) = l
    OBVIOUS
  <2>3. (FALSE \/ (e.label # <<>> /\ l # <<>> /\ l # e.label)) = FALSE
    OBVIOUS
  <2> HIDE DEF new
  <2> QED BY <1>5, <1>6, <2>1, <2>2, <2>3 DEF OneGroup
<1>8. [G EXCEPT ![N + 1] = OneGroup(r, l, Append(x, e))] = Append(groups, OneGroup(r, l, Append(x, e)))
  <2> DEFINE one == OneGroup(r, l, Append(x, e))
  <2>1. G = [i \in 1..(N + 1) |-> IF i <= N THEN groups[i] ELSE OneGroup(r, l, x)]
    BY AppendTo DEF G, N
  <2>2. Append(groups, one) = [i \in 1..(N + 1) |-> IF i <= N THEN groups[i] ELSE one]
    BY AppendTo DEF N
  <2> HIDE DEF one
  <2>3. [G EXCEPT ![N + 1] = one] = [i \in 1..(N + 1) |-> IF i = N + 1 THEN one ELSE G[i]]
    BY <1>1, <2>1
  <2>4. \A i \in 1..(N + 1) : (IF i = N + 1 THEN one ELSE G[i]) = IF i <= N THEN groups[i] ELSE one
    BY <1>1
  <2>5. [G EXCEPT ![N + 1] = one] = Append(groups, one)
    BY <2>2, <2>3, <2>4
  <2> QED BY <2>5 DEF one
<1> QED BY <1>7, <1>8 DEF G

-----------------------------------------------------------------------------
(* Groups grow by pages; and the parts of a file specification.             *)
LEMMA ConcatElements ==
  ASSUME NEW T, NEW s \in Seq(T), NEW t \in Seq(T)
  PROVE  /\ Len(s) \in Nat /\ Len(t) \in Nat /\ s \o t \in Seq(T) /\ Len(s \o t) = Len(s) + Len(t)
         /\ DOMAIN (s \o t) = 1..(Len(s) + Len(t))
         /\ \A i \in 1..Len(s) : (s \o t)[i] = s[i]
         /\ \A i \in 1..Len(t) : (s \o t)[Len(s) + i] = t[i]
<1>1. Len(s) \in Nat /\ Len(t) \in Nat /\ s \o t \in Seq(T) /\ Len(s \o t) = Len(s) + Len(t)
  OBVIOUS
<1>2. DOMAIN (s \o t) = 1..(Len(s) + Len(t))
  BY <1>1
<1>3. ASSUME NEW i \in 1..Len(t) PROVE (s \o t)[Len(s) + i] = t[i]
  <2>1. Len(s) + i \in 1..(Len(s) + Len(t)) /\ ~ (Len(s) + i <= Len(s)) /\ (Len(s) + i) - Len(s) = i
    BY <1>1
  <2> QED BY <1>1, <2>1
<1> QED BY <1>1, <1>2, <1>3

LEMMA ConcatAssociates ==
  ASSUME NEW T, NEW s \in Seq(T), NEW t \in Seq(T), NEW u \in Seq(T)
  PROVE  (s \o t) \o u = s \o (t \o u)
OBVIOUS

LEMMA FirstPart ==
  ASSUME NEW T, NEW s \in Seq(T), NEW t \in Seq(T)
  PROVE  SubSeq(s \o t, 1, Len(s)) = s
<1> DEFINE n == Len(s)
           m == n + Len(t)
           st == s \o t
<1>1. n \in Nat /\ m \in Nat /\ n <= m /\ st \in Seq(T) /\ Len(st) = m /\ \A i \in 1..n : st[i] = s[i]
  BY ConcatElements
<1>2. s \in Seq(T) /\ Len(s) = n
  OBVIOUS
<1> HIDE DEF n, m, st
<1>3. SubSeq(st, 1, n) = [i \in 1..n |-> st[i]]
  BY <1>1
<1>4. SubSeq(st, 1, n) \in Seq(T) /\ Len(SubSeq(st, 1, n)) = n /\ \A i \in 1..n : SubSeq(st, 1, n)[i] = s[i]
  BY <1>1, <1>3
<1>5. SubSeq(st, 1, n) = s
  BY <1>2, <1>4
<1> QED BY <1>5 DEF st, n

LEMMA SecondPart ==
  ASSUME NEW T, NEW s \in Seq(T), NEW t \in Seq(T)
  PROVE  SubSeq(s \o t, Len(s) + 1, Len(s) + Len(t)) = t
<1> DEFINE n == Len(s)
           k == Len(t)
           st == s \o t
<1>1. n \in Nat /\ k \in Nat /\ st \in Seq(T) /\ Len(st) = n + k /\ \A i \in 1..k : st[n + i] = t[i]
  BY ConcatElements
<1>2. t \in Seq(T) /\ Len(t) = k
  OBVIOUS
<1> HIDE DEF n, k, st
<1> DEFINE sub == SubSeq(st, n + 1, n + k)
<1>3. sub = [i \in 1..(1 + (n + k) - (n + 1)) |-> st[i + (n + 1) - 1]]
  BY <1>1
<1>4. 1 + (n + k) - (n + 1) = k /\ \A i \in 1..k : i + (n + 1) - 1 = n + i
  BY <1>1
<1>5. sub = [i \in 1..k |-> st[n + i]]
  BY <1>3, <1>4
<1>6. sub \in Seq(T) /\ Len(sub) = k /\ \A i \in 1..k : sub[i] = t[i]
  <2> HIDE DEF sub
  <2>1. \A i \in 1..k : st[n + i] \in T
    BY <1>1, <1>2
  <2>2. sub \in Seq(T)
    BY <1>1, <1>5, <2>1
  <2>3. Len(sub) = k
    BY <1>1, <1>5
  <2>4. \A i \in 1..k : sub[i] = t[i]
    BY <1>1, <1>5
  <2> QED BY <2>2, <2>3, <2>4
<1> HIDE DEF sub
<1>7. sub = t
  BY <1>2, <1>6
<1> QED BY <1>7 DEF sub, st, n, k

(* The files of a root without a group make one group, after the others.    *)
LEMMA GroupGrows ==
  ASSUME NEW f \in Seq(Entry), NEW r, \A i \in DOMAIN Grouped(f) : Grouped(f)[i].root # r, NEW l
  PROVE  \A x \in Seq(Entry) :
           x # <<>> /\ AllOf(r, l, x) => Grouped(f \o x) = Append(Grouped(f), OneGroup(r, l, x))
<1> DEFINE Good == {x \in Seq(Entry) : x # <<>> /\ AllOf(r, l, x) =>
                      Grouped(f \o x) = Append(Grouped(f), OneGroup(r, l, x))}
           groups == Grouped(f)
<1>1. groups \in Seq(Group)
  BY GroupedStep
<1>2. <<>> \in Good
  OBVIOUS
<1>3. ASSUME NEW x \in Seq(Entry), NEW e \in Entry, x \in Good PROVE Append(x, e) \in Good
  <2>1. Append(x, e) \in Seq(Entry) /\ f \o x \in Seq(Entry) /\ f \o Append(x, e) = Append(f \o x, e)
        /\ Len(x) \in Nat
    BY AppendFront, ConcatParts, ConcatAppend
  <2> SUFFICES ASSUME AllOf(r, l, Append(x, e))
               PROVE  Grouped(f \o Append(x, e)) = Append(groups, OneGroup(r, l, Append(x, e)))
    BY <2>1
  <2>2. DOMAIN Append(x, e) = 1..(Len(x) + 1) /\ Append(x, e)[Len(x) + 1] = e
        /\ DOMAIN x = 1..Len(x) /\ \A k \in 1..Len(x) : Append(x, e)[k] = x[k]
    BY AppendParts
  <2>3. e.label = l /\ rootname(e.name) = r /\ AllOf(r, l, x)
    BY <2>1, <2>2 DEF AllOf
  <2>4. Grouped(f \o Append(x, e)) = WithFile(Grouped(f \o x), e)
    BY <2>1, GroupedStep
  <2>5. CASE x = <<>>
    <3>1. f \o x = f
      BY <2>5
    <3> DEFINE known == {i \in DOMAIN groups : groups[i].root = rootname(e.name)}
    <3>2. known = {}
      BY <2>3
    <3>3. WithFile(groups, e) =
            Append(groups, [root |-> r, label |-> l,
                            files |-> <<[name |-> e.name, usage |-> e.usage]>>, differs |-> FALSE])
      BY <2>3, <3>2 DEF WithFile
    <3>4. FilesOf(Append(x, e)) = <<[name |-> e.name, usage |-> e.usage]>>
      <4>1. Append(x, e) = <<e>>
        BY <2>5
      <4> QED BY <4>1 DEF FilesOf
    <3> QED BY <2>4, <3>1, <3>3, <3>4 DEF OneGroup
  <2>6. CASE x # <<>>
    <3>1. Grouped(f \o x) = Append(groups, OneGroup(r, l, x))
      BY <1>3, <2>3, <2>6
    <3> HIDE DEF groups
    <3>2. WithFile(Append(groups, OneGroup(r, l, x)), e) = Append(groups, OneGroup(r, l, Append(x, e)))
      <4>1. \A i \in DOMAIN groups : groups[i].root # r
        BY DEF groups
      <4> QED BY <1>1, <2>3, <2>6, <4>1, AnotherFile
    <3> QED BY <2>4, <3>1, <3>2
  <2> QED BY <2>5, <2>6
<1> HIDE DEF Good
<1>4. Seq(Entry) \subseteq Good
  BY <1>2, <1>3, SequenceInduction
<1> QED BY <1>4 DEF Good, groups

LEMMA PlainRoot ==
  ASSUME NEW d \in Dirs, NEW r \in Token \ Dirs, NEW e \in Exts
  PROVE  rootname(<<d, r, e>>) = <<r>> /\ <<d, r, e>> \in Text
<1> DEFINE name == <<d, r, e>>
           dirs == {i \in DOMAIN name : name[i] \in Dirs}
<1>1. e \notin Dirs /\ d \in Token /\ e \in Token
  BY FileNameAssumption
<1>2. DOMAIN name = 1..3 /\ name[1] = d /\ name[2] = r /\ name[3] = e /\ Len(name) = 3 /\ name # <<>>
  OBVIOUS
<1>3. name \in Text
  BY <1>1 DEF Text
<1>4. Last(name) = e
  BY <1>2 DEF Last
<1> HIDE DEF name
<1>5. dirs = {1}
  BY <1>1, <1>2
<1>6. (CHOOSE i \in dirs : \A j \in dirs : j <= i) = 1
  BY <1>5
<1>7. rootname(name) = SubSeq(name, 2, 2)
  <2>1. rootname(name) = SubSeq(name, 1 + (CHOOSE i \in dirs : \A j \in dirs : j <= i), Len(name) - 1)
    BY <1>2, <1>4, <1>5 DEF rootname
  <2>2. 1 + 1 = 2 /\ 3 - 1 = 2
    OBVIOUS
  <2> QED BY <1>2, <1>6, <2>1, <2>2
<1>8. SubSeq(name, 2, 2) = <<r>>
  <2>3. SubSeq(name, 2, 2) \in Text /\ Len(SubSeq(name, 2, 2)) = 1
    BY <1>2, <1>3 DEF Text
  <2>4. SubSeq(name, 2, 2)[1] = r
    BY <1>2, <1>3 DEF Text
  <2> DEFINE sub == SubSeq(name, 2, 2)
  <2> HIDE DEF sub
  <2>5. sub \in Seq(Token) /\ Len(sub) = 1 /\ sub[1] = r
    BY <2>3, <2>4 DEF sub, Text
  <2>6. sub = <<r>>
    BY <2>5
  <2> QED BY <2>6 DEF sub
<1> QED BY <1>3, <1>7, <1>8 DEF name

(* A file specification with a label is read as it was written.             *)
SpecOf(file, l, t, n) ==
  /\ file.label = l /\ file.usage = t /\ file.name = n
  /\ l \in Text /\ l # <<>> /\ PlainName(l) /\ t \in UsageTags \cup {""}
  /\ n \in Text /\ n # <<>> /\ n[1] \notin UsageTags

LEMMA ParseSpec ==
  ASSUME NEW file, NEW l, NEW t, NEW n, SpecOf(file, l, t, n)
  PROVE  /\ spec(file) \in Text /\ spec(file) # <<>> /\ parse(spec(file)) = [label |-> l, usage |-> t, name |-> n]
         /\ Without(n, Semi) => Without(spec(file), Semi)
<1>0. /\ l \in Seq(Token) /\ n \in Seq(Token) /\ l # <<>>
      /\ \A i \in DOMAIN l : l[i] # Semi /\ l[i] # Colon
      /\ file.label = l /\ file.usage = t /\ file.name = n
      /\ t \in UsageTags \cup {""} /\ n # <<>> /\ n[1] \notin UsageTags
  BY DEF SpecOf, PlainName, Text
<1>a. l \in Seq(Token) /\ n \in Seq(Token)
  BY <1>0
<1> DEFINE tag == IF t # "" THEN <<t>> ELSE <<>>
           rest == tag \o n
           colon == <<Colon>>
           front == l \o colon
           text == front \o rest
           N == Len(l)
           M == Len(rest)
<1>1. tag \in Seq(Token) /\ colon \in Seq(Token) /\ t \in Token /\ Len(colon) = 1 /\ colon[1] = Colon
  <2>1. t \in Token
    BY <1>0, FileNameAssumption
  <2>2. <<>> \in Seq(Token) /\ <<t>> \in Seq(Token)
    BY <2>1
  <2>3. <<Colon>> \in Seq(Token)
    BY SeparatorsAreTokens
  <2> QED BY <2>1, <2>2, <2>3
<1>2. /\ t = "" => rest = n
      /\ t # "" => rest # <<>> /\ rest[1] = t /\ Tail(rest) = n
      /\ t # "" => \A i \in 1..Len(rest) : rest[i] = t \/ \E j \in 1..Len(n) : rest[i] = n[j]
  <2>1. CASE t = ""
    <3>1. rest = <<>> \o n
      BY <2>1
    <3>2. rest = n
      <4> HIDE DEF rest
      <4> QED BY <1>a, <3>1
    <3> QED BY <2>1, <3>2
  <2>2. CASE t # ""
    <3>1. rest = <<t>> \o n /\ <<t>> \in Seq(Token) /\ n \in Seq(Token)
      <4>1. tag = <<t>>
        BY <2>2
      <4> HIDE DEF tag
      <4> QED BY <1>0, <1>1, <4>1
    <3> HIDE DEF rest
    <3>2. Len(rest) = 1 + Len(n) /\ Len(n) \in Nat /\ rest[1] = t /\ rest \in Seq(Token)
          /\ \A j \in 1..Len(n) : rest[1 + j] = n[j]
      <4>1. Len(<<t>>) = 1 /\ <<t>>[1] = t
        OBVIOUS
      <4> QED BY <3>1, <4>1, ConcatElements
    <3>3. rest # <<>>
      BY <3>2
    <3>4. Tail(rest) = n
      <4>1. Tail(rest) = Tail(<<t>> \o n)
        BY <3>1
      <4> QED BY <3>1, <4>1
    <3>5. ASSUME NEW i \in 1..Len(rest), rest[i] # t PROVE \E j \in 1..Len(n) : rest[i] = n[j]
      <4>1. i # 1
        BY <3>2, <3>5
      <4>2. i - 1 \in 1..Len(n) /\ 1 + (i - 1) = i
        BY <3>2, <4>1
      <4>3. rest[1 + (i - 1)] = n[i - 1]
        BY <3>2, <4>2
      <4> QED BY <4>2, <4>3
    <3> QED BY <2>2, <3>2, <3>3, <3>4, <3>5
  <2> QED BY <2>1, <2>2
<1>3. rest \in Seq(Token)
  <2> HIDE DEF tag
  <2> QED BY <1>0, <1>1, ConcatParts
<1>4. spec(file) = text
  <2>1. spec(file) = (front \o tag) \o n
    BY <1>0 DEF spec
  <2> HIDE DEF tag, colon
  <2>2. front \in Seq(Token)
    BY <1>0, <1>1, ConcatParts
  <2> HIDE DEF front
  <2> QED BY <1>a, <1>1, <2>1, <2>2, ConcatAssociates
<1> HIDE DEF rest, tag, colon
<1>5. text = l \o (colon \o rest)
  BY <1>a, <1>1, <1>3, ConcatAssociates
<1>6. /\ N \in Nat /\ M \in Nat /\ front \in Seq(Token) /\ Len(front) = N + 1
      /\ \A i \in 1..N : front[i] = l[i]
      /\ front[N + 1] = Colon
  <2>1. /\ N \in Nat /\ front \in Seq(Token) /\ Len(front) = N + 1
        /\ \A i \in 1..N : front[i] = l[i]
        /\ \A i \in 1..1 : front[N + i] = colon[i]
    <3>1. colon \in Seq(Token) /\ Len(colon) = 1
      BY <1>1
    <3> HIDE DEF N, M, text
    <3>2. Len(l) \in Nat /\ l \o colon \in Seq(Token) /\ Len(l \o colon) = Len(l) + Len(colon)
      BY <1>a, <3>1, ConcatElements
    <3>4. \A i \in 1..Len(l) : (l \o colon)[i] = l[i]
      BY <1>a, <3>1, ConcatElements
    <3>5. \A i \in 1..Len(colon) : (l \o colon)[Len(l) + i] = colon[i]
      <4>1. colon \in Seq(Token)
        BY <1>1
      <4> QED BY <1>a, <4>1, ConcatElements
    <3>3. /\ front \in Seq(Token) /\ Len(front) = Len(l) + Len(colon) /\ Len(l) \in Nat
          /\ \A i \in 1..Len(l) : front[i] = l[i]
          /\ \A i \in 1..Len(colon) : front[Len(l) + i] = colon[i]
      BY <3>2, <3>4, <3>5
    <3> HIDE DEF front
    <3> QED BY <3>1, <3>3 DEF N
  <2>2. M \in Nat
    BY <1>3
  <2> QED BY <1>1, <2>1, <2>2
<1> HIDE DEF front, N, M
<1>7. /\ text \in Seq(Token) /\ Len(text) = N + 1 + M /\ DOMAIN text = 1..(N + 1 + M)
      /\ \A i \in 1..(N + 1) : text[i] = front[i]
      /\ \A i \in 1..M : text[N + 1 + i] = rest[i]
  <2>1. front \in Seq(Token) /\ Len(front) = N + 1 /\ N + 1 \in Nat
    BY <1>6
  <2>3. front \o rest \in Seq(Token) /\ Len(front \o rest) = Len(front) + Len(rest)
    BY <1>3, <2>1, ConcatElements
  <2>4. DOMAIN (front \o rest) = 1..(Len(front) + Len(rest))
    BY <1>3, <2>1, ConcatElements
  <2>5. \A i \in 1..Len(front) : (front \o rest)[i] = front[i]
    BY <1>3, <2>1, ConcatElements
  <2>6. \A i \in 1..Len(rest) : (front \o rest)[Len(front) + i] = rest[i]
    BY <1>3, <2>1, ConcatElements
  <2>2. /\ text \in Seq(Token) /\ Len(text) = Len(front) + Len(rest)
        /\ DOMAIN text = 1..(Len(front) + Len(rest))
        /\ \A i \in 1..Len(front) : text[i] = front[i]
        /\ \A i \in 1..Len(rest) : text[Len(front) + i] = rest[i]
    BY <2>3, <2>4, <2>5, <2>6
  <2> HIDE DEF text
  <2> QED BY <2>1, <2>2 DEF M
<1>8. SubSeq(text, 1, N) = l /\ SubSeq(text, N + 2, N + 1 + M) = rest
  <2>1. colon \o rest \in Seq(Token)
    BY <1>1, <1>3, ConcatParts
  <2>2. SubSeq(l \o (colon \o rest), 1, N) = l
    BY <1>0, <2>1, FirstPart DEF N
  <2>3. SubSeq(front \o rest, (N + 1) + 1, (N + 1) + M) = rest
    BY <1>3, <1>6, SecondPart DEF M
  <2>4. (N + 1) + 1 = N + 2 /\ (N + 1) + M = N + 1 + M
    BY <1>6
  <2> HIDE DEF text
  <2>5. text = front \o rest
    BY DEF text
  <2> QED BY <1>5, <2>2, <2>3, <2>4, <2>5
<1> DEFINE colons == {i \in DOMAIN text : text[i] = Colon}
           first == CHOOSE i \in colons : \A j \in colons : i <= j
<1> HIDE DEF text
<1>9. \A i \in 1..N : text[i] = l[i] /\ l[i] # Colon /\ l[i] # Semi
  <2>1. \A i \in 1..N : i \in 1..(N + 1)
    BY <1>6
  <2>2. DOMAIN l = 1..N
    BY <1>a DEF N
  <2> QED BY <1>0, <1>6, <1>7, <2>1, <2>2
<1>10. text[N + 1] = Colon
  <2>1. N + 1 \in 1..(N + 1)
    BY <1>6
  <2> QED BY <1>6, <1>7, <2>1
<1>11. first = N + 1 /\ colons # {}
  <2>1. N + 1 \in colons
    BY <1>6, <1>7, <1>10
  <2>2. \A j \in colons : N + 1 <= j /\ j \in Nat
    <3> SUFFICES ASSUME NEW j \in 1..(N + 1 + M), text[j] = Colon PROVE N + 1 <= j /\ j \in Nat
      BY <1>7
    <3>1. j \notin 1..N
      BY <1>9
    <3> QED BY <1>6, <3>1
  <2> HIDE DEF colons
  <2>3. \A i \in colons : (\A j \in colons : i <= j) => i = N + 1
    BY <1>6, <2>1, <2>2
  <2> QED BY <2>1, <2>2, <2>3
<1>12. parse_label(text) = [label |-> l, rest |-> rest]
  <2>1. parse_label(text) = [label |-> SubSeq(text, 1, first - 1),
                             rest |-> SubSeq(text, first + 1, Len(text))]
    BY <1>11 DEF parse_label
  <2> HIDE DEF first, colons
  <2>2. first - 1 = N /\ first + 1 = N + 2
    BY <1>6, <1>11
  <2> QED BY <1>7, <1>8, <2>1, <2>2
<1>13. parse_usage_tag(rest) = [usage |-> t, rest |-> n]
  <2>1. CASE t = ""
    BY <1>0, <1>2, <2>1 DEF parse_usage_tag
  <2>2. CASE t # ""
    BY <1>0, <1>2, <2>2 DEF parse_usage_tag
  <2> QED BY <2>1, <2>2
<1>14. parse(text) = [label |-> l, usage |-> t, name |-> n]
  <2> DEFINE named == parse_label(text)
             tagged == parse_usage_tag(named.rest)
  <2>1. named.label = l /\ named.rest = rest
    BY <1>12
  <2> HIDE DEF named
  <2>2. tagged.usage = t /\ tagged.rest = n
    BY <1>13, <2>1
  <2>3. parse(text) = [label |-> named.label, usage |-> tagged.usage, name |-> tagged.rest]
    BY DEF parse, named
  <2> HIDE DEF tagged
  <2> QED BY <2>1, <2>2, <2>3
<1>15. ASSUME Without(n, Semi) PROVE Without(text, Semi)
  <2>1. \A i \in 1..M : rest[i] # Semi
    <3>1. DOMAIN n = 1..Len(n)
      BY <1>a
    <3>2. \A j \in 1..Len(n) : n[j] # Semi
      BY <1>15, <3>1 DEF Without
    <3>3. t # Semi
      BY <1>0, FileNameAssumption
    <3> QED BY <1>2, <3>2, <3>3 DEF M
  <2>2. Colon # Semi
    BY SeparatorsDiffer
  <2>3. ASSUME NEW i \in 1..(N + 1 + M) PROVE text[i] # Semi
    <3>1. CASE i \in 1..N
      BY <1>9, <3>1
    <3>2. CASE i = N + 1
      BY <1>10, <2>2, <3>2
    <3>3. CASE i \notin 1..N /\ i # N + 1
      <4>1. i - (N + 1) \in 1..M /\ N + 1 + (i - (N + 1)) = i
        BY <1>6, <3>3
      <4>2. text[N + 1 + (i - (N + 1))] = rest[i - (N + 1)]
        BY <1>7, <4>1
      <4> QED BY <2>1, <4>1, <4>2
    <3> QED BY <3>1, <3>2, <3>3
  <2> QED BY <1>7, <2>3 DEF Without
<1>16. text # <<>>
  <2>1. text \in Seq(Token) /\ Len(text) = N + 1 + M
    BY <1>7
  <2>2. N + 1 + M # 0
    BY <1>6
  <2> QED BY <2>1, <2>2
<1> QED BY <1>4, <1>7, <1>14, <1>15, <1>16 DEF Text

-----------------------------------------------------------------------------
(* Those(): what is chosen at one position stays, and nothing is lost.      *)
Selects(f, s, S, T) == f \in [0..Len(s) -> Seq(T \cap S)] /\ Chosen(f, s, S)

LEMMA ChosenStays ==
  ASSUME NEW T, NEW s \in Seq(T), NEW S, NEW f, Selects(f, s, S, T),
         NEW n \in 0..Len(s)
  PROVE  \A m \in n..Len(s) :
           Len(f[n]) <= Len(f[m]) /\ \A k \in 1..Len(f[n]) : f[m][k] = f[n][k]
<1>0. f \in [0..Len(s) -> Seq(T \cap S)] /\ Chosen(f, s, S)
  BY DEF Selects
<1> DEFINE N == Len(s)
           Stays(m) == Len(f[n]) <= Len(f[m]) /\ \A k \in 1..Len(f[n]) : f[m][k] = f[n][k]
           Good == {d \in Nat : n + d <= N => Stays(n + d)}
<1>1. N \in Nat /\ n \in Nat /\ \A m \in 1..N : s[m] \in T
  OBVIOUS
<1>2. \A m \in 0..N : f[m] \in Seq(T \cap S) /\ Len(f[m]) \in Nat
  BY <1>0
<1>3. \A m \in 1..N : f[m] = IF s[m] \in S THEN Append(f[m - 1], s[m]) ELSE f[m - 1]
  BY <1>0 DEF Chosen
<1>4. f \in [0..N -> Seq(T \cap S)] /\ n \in 0..N
  BY <1>0
<1> HIDE DEF N
<1>5. 0 \in Good
  <2>1. n + 0 = n /\ n <= n
    BY <1>1
  <2>2. Len(f[n]) \in Nat
    BY <1>2, <1>4
  <2> QED BY <2>1, <2>2
<1>6. ASSUME NEW d \in Nat, d \in Good PROVE d + 1 \in Good
  <2> SUFFICES ASSUME n + (d + 1) <= N PROVE Stays(n + (d + 1))
    OBVIOUS
  <2> DEFINE m == n + d
  <2>1. m + 1 \in 1..N /\ m \in 0..N /\ (m + 1) - 1 = m /\ n + (d + 1) = m + 1
    BY <1>1
  <2>2. Stays(m)
    BY <1>1, <1>6, <2>1
  <2> HIDE DEF m
  <2>3. CASE s[m + 1] \notin S
    <3>1. f[m + 1] = f[m]
      BY <1>3, <2>1, <2>3
    <3> QED BY <2>1, <2>2, <3>1
  <2>4. CASE s[m + 1] \in S
    <3>1. f[m + 1] = Append(f[m], s[m + 1]) /\ s[m + 1] \in T \cap S
      BY <1>1, <1>3, <2>1, <2>4
    <3>2. f[m] \in Seq(T \cap S)
      BY <1>2, <2>1
    <3>3. Len(f[m + 1]) = Len(f[m]) + 1 /\ \A k \in 1..Len(f[m]) : f[m + 1][k] = f[m][k]
      BY <3>1, <3>2
    <3>4. Len(f[n]) \in Nat /\ Len(f[m]) \in Nat
      BY <1>2, <1>4, <2>1
    <3>5. Len(f[n]) <= Len(f[m]) /\ \A k \in 1..Len(f[n]) : f[m][k] = f[n][k]
      BY <2>2
    <3>6. Len(f[n]) <= Len(f[m + 1])
      BY <3>3, <3>4, <3>5
    <3>7. ASSUME NEW k \in 1..Len(f[n]) PROVE f[m + 1][k] = f[n][k]
      <4>1. k \in 1..Len(f[m])
        BY <3>4, <3>5
      <4> QED BY <3>3, <3>5, <4>1
    <3> QED BY <2>1, <3>6, <3>7
  <2> QED BY <2>3, <2>4
<1> HIDE DEF Good
<1>7. Nat \subseteq Good
  BY <1>5, <1>6, NumberInduction
<1> SUFFICES ASSUME NEW m \in n..N PROVE Stays(m)
  BY DEF N
<1>8. m - n \in Nat /\ n + (m - n) = m /\ m <= N
  BY <1>1
<1> QED BY <1>7, <1>8 DEF Good

(* A chosen element is at the end of what has been chosen with it.          *)
AtItsEnd(f, s, S, T, n) ==
  /\ f[n] = Append(f[n - 1], s[n]) /\ f[n - 1] \in Seq(T \cap S) /\ s[n] \in T \cap S
  /\ Len(f[n - 1]) + 1 \in DOMAIN f[Len(s)] /\ f[Len(s)][Len(f[n - 1]) + 1] = s[n]
  /\ \A k \in DOMAIN f[n - 1] :
       /\ k \in DOMAIN f[Len(s)] /\ k # Len(f[n - 1]) + 1
       /\ f[Len(s)][k] = f[n - 1][k]

LEMMA ChosenHere ==
  ASSUME NEW T, NEW s \in Seq(T), NEW S, NEW f, Selects(f, s, S, T),
         NEW n \in 1..Len(s), s[n] \in S
  PROVE  AtItsEnd(f, s, S, T, n)
<1>0. f \in [0..Len(s) -> Seq(T \cap S)] /\ Chosen(f, s, S)
  BY DEF Selects
<1> DEFINE N == Len(s)
           last == f[N]
           before == f[n - 1]
           at == Len(before) + 1
<1>1. N \in Nat /\ n \in 1..N /\ n - 1 \in 0..N /\ n \in 0..N /\ N \in n..N /\ s[n] \in T
  OBVIOUS
<1>2. f[n] = Append(before, s[n])
  BY <1>0 DEF Chosen
<1>3. before \in Seq(T \cap S) /\ last \in Seq(T \cap S) /\ s[n] \in T \cap S
  BY <1>0, <1>1
<1>4. Len(f[n]) <= Len(last) /\ \A k \in 1..Len(f[n]) : last[k] = f[n][k]
  <2>1. \A m \in n..Len(s) :
          Len(f[n]) <= Len(f[m]) /\ \A k \in 1..Len(f[n]) : f[m][k] = f[n][k]
    <3>1. n \in 0..Len(s)
      BY <1>1
    <3> HIDE DEF N, last, before, at
    <3> QED BY <3>1, ChosenStays
  <2> QED BY <1>1, <2>1
<1> HIDE DEF last, before
<1>5. /\ Len(before) \in Nat /\ DOMAIN before = 1..Len(before) /\ Len(f[n]) = at
      /\ f[n][at] = s[n] /\ \A k \in 1..Len(before) : f[n][k] = before[k]
  BY <1>2, <1>3, AppendParts
<1>6. DOMAIN last = 1..Len(last) /\ Len(last) \in Nat
  BY <1>3
<1>7. at \in DOMAIN last /\ last[at] = s[n]
  BY <1>4, <1>5, <1>6
<1>8. \A k \in DOMAIN before : k \in DOMAIN last /\ k # at /\ last[k] = before[k]
  BY <1>4, <1>5, <1>6
<1> QED BY <1>2, <1>3, <1>7, <1>8 DEF last, before, AtItsEnd

(* The entries of the chosen pages, one page after another, become a group  *)
(* for each page.                                                           *)
EntriesOf(X, T, S) == X \in [T -> Seq(Entry)] /\ \A p \in T : X[p] = <<>> <=> p \notin S

Collected(h, s, X) ==
  /\ h \in [0..Len(s) -> Seq(Entry)] /\ h[0] = <<>>
  /\ \A n \in 1..Len(s) : h[n] = h[n - 1] \o X[s[n]]

Ordered(pages, R, L, X) ==
  /\ \A k \in DOMAIN pages : AllOf(R[pages[k]], L[pages[k]], X[pages[k]])
  /\ \A j, k \in DOMAIN pages : j # k => R[pages[j]] # R[pages[k]]

GroupsFor(pages, R, L, X) == [k \in DOMAIN pages |-> OneGroup(R[pages[k]], L[pages[k]], X[pages[k]])]

LEMMA OneMoreGroup ==
  ASSUME NEW T, NEW pages \in Seq(T), NEW p \in T, NEW R, NEW L, NEW X,
         GroupsFor(pages, R, L, X) \in Seq(Group)
  PROVE  GroupsFor(Append(pages, p), R, L, X)
           = Append(GroupsFor(pages, R, L, X), OneGroup(R[p], L[p], X[p]))
<1> DEFINE M(q) == OneGroup(R[q], L[q], X[q])
           n == Len(pages)
           more == Append(pages, p)
           groups == GroupsFor(pages, R, L, X)
<1>1. /\ n \in Nat /\ DOMAIN pages = 1..n /\ DOMAIN more = 1..(n + 1)
      /\ more[n + 1] = p /\ \A k \in 1..n : more[k] = pages[k]
  BY AppendParts
<1> HIDE DEF M, n, more
<1>2. groups = [k \in 1..n |-> M(pages[k])] /\ GroupsFor(more, R, L, X) = [k \in 1..(n + 1) |-> M(more[k])]
  BY <1>1 DEF GroupsFor, M
<1> HIDE DEF groups
<1>3. Len(groups) = n
  BY <1>1, <1>2
<1>4. groups \in Seq(Group)
  BY DEF groups
<1>5. Append(groups, M(p)) = [k \in 1..(n + 1) |-> IF k <= n THEN groups[k] ELSE M(p)]
  BY <1>3, <1>4, AppendTo
<1>6. \A k \in 1..(n + 1) : M(more[k]) = IF k <= n THEN groups[k] ELSE M(p)
  BY <1>1, <1>2
<1>7. GroupsFor(more, R, L, X) = Append(groups, M(p))
  BY <1>2, <1>5, <1>6
<1> QED BY <1>7 DEF groups, more, M

LEMMA GroupsOfPages ==
  ASSUME NEW T, NEW s \in Seq(T), NEW S, NEW f, Selects(f, s, S, T),
         NEW X, EntriesOf(X, T, S), NEW h, Collected(h, s, X),
         NEW R, NEW L, Ordered(f[Len(s)], R, L, X)
  PROVE  Grouped(h[Len(s)]) = GroupsFor(f[Len(s)], R, L, X)
<1>0. f \in [0..Len(s) -> Seq(T \cap S)] /\ Chosen(f, s, S)
  BY DEF Selects
<1>a. X \in [T -> Seq(Entry)] /\ \A p \in T : X[p] = <<>> <=> p \notin S
  BY DEF EntriesOf
<1>b. /\ h \in [0..Len(s) -> Seq(Entry)] /\ h[0] = <<>>
      /\ \A n \in 1..Len(s) : h[n] = h[n - 1] \o X[s[n]]
  BY DEF Collected
<1> DEFINE N == Len(s)
           last == f[N]
           Good == {n \in Nat : n <= N => Grouped(h[n]) = GroupsFor(f[n], R, L, X)}
<1>1. N \in Nat /\ \A m \in 1..N : s[m] \in T
  OBVIOUS
<1>2. f[0] = <<>> /\ h[0] = <<>>
  BY <1>0, <1>b DEF Chosen
<1>3. 0 \in Good
  <2>1. Grouped(<<>>) = <<>>
    BY GroupedStep
  <2>2. GroupsFor(<<>>, R, L, X) = <<>>
    BY DEF GroupsFor
  <2> QED BY <1>2, <2>1, <2>2
<1>4. ASSUME NEW n \in Nat, n \in Good PROVE n + 1 \in Good
  <2> SUFFICES ASSUME n + 1 <= N PROVE Grouped(h[n + 1]) = GroupsFor(f[n + 1], R, L, X)
    OBVIOUS
  <2> DEFINE m == n + 1
             p == s[m]
  <2>1. m \in 1..N /\ m - 1 = n /\ n \in 0..N /\ p \in T /\ m \in 1..Len(s)
    BY <1>1
  <2>2. Grouped(h[n]) = GroupsFor(f[n], R, L, X)
    BY <1>4, <2>1
  <2> HIDE DEF m
  <2>3. h[m] = h[n] \o X[p] /\ h[n] \in Seq(Entry) /\ X[p] \in Seq(Entry) /\ f[n] \in Seq(T \cap S)
    BY <1>0, <1>a, <1>b, <2>1
  <2>4. CASE p \notin S
    <3>1. f[m] = f[n]
      BY <1>0, <2>1, <2>4 DEF Chosen
    <3>2. X[p] = <<>>
      BY <1>a, <2>1, <2>4
    <3>3. h[m] = h[n]
      <4> HIDE DEF p, N
      <4> QED BY <2>3, <3>2
    <3> QED BY <2>2, <3>1, <3>3 DEF m
  <2>5. CASE p \in S
    <3> DEFINE at == Len(f[n]) + 1
    <3>0. AtItsEnd(f, s, S, T, m)
      <4>1. m \in 1..Len(s) /\ s[m] \in S
        BY <2>1, <2>5
      <4> HIDE DEF N, last, p, at
      <4> QED BY <4>1, ChosenHere
    <3>1. f[m] = Append(f[n], p) /\ p \in T \cap S
      BY <2>1, <3>0 DEF AtItsEnd
    <3>2. /\ at \in DOMAIN last /\ last[at] = p
          /\ \A k \in DOMAIN f[n] : k \in DOMAIN last /\ k # at /\ last[k] = f[n][k]
      BY <2>1, <3>0 DEF AtItsEnd
    <3>3. X[p] # <<>>
      BY <1>a, <2>1, <2>5
    <3>4. AllOf(R[p], L[p], X[p]) /\ \A k \in DOMAIN f[n] : R[f[n][k]] # R[p]
      <4>1. Ordered(last, R, L, X)
        OBVIOUS
      <4> HIDE DEF last, p, at
      <4> QED BY <3>2, <4>1 DEF Ordered
    <3> HIDE DEF p, N, at
    <3>5. Grouped(h[n]) \in Seq(Group)
      BY <2>3, GroupedStep
    <3>6. \A i \in DOMAIN Grouped(h[n]) : Grouped(h[n])[i].root # R[p]
      <4> SUFFICES ASSUME NEW i \in DOMAIN f[n] PROVE GroupsFor(f[n], R, L, X)[i].root # R[p]
        BY <2>2 DEF GroupsFor
      <4>1. GroupsFor(f[n], R, L, X)[i].root = R[f[n][i]]
        BY DEF GroupsFor, OneGroup
      <4> QED BY <3>4, <4>1
    <3>7. Grouped(h[n] \o X[p]) = Append(Grouped(h[n]), OneGroup(R[p], L[p], X[p]))
      <4>1. \A x \in Seq(Entry) : x # <<>> /\ AllOf(R[p], L[p], x) =>
              Grouped(h[n] \o x) = Append(Grouped(h[n]), OneGroup(R[p], L[p], x))
        BY <2>3, <3>6, GroupGrows
      <4> QED BY <2>3, <3>3, <3>4, <4>1
    <3>8. GroupsFor(Append(f[n], p), R, L, X)
            = Append(GroupsFor(f[n], R, L, X), OneGroup(R[p], L[p], X[p]))
      <4>1. f[n] \in Seq(T) /\ p \in T /\ GroupsFor(f[n], R, L, X) \in Seq(Group)
        BY <2>2, <2>3, <3>1, <3>5
      <4> QED BY <4>1, OneMoreGroup
    <3> QED BY <2>2, <2>3, <3>1, <3>7, <3>8 DEF m
  <2> QED BY <2>4, <2>5
<1> HIDE DEF Good
<1>5. Nat \subseteq Good
  BY <1>3, <1>4, NumberInduction
<1> QED BY <1>1, <1>5 DEF Good

-----------------------------------------------------------------------------
(* What is read of a file specification, and of a list of them.             *)
Want(y) == [label |-> y.label, usage |-> y.usage, name |-> y.name]
Listed(A) == [k \in DOMAIN A |-> Want(A[k])]
Legible(y) ==
  spec(y) \in Text /\ spec(y) # <<>> /\ Without(spec(y), Semi) /\ parse(spec(y)) = Want(y)

LEMMA ListedConcat ==
  ASSUME NEW R, NEW a \in Seq(R), NEW b \in Seq(R), \A y \in R : Want(y) \in Entry
  PROVE  Listed(a \o b) = Listed(a) \o Listed(b) /\ Listed(a) \in Seq(Entry)
<1> DEFINE m == Len(a)
           n == Len(b)
           ab == a \o b
           la == Listed(a)
           lb == Listed(b)
<1>1. m \in Nat /\ n \in Nat /\ ab \in Seq(R) /\ Len(ab) = m + n
  BY ConcatElements
<1>2. \A i \in 1..m : ab[i] = a[i]
  BY ConcatElements
<1>3. \A i \in 1..n : ab[m + i] = b[i]
  BY ConcatElements
<1>4. DOMAIN a = 1..m /\ DOMAIN b = 1..n /\ DOMAIN ab = 1..(m + n)
  BY <1>1
<1>5. (\A i \in 1..m : a[i] \in R) /\ (\A i \in 1..n : b[i] \in R)
  OBVIOUS
<1> HIDE DEF m, n, ab
<1>6. la = [i \in 1..m |-> Want(a[i])] /\ lb = [i \in 1..n |-> Want(b[i])]
      /\ Listed(ab) = [i \in 1..(m + n) |-> Want(ab[i])]
  BY <1>4 DEF Listed
<1> HIDE DEF la, lb
<1>7. la \in Seq(Entry) /\ Len(la) = m /\ lb \in Seq(Entry) /\ Len(lb) = n
  <2>1. (\A i \in 1..m : Want(a[i]) \in Entry) /\ (\A i \in 1..n : Want(b[i]) \in Entry)
    BY <1>5
  <2>2. la \in Seq(Entry) /\ Len(la) = m
    BY <1>1, <1>6, <2>1
  <2>3. lb \in Seq(Entry) /\ Len(lb) = n
    BY <1>1, <1>6, <2>1
  <2> QED BY <2>2, <2>3
<1> DEFINE lab == la \o lb
<1>8. lab \in Seq(Entry) /\ Len(lab) = m + n
  BY <1>7, ConcatParts
<1>9. \A i \in 1..m : lab[i] = la[i]
  <2>1. \A i \in 1..Len(la) : lab[i] = la[i]
    BY <1>7, ConcatElements
  <2> HIDE DEF lab
  <2> QED BY <1>7, <2>1
<1>10. \A i \in 1..n : lab[m + i] = lb[i]
  <2>1. \A i \in 1..Len(lb) : lab[Len(la) + i] = lb[i]
    <3>1. la \in Seq(Entry) /\ lb \in Seq(Entry)
      BY <1>7
    <3> QED BY <3>1, ConcatElements
  <2> HIDE DEF lab
  <2> QED BY <1>7, <2>1
<1> HIDE DEF lab
<1>11. ASSUME NEW i \in 1..(m + n) PROVE lab[i] = Want(ab[i])
  <2>1. CASE i \in 1..m
    BY <1>2, <1>6, <1>9, <2>1
  <2>2. CASE i \notin 1..m
    <3>1. i - m \in 1..n /\ m + (i - m) = i
      BY <1>1, <2>2
    <3>2. lab[m + (i - m)] = lb[i - m] /\ ab[m + (i - m)] = b[i - m]
      BY <1>3, <1>10, <3>1
    <3> QED BY <1>6, <3>1, <3>2
  <2> QED BY <2>1, <2>2
<1>12. lab = [i \in 1..(m + n) |-> Want(ab[i])]
  <2>1. lab = [i \in 1..(m + n) |-> lab[i]]
    BY <1>1, <1>8
  <2> QED BY <1>11, <2>1
<1> QED BY <1>6, <1>7, <1>12 DEF lab, la, lb, ab

(* A cell of legible files is read as they were written.                    *)
LEMMA CellRead ==
  ASSUME NEW R, NEW A \in Seq(R), \A y \in R : Legible(y)
  PROVE  /\ A = <<>> <=> FilesCell(A) = <<>>
         /\ A # <<>> => LET entries == Split(FilesCell(A), Semi)
                        IN  [k \in DOMAIN entries |-> parse(entries[k])] = Listed(A)
<1> DEFINE specs == [k \in DOMAIN A |-> spec(A[k])]
           cell == JoinWith(specs, Semi)
<1>1. Len(A) \in Nat /\ DOMAIN A = 1..Len(A) /\ \A k \in 1..Len(A) : A[k] \in R
  OBVIOUS
<1>2. \A k \in 1..Len(A) : spec(A[k]) \in Text /\ spec(A[k]) # <<>> /\ Without(spec(A[k]), Semi)
                            /\ parse(spec(A[k])) = Want(A[k])
  BY <1>1 DEF Legible
<1>3. DOMAIN specs = 1..Len(A) /\ \A k \in 1..Len(A) : specs[k] = spec(A[k])
  BY <1>1
<1> HIDE DEF specs
<1>4. specs \in Seq(Text) /\ Len(specs) = Len(A)
  <2>1. specs = [k \in 1..Len(A) |-> spec(A[k])]
    BY <1>1 DEF specs
  <2> QED BY <1>1, <1>2, <2>1
<1>5. FilesCell(A) = cell
  BY DEF FilesCell, specs
<1>6. Semi \in Token
  BY SeparatorsAreTokens
<1>7. CASE A = <<>>
  <2>1. specs = <<>>
    BY <1>4, <1>7
  <2>2. JoinWith(<<>>, Semi) = <<>>
    BY <1>6, JoinStep, Zenon
  <2> QED BY <1>5, <1>7, <2>1, <2>2
<1>8. CASE A # <<>>
  <2>1. specs # <<>> /\ 1 \in 1..Len(A)
    BY <1>1, <1>4, <1>8
  <2>2. \A k \in DOMAIN specs : Without(specs[k], Semi)
    BY <1>2, <1>3
  <2>3. Pieces(cell, Semi, {}) = specs
    <3>1. \A p \in Seq(Text) :
            p # <<>> /\ (\A k \in DOMAIN p : Without(p[k], Semi) /\ (\A g \in {} : Without(p[k], g)))
              => Pieces(JoinWith(p, Semi), Semi, {}) = p
      <4>1. Semi \notin {}
        OBVIOUS
      <4> QED BY <1>6, <4>1, SplitOfJoin
    <3> QED BY <1>4, <2>1, <2>2, <3>1
  <2>4. cell # <<>>
    <3>1. ASSUME cell = <<>> PROVE FALSE
      <4>1. Pieces(<<>>, Semi, {}) = << <<>> >>
        BY <1>6, PiecesStep
      <4>2. specs = << <<>> >>
        BY <2>3, <3>1, <4>1
      <4>3. specs[1] = <<>>
        BY <4>2
      <4> QED BY <1>2, <1>3, <2>1, <4>3
    <3> QED BY <3>1
  <2>5. Split(cell, Semi) = specs
    BY <2>3 DEF Split
  <2>6. [k \in DOMAIN specs |-> parse(specs[k])] = Listed(A)
    BY <1>1, <1>2, <1>3 DEF Listed
  <2> QED BY <1>5, <1>8, <2>4, <2>5, <2>6
<1> QED BY <1>7, <1>8

LEMMA GroupsRead ==
  ASSUME NEW S, NEW A \in Seq(S), \A y \in S : Legible(y),
         NEW pages, NEW R, NEW L, NEW X, Grouped(Listed(A)) = GroupsFor(pages, R, L, X),
         \A p \in DOMAIN pages : L[pages[p]] # <<>>
  PROVE  build_file_groups(FilesCell(A)) =
           [error |-> FALSE,
            groups |-> [p \in DOMAIN pages |->
                          [root |-> R[pages[p]], label |-> L[pages[p]], files |-> FilesOf(X[pages[p]])]]]
<1> DEFINE G == GroupsFor(pages, R, L, X)
           cell == FilesCell(A)
           made == [p \in DOMAIN pages |->
                      [root |-> R[pages[p]], label |-> L[pages[p]], files |-> FilesOf(X[pages[p]])]]
<1>1. /\ DOMAIN G = DOMAIN pages
      /\ \A p \in DOMAIN pages :
           /\ G[p].root = R[pages[p]] /\ G[p].label = L[pages[p]] /\ G[p].files = FilesOf(X[pages[p]])
           /\ G[p].differs = FALSE
  BY DEF GroupsFor, OneGroup
<1>2. /\ A = <<>> <=> cell = <<>>
      /\ A # <<>> => LET entries == Split(cell, Semi)
                     IN  [k \in DOMAIN entries |-> parse(entries[k])] = Listed(A)
  BY CellRead
<1> HIDE DEF cell, G
<1>3. CASE A = <<>>
  <2>1. Listed(A) = <<>>
    BY <1>3 DEF Listed
  <2>2. G = <<>>
    BY <2>1, GroupedStep DEF G
  <2>3. DOMAIN pages = {}
    BY <1>1, <2>2
  <2>4. made = <<>>
    BY <2>3
  <2> HIDE DEF made
  <2> QED BY <1>2, <1>3, <2>4 DEF build_file_groups, cell, made
<1>4. CASE A # <<>>
  <2> DEFINE entries == Split(cell, Semi)
             labelled == {i \in DOMAIN G : G[i].label # <<>>}
  <2>1. Grouped([k \in DOMAIN entries |-> parse(entries[k])]) = G /\ cell # <<>>
    BY <1>2, <1>4 DEF G
  <2>2. labelled = DOMAIN G /\ \A i \in DOMAIN G : ~ G[i].differs
    BY <1>1
  <2> HIDE DEF entries
  <2>3. build_file_groups(cell) =
          [error |-> FALSE,
           groups |-> [i \in DOMAIN G |->
                         [root |-> G[i].root, files |-> G[i].files,
                          label |-> IF labelled = {} THEN Page(i) ELSE G[i].label]]]
    BY <2>1, <2>2 DEF build_file_groups, Labelled, entries
  <2>4. \A i \in DOMAIN G : labelled # {}
    BY <2>2
  <2>5. [i \in DOMAIN G |-> [root |-> G[i].root, files |-> G[i].files,
                             label |-> IF labelled = {} THEN Page(i) ELSE G[i].label]] = made
    <3> HIDE DEF labelled
    <3> QED BY <1>1, <2>4
  <2> QED BY <2>3, <2>5 DEF cell
<1> QED BY <1>3, <1>4

-----------------------------------------------------------------------------
(* The pages of an item.                                                    *)
PageFile(f) == f.root \in Token \ Dirs /\ f.ext \in Exts /\ f.usage \in UsageTags \cup {""}
ReadyPage(page) ==
  /\ page.title \in Text /\ page.files \in Seq(Range(page.files))
  /\ \A f \in Range(page.files) : PageFile(f)

EntryOf(item, u, page, f) ==
  [label |-> page.title, usage |-> f.usage, name |-> <<item_dir(item, u), f.root, f.ext>>]

PageEntries(item, u, page) ==
  LET kept == mime_type_filter(page.files)
  IN  [k \in DOMAIN kept |-> EntryOf(item, u, page, kept[k])]

LEMMA PagesOfItems ==
  ASSUME repo \in Repositories, NEW u \in Items
  PROVE  /\ item_dir(repo[u], u) \in Dirs /\ repo[u].pages \in Seq(Range(repo[u].pages))
         /\ \A page \in Range(repo[u].pages) : ReadyPage(page)
BY PageAssumption DEF ReadyPage, PageFile

LEMMA KeptFiles ==
  ASSUME NEW page, ReadyPage(page)
  PROVE  LET kept == mime_type_filter(page.files)
         IN  /\ kept \in Seq(Range(page.files)) /\ Len(kept) \in Nat /\ DOMAIN kept = 1..Len(kept)
             /\ \A k \in DOMAIN kept : kept[k] \in Range(page.files) /\ PageFile(kept[k])
<1> DEFINE files == page.files
           T == Range(files)
           wanted == {f \in T : AnyType \in BinaryTypes \/ f.type \in BinaryTypes}
           kept == mime_type_filter(files)
<1>1. files \in Seq(T) /\ \A f \in T : PageFile(f)
  BY DEF ReadyPage
<1>2. kept = Those(files, wanted)
  BY DEF mime_type_filter
<1> HIDE DEF wanted, files, T, kept
<1>3. \E f \in [0..Len(files) -> Seq(T \cap wanted)] :
        Chosen(f, files, wanted) /\ Those(files, wanted) = f[Len(files)]
  BY <1>1, ThoseUpTo
<1>4. kept \in Seq(T \cap wanted)
  <2>1. Len(files) \in 0..Len(files)
    BY <1>1
  <2> QED BY <1>2, <1>3, <2>1
<1>5. kept \in Seq(T) /\ Len(kept) \in Nat /\ DOMAIN kept = 1..Len(kept)
  BY <1>4
<1>6. \A k \in DOMAIN kept : kept[k] \in T
  BY <1>5
<1> QED BY <1>1, <1>5, <1>6 DEF kept, T, files

LEMMA EntryIsRead ==
  ASSUME NEW item, NEW u, NEW page, NEW f, item_dir(item, u) \in Dirs, page.title \in Text, PageFile(f)
  PROVE  /\ EntryOf(item, u, page, f) \in Entry
         /\ rootname(EntryOf(item, u, page, f).name) = <<f.root>>
         /\ EntryOf(item, u, page, f).label = page.title
         /\ [name |-> EntryOf(item, u, page, f).name, usage |-> EntryOf(item, u, page, f).usage]
              = [name |-> <<item_dir(item, u), f.root, f.ext>>, usage |-> f.usage]
<1>1. rootname(<<item_dir(item, u), f.root, f.ext>>) = <<f.root>>
      /\ <<item_dir(item, u), f.root, f.ext>> \in Text
  BY PlainRoot DEF PageFile
<1>2. f.usage \in Token
  BY FileNameAssumption DEF PageFile
<1>3. EntryOf(item, u, page, f) \in Entry
  BY <1>1, <1>2 DEF EntryOf, Entry
<1> QED BY <1>1, <1>3 DEF EntryOf

LEMMA EntriesOfPage ==
  ASSUME NEW item, NEW u, NEW page, item_dir(item, u) \in Dirs, ReadyPage(page)
  PROVE  /\ PageEntries(item, u, page) \in Seq(Entry)
         /\ PageEntries(item, u, page) = <<>> <=> mime_type_filter(page.files) = <<>>
         /\ FilesOf(PageEntries(item, u, page)) = GroupOf(item, u, page).files
         /\ (\A f, g \in Range(page.files) : f.root = g.root) =>
              AllOf(<<page.files[1].root>>, page.title, PageEntries(item, u, page))
<1> DEFINE kept == mime_type_filter(page.files)
           its == PageEntries(item, u, page)
<1>1. /\ Len(kept) \in Nat /\ DOMAIN kept = 1..Len(kept) /\ kept \in Seq(Range(page.files))
      /\ \A k \in DOMAIN kept : kept[k] \in Range(page.files) /\ PageFile(kept[k])
  BY KeptFiles
<1>2. page.title \in Text /\ page.files \in Seq(Range(page.files))
  BY DEF ReadyPage
<1>3. its = [k \in DOMAIN kept |-> EntryOf(item, u, page, kept[k])]
  BY DEF PageEntries
<1>4. GroupOf(item, u, page).files =
        [k \in DOMAIN kept |-> [name |-> <<item_dir(item, u), kept[k].root, kept[k].ext>>,
                                usage |-> kept[k].usage]]
  BY DEF GroupOf
<1> HIDE DEF kept, its
<1>5. \A k \in DOMAIN kept :
        /\ its[k] = EntryOf(item, u, page, kept[k]) /\ its[k] \in Entry
        /\ rootname(its[k].name) = <<kept[k].root>> /\ its[k].label = page.title
        /\ [name |-> its[k].name, usage |-> its[k].usage]
             = [name |-> <<item_dir(item, u), kept[k].root, kept[k].ext>>, usage |-> kept[k].usage]
  <2> SUFFICES ASSUME NEW k \in DOMAIN kept
               PROVE  LET e == EntryOf(item, u, page, kept[k])
                      IN  /\ e \in Entry /\ rootname(e.name) = <<kept[k].root>> /\ e.label = page.title
                          /\ [name |-> e.name, usage |-> e.usage]
                               = [name |-> <<item_dir(item, u), kept[k].root, kept[k].ext>>,
                                  usage |-> kept[k].usage]
    BY <1>3
  <2> QED BY <1>1, <1>2, EntryIsRead
<1>6. its \in Seq(Entry) /\ DOMAIN its = DOMAIN kept /\ Len(its) = Len(kept)
  <2>1. its = [k \in 1..Len(kept) |-> its[k]]
    BY <1>1, <1>3
  <2>2. \A k \in 1..Len(kept) : its[k] \in Entry
    BY <1>1, <1>5
  <2> QED BY <1>1, <2>1, <2>2
<1>7. its = <<>> <=> kept = <<>>
  BY <1>1, <1>6
<1>8. FilesOf(its) = GroupOf(item, u, page).files
  BY <1>4, <1>5, <1>6 DEF FilesOf
<1>9. ASSUME \A f, g \in Range(page.files) : f.root = g.root
      PROVE  AllOf(<<page.files[1].root>>, page.title, its)
  <2> SUFFICES ASSUME NEW k \in DOMAIN kept PROVE kept[k].root = page.files[1].root
    BY <1>5, <1>6 DEF AllOf
  <2>1. kept[k] \in Range(page.files)
    BY <1>1
  <2>2. 1 \in DOMAIN page.files
    BY <1>2, <2>1 DEF Range
  <2>3. page.files[1] \in Range(page.files)
    BY <2>2 DEF Range
  <2> QED BY <1>9, <2>1, <2>3
<1> QED BY <1>6, <1>7, <1>8, <1>9 DEF its, kept

-----------------------------------------------------------------------------
(* The files of pages whose titles and names hold no separators.            *)
PlainPage(page) ==
  /\ page.title # <<>> /\ PlainName(page.title)
  /\ \A f \in Range(page.files) : f.root # Semi

LEMMA FileIsLegible ==
  ASSUME NEW item, NEW u, NEW page, NEW f, NEW y, item_dir(item, u) \in Dirs, page.title \in Text,
         PageFile(f), PlainPage(page), f \in Range(page.files), Want(y) = EntryOf(item, u, page, f)
  PROVE  Legible(y)
<1> DEFINE name == <<item_dir(item, u), f.root, f.ext>>
<1>1. y.label = page.title /\ y.usage = f.usage /\ y.name = name
  BY DEF Want, EntryOf
<1>2. name \in Text
  BY PlainRoot DEF PageFile
<1>3. item_dir(item, u) \notin UsageTags
  BY FileNameAssumption
<1>4. name # <<>> /\ name[1] \notin UsageTags
  BY <1>3
<1>5. SpecOf(y, page.title, f.usage, name)
  BY <1>1, <1>2, <1>4 DEF SpecOf, PlainPage, PageFile
<1>6. Without(name, Semi)
  <2>1. item_dir(item, u) # Semi /\ f.root # Semi /\ f.ext # Semi
    BY FileNameAssumption DEF PageFile, PlainPage
  <2> QED BY <2>1 DEF Without
<1> HIDE DEF name
<1>7. /\ spec(y) \in Text /\ spec(y) # <<>>
      /\ parse(spec(y)) = [label |-> page.title, usage |-> f.usage, name |-> name]
      /\ Without(name, Semi) => Without(spec(y), Semi)
  BY <1>5, ParseSpec
<1> QED BY <1>1, <1>6, <1>7 DEF Legible, Want

(* The files of the pages, and what is read of them.                        *)
LEMMA GatheredEntries ==
  ASSUME NEW item, NEW u, NEW page, NEW n
  PROVE  LET kept == mime_type_filter(page.files)
             files == gather_files(item, u, n, page.title, kept)
         IN  /\ DOMAIN files = DOMAIN kept /\ files = [k \in DOMAIN kept |-> files[k]]
             /\ \A k \in DOMAIN kept : Want(files[k]) = EntryOf(item, u, page, kept[k])
             /\ Listed(files) = PageEntries(item, u, page)
<1> DEFINE kept == mime_type_filter(page.files)
           files == gather_files(item, u, n, page.title, kept)
<1>1. /\ DOMAIN files = DOMAIN kept
      /\ \A k \in DOMAIN kept :
           /\ files[k].label = page.title /\ files[k].usage = kept[k].usage
           /\ files[k].name = <<item_dir(item, u), kept[k].root, kept[k].ext>>
  BY DEF gather_files
<1>5. files = [k \in DOMAIN kept |-> files[k]]
  BY DEF gather_files
<1>2. PageEntries(item, u, page) = [k \in DOMAIN kept |-> EntryOf(item, u, page, kept[k])]
  BY DEF PageEntries
<1> HIDE DEF kept, files
<1>3. \A k \in DOMAIN kept : Want(files[k]) = EntryOf(item, u, page, kept[k])
  BY <1>1 DEF Want, EntryOf
<1>4. Listed(files) = [k \in DOMAIN kept |-> EntryOf(item, u, page, kept[k])]
  BY <1>1, <1>3 DEF Listed
<1> QED BY <1>1, <1>2, <1>3, <1>4, <1>5 DEF kept, files

LEMMA PagesRead ==
  ASSUME repo \in Repositories, NEW u \in Items, BinaryTypes # {}, PlainPages(PagesOf(repo[u]))
  PROVE  LET pages == PagesOf(repo[u])
         IN  build_file_groups(FilesCell(get_page_files(repo[u], u))) =
               [error |-> FALSE, groups |-> [p \in DOMAIN pages |-> GroupOf(repo[u], u, pages[p])]]
<1> DEFINE item == repo[u]
           s == item.pages
           T == Range(s)
           S == {p \in T : mime_type_filter(p.files) # <<>>}
           N == Len(s)
           E(n) == gather_files(item, u, n, s[n].title, mime_type_filter(s[n].files))
           ss == [n \in DOMAIN s |-> E(n)]
           F == UNION {{E(n)[k] : k \in DOMAIN E(n)} : n \in 1..N}
           pages == PagesOf(item)
<1>1. item_dir(item, u) \in Dirs /\ s \in Seq(T) /\ \A page \in T : ReadyPage(page)
  BY PagesOfItems
<1>2. PlainPages(pages)
  OBVIOUS
<1>3. pages = Those(s, S)
  BY DEF PagesOf
<1>4. get_page_files(item, u) = FlattenSeq(ss)
  BY DEF get_page_files
<1>5. \A p \in S : p \in T /\ mime_type_filter(p.files) # <<>>
  OBVIOUS
<1>6. \A p \in T : p \notin S => mime_type_filter(p.files) = <<>>
  OBVIOUS
<1> HIDE DEF item, S, pages
<1>7. N \in Nat /\ DOMAIN s = 1..N /\ \A n \in 1..N : s[n] \in T
  BY <1>1
<1> HIDE DEF s, T, N
<1>8. \A n \in 1..N : ss[n] = E(n)
  BY <1>7
<1>9. ASSUME NEW n \in 1..N
      PROVE  LET kept == mime_type_filter(s[n].files)
             IN  /\ E(n) = [k \in 1..Len(kept) |-> E(n)[k]]
                 /\ DOMAIN E(n) = 1..Len(kept) /\ Len(kept) \in Nat /\ DOMAIN kept = 1..Len(kept)
                 /\ \A k \in DOMAIN kept :
                      /\ Want(E(n)[k]) = EntryOf(item, u, s[n], kept[k])
                      /\ kept[k] \in Range(s[n].files) /\ PageFile(kept[k])
                 /\ Listed(E(n)) = PageEntries(item, u, s[n])
  <2>1. ReadyPage(s[n])
    BY <1>1, <1>7
  <2> DEFINE kept == mime_type_filter(s[n].files)
  <2>2. /\ Len(kept) \in Nat /\ DOMAIN kept = 1..Len(kept)
        /\ \A k \in DOMAIN kept : kept[k] \in Range(s[n].files) /\ PageFile(kept[k])
    BY <2>1, KeptFiles
  <2>3. /\ DOMAIN E(n) = DOMAIN kept /\ E(n) = [k \in DOMAIN kept |-> E(n)[k]]
        /\ \A k \in DOMAIN kept : Want(E(n)[k]) = EntryOf(item, u, s[n], kept[k])
        /\ Listed(E(n)) = PageEntries(item, u, s[n])
    BY GatheredEntries
  <2> QED BY <2>2, <2>3
<1> HIDE DEF E
<1>10. \A n \in 1..N : E(n) \in Seq(F)
  <2> SUFFICES ASSUME NEW n \in 1..N PROVE E(n) \in Seq(F)
    OBVIOUS
  <2>1. PICK m \in Nat : E(n) = [k \in 1..m |-> E(n)[k]] /\ DOMAIN E(n) = 1..m
    BY <1>9
  <2>2. \A k \in 1..m : E(n)[k] \in F
    BY <2>1
  <2> HIDE DEF F
  <2> QED BY <2>1, <2>2
<1>11. ASSUME NEW y \in F
       PROVE  \E n \in 1..N : LET kept == mime_type_filter(s[n].files)
                              IN  \E k \in DOMAIN kept : y = E(n)[k]
  BY <1>9
<1> HIDE DEF F
<1>12. ss \in Seq(Seq(F)) /\ Len(ss) = N
  <2>1. ss = [n \in 1..N |-> E(n)]
    BY <1>7
  <2> HIDE DEF ss
  <2> QED BY <1>7, <1>10, <2>1
<1>13. PICK f : Selects(f, s, S, T) /\ pages = f[N]
  BY <1>1, <1>3, ThoseUpTo DEF Selects, N
<1>14. PICK a \in [0..N -> Seq(F)] : Joined(a, ss) /\ get_page_files(item, u) = a[N]
  BY <1>4, <1>12, FlattenUpTo
<1>15. ASSUME NEW n \in 1..N, s[n] \in S PROVE \E k \in DOMAIN pages : pages[k] = s[n]
  <2>1. AtItsEnd(f, s, S, T, n)
    BY <1>1, <1>13, <1>15, ChosenHere DEF N
  <2> QED BY <1>13, <2>1 DEF AtItsEnd, N
<1>16. \A k \in DOMAIN pages : pages[k] \in T /\ pages[k] \in S
  <2>1. pages \in Seq(T \cap S)
    BY <1>7, <1>13 DEF Selects, N
  <2> QED BY <2>1
<1>17. ASSUME NEW k \in DOMAIN pages
       PROVE  PlainPage(pages[k]) /\ \A x, y \in Range(pages[k].files) : x.root = y.root
  BY <1>2 DEF PlainPages, PlainPage, OneRoot
<1>18. ASSUME NEW y \in F PROVE Legible(y) /\ Want(y) \in Entry
  <2>1. PICK n \in 1..N : \E k \in DOMAIN mime_type_filter(s[n].files) : y = E(n)[k]
    BY <1>11
  <2> DEFINE kept == mime_type_filter(s[n].files)
  <2>2. PICK k \in DOMAIN kept : y = E(n)[k]
    BY <2>1
  <2>3. Want(y) = EntryOf(item, u, s[n], kept[k]) /\ kept[k] \in Range(s[n].files) /\ PageFile(kept[k])
    BY <1>9, <2>2
  <2>4. kept # <<>>
    OBVIOUS
  <2>5. s[n] \in S
    BY <1>6, <1>7, <2>4
  <2>6. PlainPage(s[n])
    BY <1>15, <1>17, <2>5
  <2>7. s[n].title \in Text
    BY <1>1, <1>7 DEF ReadyPage
  <2> HIDE DEF kept
  <2>8. Legible(y)
    BY <1>1, <2>3, <2>6, <2>7, FileIsLegible
  <2>9. EntryOf(item, u, s[n], kept[k]) \in Entry
    BY <1>1, <2>3, <2>7, EntryIsRead
  <2> QED BY <2>3, <2>8, <2>9
<1> DEFINE X == [p \in T |-> PageEntries(item, u, p)]
           R == [p \in T |-> <<p.files[1].root>>]
           L == [p \in T |-> p.title]
           h == [n \in 0..N |-> Listed(a[n])]
<1>19. EntriesOf(X, T, S)
  <2> SUFFICES ASSUME NEW p \in T
               PROVE  /\ PageEntries(item, u, p) \in Seq(Entry)
                      /\ PageEntries(item, u, p) = <<>> <=> p \notin S
    BY DEF EntriesOf
  <2>1. /\ PageEntries(item, u, p) \in Seq(Entry)
        /\ PageEntries(item, u, p) = <<>> <=> mime_type_filter(p.files) = <<>>
    BY <1>1, EntriesOfPage
  <2> QED BY <1>5, <1>6, <2>1
<1>20. Collected(h, s, X)
  <2>1. ASSUME NEW n \in 0..N PROVE Listed(a[n]) \in Seq(Entry)
    <3>1. a[n] \in Seq(F) /\ \A y \in F : Want(y) \in Entry
      BY <1>18
    <3> QED BY <3>1, ListedConcat
  <2>2. h \in [0..N -> Seq(Entry)]
    BY <2>1
  <2>3. h[0] = <<>>
    <3>1. a[0] = <<>> /\ 0 \in 0..N
      BY <1>7, <1>14 DEF Joined
    <3>2. Listed(<<>>) = <<>>
      BY DEF Listed
    <3> QED BY <3>1, <3>2
  <2>4. ASSUME NEW n \in 1..N PROVE h[n] = h[n - 1] \o X[s[n]]
    <3>1. n \in 0..N /\ n - 1 \in 0..N /\ s[n] \in T
      BY <1>7
    <3>2. a[n] = a[n - 1] \o E(n)
      BY <1>8, <1>12, <1>14 DEF Joined
    <3>3. a[n - 1] \in Seq(F) /\ E(n) \in Seq(F) /\ \A y \in F : Want(y) \in Entry
      BY <1>10, <1>14, <1>18, <3>1
    <3>4. Listed(a[n - 1] \o E(n)) = Listed(a[n - 1]) \o Listed(E(n))
      BY <3>3, ListedConcat
    <3>5. Listed(E(n)) = X[s[n]]
      BY <1>9, <3>1
    <3> QED BY <3>1, <3>2, <3>4, <3>5
  <2> HIDE DEF h, X
  <2> QED BY <2>2, <2>3, <2>4 DEF Collected, N
<1>21. Ordered(pages, R, L, X)
  <2>1. ASSUME NEW k \in DOMAIN pages PROVE AllOf(R[pages[k]], L[pages[k]], X[pages[k]])
    <3>1. pages[k] \in T /\ ReadyPage(pages[k])
      BY <1>1, <1>16
    <3>2. AllOf(<<pages[k].files[1].root>>, pages[k].title, PageEntries(item, u, pages[k]))
      BY <1>1, <1>17, <3>1, EntriesOfPage
    <3> QED BY <3>1, <3>2
  <2>2. ASSUME NEW j \in DOMAIN pages, NEW k \in DOMAIN pages, j # k
        PROVE  R[pages[j]] # R[pages[k]]
    <3>1. ASSUME NEW i \in DOMAIN pages PROVE pages[i].files[1] \in Range(pages[i].files)
      <4> DEFINE kept == mime_type_filter(pages[i].files)
      <4>1. kept # <<>> /\ ReadyPage(pages[i])
        BY <1>1, <1>5, <1>16
      <4>2. kept \in Seq(Range(pages[i].files))
        BY <4>1, KeptFiles
      <4> HIDE DEF kept
      <4>3. kept[1] \in Range(pages[i].files)
        BY <4>1, <4>2
      <4>4. pages[i].files \in Seq(Range(pages[i].files))
        BY <4>1 DEF ReadyPage
      <4>5. 1 \in DOMAIN pages[i].files
        BY <4>3, <4>4 DEF Range
      <4> QED BY <4>5 DEF Range
    <3>2. {x.root : x \in Range(pages[j].files)} \cap {x.root : x \in Range(pages[k].files)} = {}
      BY <1>2, <2>2 DEF PlainPages, OwnRoots
    <3>3. pages[j].files[1].root # pages[k].files[1].root
      BY <3>1, <3>2
    <3>4. R[pages[j]] = <<pages[j].files[1].root>> /\ R[pages[k]] = <<pages[k].files[1].root>>
      BY <1>16
    <3> QED BY <3>3, <3>4
  <2> HIDE DEF R, L, X
  <2> QED BY <2>1, <2>2 DEF Ordered
<1>22. Grouped(Listed(get_page_files(item, u))) = GroupsFor(pages, R, L, X)
  <2>1. h[N] = Listed(get_page_files(item, u))
    BY <1>7, <1>14
  <2> HIDE DEF h, X, R, L
  <2>2. Grouped(h[N]) = GroupsFor(f[N], R, L, X)
    BY <1>1, <1>13, <1>19, <1>20, <1>21, GroupsOfPages DEF N
  <2> QED BY <1>13, <2>1, <2>2
<1>23. build_file_groups(FilesCell(get_page_files(item, u))) =
         [error |-> FALSE,
          groups |-> [p \in DOMAIN pages |->
                        [root |-> R[pages[p]], label |-> L[pages[p]], files |-> FilesOf(X[pages[p]])]]]
  <2>1. get_page_files(item, u) \in Seq(F)
    BY <1>7, <1>14
  <2>2. \A k \in DOMAIN pages : L[pages[k]] # <<>>
    BY <1>16, <1>17 DEF PlainPage
  <2> HIDE DEF h, X, R, L
  <2> QED BY <1>18, <1>22, <2>1, <2>2, GroupsRead
<1>24. ASSUME NEW k \in DOMAIN pages
       PROVE  GroupOf(item, u, pages[k]) =
                [root |-> R[pages[k]], label |-> L[pages[k]], files |-> FilesOf(X[pages[k]])]
  <2>1. FilesOf(PageEntries(item, u, pages[k])) = GroupOf(item, u, pages[k]).files
    BY <1>1, <1>16, EntriesOfPage
  <2>2. GroupOf(item, u, pages[k]) =
          [root |-> <<pages[k].files[1].root>>, label |-> pages[k].title,
           files |-> GroupOf(item, u, pages[k]).files]
    BY DEF GroupOf
  <2>3. /\ R[pages[k]] = <<pages[k].files[1].root>> /\ L[pages[k]] = pages[k].title
        /\ X[pages[k]] = PageEntries(item, u, pages[k])
    BY <1>16
  <2> HIDE DEF X, R, L
  <2> QED BY <2>1, <2>2, <2>3
<1> HIDE DEF X, R, L
<1> QED BY <1>23, <1>24 DEF item, pages

LEMMA PagesFollow == ExportInv /\ ImportedInv => PagesComeBack
<1> SUFFICES ASSUME ExportInv, ImportedInv, NEW u \in Items, imported[u] # NotYet, edited = NotYet,
                    BinaryTypes # {}, PlainPages(PagesOf(repo[u])),
                    ~ Clashes(RowOf(u).cells, RowOf(u).index)
             PROVE  imported[u].groups =
                      [p \in DOMAIN PagesOf(repo[u]) |-> GroupOf(repo[u], u, PagesOf(repo[u])[p])]
  BY DEF PagesComeBack
<1>1. ExportTypeOK /\ repo \in Repositories
  BY DEF ExportInv, ExportTypeOK
<1>2. u \in RowUris /\ imported[u] = ImportOf(u)
  BY DEF ImportedInv
<1>3. RowOf(u) = RowFor(repo[u], u)
  BY <1>1, <1>2, RowIsItsItems
<1>4. RowOf(u).cells = flatten(repo[u].graph, Uri(u))
      /\ RowOf(u).files = FilesCell(get_page_files(repo[u], u))
  BY <1>3 DEF RowFor
<1>5. CellsOf(u) = RowOf(u).cells
  BY DEF CellsOf
<1>6. build_fields(DOMAIN CellsOf(u))
  <2>1. DOMAIN CellsOf(u) = {Header(l) : l \in Labels}
    <3>1. \A g, s : DOMAIN flatten(g, s) = {Header(l) : l \in Labels}
      BY FlattenedColumns
    <3> QED BY <1>4, <1>5, <3>1
  <2> QED BY <2>1, HeaderLabel DEF build_fields
<1> DEFINE pages == PagesOf(repo[u])
           groups == [p \in DOMAIN pages |-> GroupOf(repo[u], u, pages[p])]
<1>7. build_file_groups(RowOf(u).files) = [error |-> FALSE, groups |-> groups]
  BY <1>1, <1>4, PagesRead
<1> HIDE DEF groups
<1>8. ImportOf(u).groups = groups
  BY <1>5, <1>6, <1>7 DEF ImportOf
<1> QED BY <1>2, <1>8 DEF groups

(* The pages of an exported item come back from the cell FILES of its row,  *)
(* in order, with their titles and their files, when their names are plain  *)
(* (spreadsheet.py:147-240, files/__init__.py:50-62,510-520).               *)
THEOREM PagesReturn == ExportSpec => []PagesComeBack
BY ImportedAlways, PagesFollow, PTL

(* What an export writes into a spreadsheet comes back by an import: items  *)
(* as they were, a changed cell as it was typed, and the pages              *)
(* (csv.py:187-351, spreadsheet.py:147-240).                                *)
THEOREM RowsReturn == ExportSpec => []RowsComeBack
BY ImportedAlways, UneditedFollows, EditsFollow, PagesFollow, PTL DEF RowsComeBack
=============================================================================

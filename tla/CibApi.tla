------------------------------- MODULE CibApi -------------------------------
(***************************************************************************)
(* What a GET request under an api/v1 route selects in the cached CIB: the *)
(* URL patterns of serveAPI (main.go), the handlers handleApiNodes,        *)
(* handleApiResources, handleApiConstraints and handleApiCluster           *)
(* (api_*.go), and Cib.MarshalJSON (api_common.go).                        *)
(*                                                                         *)
(* A URL path is the sequence of its segments.  A CIB is a record with the *)
(* node entries and, for each type of resource and of constraint, the      *)
(* sequence of the ids; NoCib is the empty document of a cache that was    *)
(* never filled, which xml.Unmarshal refuses.                              *)
(***************************************************************************)
EXTENDS Naturals, Sequences, SequencesExt

CONSTANTS
    NoCib,        \* the empty document
    AlnumIds      \* the names that match [a-zA-Z0-9]+

ResourceTypes   == <<"primitive", "group", "clone", "master">>
ConstraintTypes == <<"location", "colocation", "order">>

\* The kinds whose pattern allows an id at the end.
Listed == {"nodes", "resources", "constraints"}

\* prefix + "nodes(/?|/[a-zA-Z0-9]+/?)$" and the like: the pattern is not
\* anchored at its beginning, so the path has only to end with it.
MatchesKind(route, path, kind) ==
    LET base == route.path \o <<"configuration", kind>>
    IN  \/ IsSuffix(base, path)
        \/ /\ kind \in Listed
           /\ path # <<>>
           /\ Last(path) \in AlnumIds
           /\ IsSuffix(base, Front(path))

(* What a handler does: it writes the entry <<type, index>> or the whole   *)
(* list and returns true; it writes an error and returns false; it writes  *)
(* nothing and returns false; or it panics on urllist[3].                  *)
Found(type, index) == [did |-> "found", type |-> type, index |-> index]
Missing            == [did |-> "missing"]
Unparsed           == [did |-> "unparsed"]
Panic              == [did |-> "panic"]

\* Faulty variant: the index that was found is not kept.
NodeEntryForgetsIndex(cib, id) ==
    LET i == SelectInSeq(cib.nodes, LAMBDA n : id \in {n.uname, n.id})
    IN  IF i = 0 THEN Missing ELSE Found("node", 1)

\* The first node with this uname or id.
NodeEntry(cib, id) ==
    LET i == SelectInSeq(cib.nodes, LAMBDA n : id \in {n.uname, n.id})
    IN  IF i = 0 THEN Missing ELSE Found("node", i)

\* mapIdType[id], where a later entry replaces an earlier one.
TypedEntry(cib, types, id) ==
    LET has(type) == id \in ToSet(cib[type])
        t == SelectLastInSeq(types, has)
    IN  IF t = 0 THEN Missing
        ELSE Found(types[t], SelectLastInSeq(cib[types[t]], LAMBDA e : e = id))

Entry(cib, kind, id) ==
    CASE kind = "nodes"       -> NodeEntry(cib, id)
      [] kind = "resources"   -> TypedEntry(cib, ResourceTypes, id)
      [] kind = "constraints" -> TypedEntry(cib, ConstraintTypes, id)

\* The part of the three handlers that is the same.
HandleList(cib, kind, path) ==
    IF cib = NoCib THEN Unparsed
    ELSE IF Len(path) = 3 THEN Found("all", 0)
    ELSE IF Len(path) < 3 THEN Panic
    ELSE Entry(cib, kind, path[4])

HandleApiNodes(cib, path)       == HandleList(cib, "nodes", path)
HandleApiResources(cib, path)   == HandleList(cib, "resources", path)
HandleApiConstraints(cib, path) == HandleList(cib, "constraints", path)

HandleApiCluster(cib) == IF cib = NoCib THEN Unparsed ELSE Found("cluster", 0)

\* All the ids in the lists of some types.
IdsOf(cib, types) == UNION {ToSet(cib[types[t]]) : t \in DOMAIN types}

\* MarshalJSON: the ids of the elements that the URLType and URLIndex left by
\* the handler of this kind select.
MarshalJSON(cib, kind, found) ==
    CASE kind = "nodes" /\ found.type = "all" -> {n.id : n \in ToSet(cib.nodes)}
      [] kind = "nodes" /\ found.type = "node" -> {cib.nodes[found.index].id}
      [] kind = "resources" /\ found.type = "all" -> IdsOf(cib, ResourceTypes)
      [] kind = "constraints" /\ found.type = "all" ->
             IdsOf(cib, ConstraintTypes)
      [] kind = "cluster" -> {}
      [] OTHER -> {cib[found.type][found.index]}
-----------------------------------------------------------------------------
(* What a URL asks for, independently of how the handlers count segments.  *)

TypesOf(kind) == IF kind = "resources" THEN ResourceTypes ELSE ConstraintTypes

\* The ids of all the elements of a kind.
AllOf(cib, kind) ==
    IF kind = "nodes" THEN {n.id : n \in ToSet(cib.nodes)}
    ELSE IdsOf(cib, TypesOf(kind))

\* The ids of the elements of a kind that have this name or id.
Called(cib, kind, name) ==
    IF kind = "nodes"
    THEN {n.id : n \in {m \in ToSet(cib.nodes) : name \in {m.id, m.uname}}}
    ELSE IdsOf(cib, TypesOf(kind)) \cap {name}
=============================================================================

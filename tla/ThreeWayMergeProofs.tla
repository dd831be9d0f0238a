-------------------------- MODULE ThreeWayMergeProofs --------------------------
(* Proofs about ThreeWayMerge, for documents of any nodes, parameters,     *)
(* records and edges.                                                      *)
EXTENDS ThreeWayMerge, TLAPS

-----------------------------------------------------------------------------
(* Documents and paths.                                                    *)

ParamOf(d, n, p) == d.nodes[n].parameters[p]

(* A document: its nodes, and edges that join them.                        *)
LEMMA DocTyped ==
  ASSUME NEW d \in WorkflowIR
  PROVE  /\ d = [nodes |-> d.nodes, edges |-> d.edges, settings |-> d.settings]
         /\ DOMAIN d.nodes \subseteq NodeId /\ d.nodes \in [DOMAIN d.nodes -> IRNode]
         /\ d.edges \subseteq Edge
         /\ \A e \in d.edges : \A n : At(e, n) => n \in DOMAIN d.nodes
<1>1. PICK ids \in SUBSET NodeId :
        d \in [nodes : [ids -> IRNode], edges : SUBSET {e \in Edge : {e[1], e[2]} \subseteq ids}, settings : Leaf]
  BY DEF WorkflowIR
<1> QED BY <1>1 DEF At

(* Nodes are told apart by their name and their parameters.                *)
LEMMA NodesDiffer ==
  ASSUME NEW m \in IRNode, NEW n \in IRNode, m.name = n.name,
         \A p \in Param : m.parameters[p] = n.parameters[p]
  PROVE  m = n
<1>1. m.parameters \in [Param -> Value] /\ n.parameters \in [Param -> Value]
  BY DEF IRNode
<1>2. m.parameters = n.parameters
  BY <1>1
<1> QED BY <1>2 DEF IRNode

(* Paths, kept apart from what tuples are made of.                         *)
NoPath == <<>>
NamePath == <<"name">>
EdgePath == <<"edge">>
SettingsPath == <<"settings">>
WholePath(p) == <<"parameters", p>>
KeyPath(p, k) == <<"parameters", p, k>>

LEMMA PathsDiffer ==
  /\ NoPath # NamePath /\ NoPath # EdgePath /\ NamePath # EdgePath
  /\ SettingsPath \notin {NoPath, NamePath, EdgePath}
  /\ \A p : /\ WholePath(p) \notin {NoPath, NamePath, EdgePath, SettingsPath}
            /\ Len(WholePath(p)) = 2 /\ WholePath(p)[2] = p
  /\ \A p, k : /\ KeyPath(p, k) \notin {NoPath, NamePath, EdgePath, SettingsPath}
               /\ Len(KeyPath(p, k)) = 3 /\ KeyPath(p, k)[2] = p /\ KeyPath(p, k)[3] = k
  /\ \A p, q, k : WholePath(p) # KeyPath(q, k)
  /\ Len(NamePath) = 1 /\ Len(NoPath) = 0 /\ Len(EdgePath) = 1 /\ Len(SettingsPath) = 1
<1>1. NoPath # NamePath /\ NoPath # EdgePath /\ NamePath # EdgePath /\ SettingsPath \notin {NoPath, NamePath, EdgePath}
  BY DEF NoPath, NamePath, EdgePath, SettingsPath
<1>2. Len(NamePath) = 1 /\ Len(NoPath) = 0 /\ Len(EdgePath) = 1 /\ Len(SettingsPath) = 1
  BY DEF NoPath, NamePath, EdgePath, SettingsPath
<1>3. \A p : Len(WholePath(p)) = 2 /\ WholePath(p)[2] = p
  BY DEF WholePath
<1>4. \A p, k : Len(KeyPath(p, k)) = 3 /\ KeyPath(p, k)[2] = p /\ KeyPath(p, k)[3] = k
  BY DEF KeyPath
<1>5. \A p : WholePath(p) \notin {NoPath, NamePath, EdgePath, SettingsPath}
  BY <1>2, <1>3
<1>6. \A p, k : KeyPath(p, k) \notin {NoPath, NamePath, EdgePath, SettingsPath}
  BY <1>2, <1>4
<1>7. \A p, q, k : WholePath(p) # KeyPath(q, k)
  BY <1>3, <1>4
<1> QED BY <1>1, <1>2, <1>3, <1>4, <1>5, <1>6, <1>7

(* A path into the parameters names one parameter, and its key if it has   *)
(* one.                                                                    *)
LEMMA PathsName ==
  /\ \A p, q : WholePath(p) = WholePath(q) => p = q
  /\ \A p, q, k, l : KeyPath(p, k) = KeyPath(q, l) => p = q /\ k = l
  BY PathsDiffer

-----------------------------------------------------------------------------
(* The diff of two documents, by operation.  It is first described as if   *)
(* no key had a dot, which it is of documents that change no such key.     *)

PlainDicts(n, old, new) ==
  UNION {IF old[p] = new[p] THEN {}
         ELSE IF old[p] \in Record /\ new[p] \in Record
         THEN {Ent("modify_node", n, <<"parameters", p, k>>, new[p][k]) :
                 k \in {k \in Sub : old[p][k] # new[p][k]}}
         ELSE {Ent("modify_node", n, <<"parameters", p>>, new[p])} : p \in Param}

PlainDiff(old, new) ==
  {Ent("add_node", n, <<>>, new.nodes[n]) : n \in DOMAIN new.nodes \ DOMAIN old.nodes}
  \cup {Ent("remove_node", n, <<>>, None) : n \in DOMAIN old.nodes \ DOMAIN new.nodes}
  \cup {Ent("rename_node", n, <<"name">>, new.nodes[n].name) :
          n \in {n \in Kept(old, new) : old.nodes[n].name # new.nodes[n].name}}
  \cup (UNION {PlainDicts(n, old.nodes[n].parameters, new.nodes[n].parameters) : n \in Kept(old, new)})
  \cup {Ent("add_edge", e, <<>>, None) : e \in new.edges \ old.edges}
  \cup {Ent("remove_edge", e, <<>>, None) : e \in old.edges \ new.edges}
  \cup {Ent("modify_settings", Settings, <<"settings">>, v) : v \in {new.settings} \ {old.settings}}

\* No parameter whose key has a dot differs.
Undotted(old, new) ==
  \A n \in Kept(old, new), q \in Dotted : new.nodes[n].parameters[q] = old.nodes[n].parameters[q]

LEMMA PlainDictsAre ==
  ASSUME NEW n, NEW v, NEW w, \A q \in Dotted : w[q] = v[q]
  PROVE  diffDicts(n, v, w) = PlainDicts(n, v, w)
<1> DEFINE of(p) == IF v[p] = w[p] THEN {}
                    ELSE IF v[p] \in Record /\ w[p] \in Record
                    THEN {Ent("modify_node", n, <<"parameters", p, k>>, w[p][k]) :
                            k \in {k \in Sub : v[p][k] # w[p][k]}}
                    ELSE {Ent("modify_node", n, <<"parameters", p>>, w[p])}
           dotted == {Ent("modify_node", n, <<"parameters">> \o SplitAt[q], w[q]) : q \in {q \in Dotted : v[q] # w[q]}}
           plain == UNION {of(p) : p \in Param \ Dotted}
<1>1. \A q \in Dotted : of(q) = {}
  OBVIOUS
<1>2. dotted = {}
  OBVIOUS
<1>3. diffDicts(n, v, w) = dotted \cup {e \in plain : ~\E f \in dotted : f.path = e.path}
  BY DEF diffDicts
<1>4. PlainDicts(n, v, w) = UNION {of(p) : p \in Param}
  BY DEF PlainDicts
<1> HIDE DEF of, dotted
<1>5. UNION {of(p) : p \in Param} = plain
  BY <1>1
<1> QED BY <1>2, <1>3, <1>4, <1>5

LEMMA PlainDiffIs ==
  ASSUME NEW old, NEW new, Undotted(old, new)
  PROVE  computeDiff(old, new) = PlainDiff(old, new)
<1>1. \A n \in Kept(old, new) :
        diffDicts(n, old.nodes[n].parameters, new.nodes[n].parameters) =
          PlainDicts(n, old.nodes[n].parameters, new.nodes[n].parameters)
  BY PlainDictsAre DEF Undotted
<1>2. UNION {diffDicts(n, old.nodes[n].parameters, new.nodes[n].parameters) : n \in Kept(old, new)} =
        UNION {PlainDicts(n, old.nodes[n].parameters, new.nodes[n].parameters) : n \in Kept(old, new)}
  BY <1>1
<1> QED BY <1>2 DEF computeDiff, PlainDiff

BothRecords(v, w) == v \in Record /\ w \in Record

(* Two parameters differ as wholes: the diff has one entry for both.       *)
WholeDiffers(old, new, n, p) ==
  /\ ParamOf(old, n, p) # ParamOf(new, n, p)
  /\ ~BothRecords(ParamOf(old, n, p), ParamOf(new, n, p))
KeyDiffers(old, new, n, p, k) ==
  /\ BothRecords(ParamOf(old, n, p), ParamOf(new, n, p))
  /\ ParamOf(old, n, p)[k] # ParamOf(new, n, p)[k]

Dict(old, new, n) == PlainDicts(n, old.nodes[n].parameters, new.nodes[n].parameters)

(* An entry of the diff.                                                   *)
LEMMA DiffForm ==
  ASSUME NEW old, NEW new, NEW x \in PlainDiff(old, new)
  PROVE  \/ \E n \in DOMAIN new.nodes \ DOMAIN old.nodes : x = Ent("add_node", n, NoPath, new.nodes[n])
         \/ \E n \in DOMAIN old.nodes \ DOMAIN new.nodes : x = Ent("remove_node", n, NoPath, None)
         \/ \E n \in Kept(old, new) : /\ old.nodes[n].name # new.nodes[n].name
                                      /\ x = Ent("rename_node", n, NamePath, new.nodes[n].name)
         \/ \E n \in Kept(old, new), p \in Param :
              \/ WholeDiffers(old, new, n, p) /\ x = Ent("modify_node", n, WholePath(p), ParamOf(new, n, p))
              \/ \E k \in Sub : /\ KeyDiffers(old, new, n, p, k)
                                /\ x = Ent("modify_node", n, KeyPath(p, k), ParamOf(new, n, p)[k])
         \/ \E e \in new.edges \ old.edges : x = Ent("add_edge", e, NoPath, None)
         \/ \E e \in old.edges \ new.edges : x = Ent("remove_edge", e, NoPath, None)
         \/ new.settings # old.settings /\ x = Ent("modify_settings", Settings, SettingsPath, new.settings)
<1>0. \/ x \in {Ent("add_node", n, <<>>, new.nodes[n]) : n \in DOMAIN new.nodes \ DOMAIN old.nodes}
      \/ x \in {Ent("remove_node", n, <<>>, None) : n \in DOMAIN old.nodes \ DOMAIN new.nodes}
      \/ x \in {Ent("rename_node", n, <<"name">>, new.nodes[n].name) :
              n \in {n \in Kept(old, new) : old.nodes[n].name # new.nodes[n].name}}
      \/ x \in UNION {PlainDicts(n, old.nodes[n].parameters, new.nodes[n].parameters) : n \in Kept(old, new)}
      \/ x \in {Ent("add_edge", e, <<>>, None) : e \in new.edges \ old.edges}
      \/ x \in {Ent("remove_edge", e, <<>>, None) : e \in old.edges \ new.edges}
      \/ x \in {Ent("modify_settings", Settings, <<"settings">>, v) : v \in {new.settings} \ {old.settings}}
  BY DEF PlainDiff
<1>1. CASE x \in {Ent("add_node", n, <<>>, new.nodes[n]) : n \in DOMAIN new.nodes \ DOMAIN old.nodes}
  BY <1>1 DEF NoPath
<1>2. CASE x \in {Ent("remove_node", n, <<>>, None) : n \in DOMAIN old.nodes \ DOMAIN new.nodes}
  BY <1>2 DEF NoPath
<1>3. CASE x \in {Ent("rename_node", n, <<"name">>, new.nodes[n].name) :
              n \in {n \in Kept(old, new) : old.nodes[n].name # new.nodes[n].name}}
  BY <1>3 DEF NamePath
<1>4. CASE x \in UNION {PlainDicts(n, old.nodes[n].parameters, new.nodes[n].parameters) : n \in Kept(old, new)}
  <2>1. PICK n \in Kept(old, new) : x \in Dict(old, new, n)
    BY <1>4 DEF Dict
  <2>2. PICK p \in Param :
          \/ WholeDiffers(old, new, n, p) /\ x = Ent("modify_node", n, WholePath(p), ParamOf(new, n, p))
          \/ \E k \in Sub : /\ KeyDiffers(old, new, n, p, k)
                            /\ x = Ent("modify_node", n, KeyPath(p, k), ParamOf(new, n, p)[k])
    BY <2>1 DEF Dict, PlainDicts, WholeDiffers, KeyDiffers, BothRecords, ParamOf, WholePath, KeyPath
  <2> QED BY <2>2
<1>5. CASE x \in {Ent("add_edge", e, <<>>, None) : e \in new.edges \ old.edges}
  BY <1>5 DEF NoPath
<1>6. CASE x \in {Ent("remove_edge", e, <<>>, None) : e \in old.edges \ new.edges}
  BY <1>6 DEF NoPath
<1>7. CASE x \in {Ent("modify_settings", Settings, <<"settings">>, v) : v \in {new.settings} \ {old.settings}}
  BY <1>7 DEF SettingsPath
<1> QED BY <1>0, <1>1, <1>2, <1>3, <1>4, <1>5, <1>6, <1>7

(* What an entry of the diff says.                                         *)
LEMMA DiffSays ==
  ASSUME NEW old, NEW new, NEW x \in PlainDiff(old, new)
  PROVE  \/ /\ x.operation = "add_node" /\ x.path = NoPath /\ x.new = new.nodes[x.id]
            /\ x.id \in DOMAIN new.nodes \ DOMAIN old.nodes
         \/ /\ x.operation = "remove_node" /\ x.path = NoPath /\ x.new = None
            /\ x.id \in DOMAIN old.nodes \ DOMAIN new.nodes
         \/ /\ x.operation = "rename_node" /\ x.path = NamePath /\ x.new = new.nodes[x.id].name
            /\ x.id \in Kept(old, new) /\ old.nodes[x.id].name # new.nodes[x.id].name
         \/ /\ x.operation = "modify_node" /\ x.id \in Kept(old, new)
            /\ \E p \in Param :
                 \/ WholeDiffers(old, new, x.id, p) /\ x.path = WholePath(p) /\ x.new = ParamOf(new, x.id, p)
                 \/ \E k \in Sub : /\ KeyDiffers(old, new, x.id, p, k) /\ x.path = KeyPath(p, k)
                                   /\ x.new = ParamOf(new, x.id, p)[k]
         \/ /\ x.operation = "add_edge" /\ x.path = NoPath /\ x.id \in new.edges \ old.edges
         \/ /\ x.operation = "remove_edge" /\ x.path = NoPath /\ x.id \in old.edges \ new.edges
         \/ /\ x.operation = "modify_settings" /\ x.path = SettingsPath /\ x.id = Settings
            /\ x.new = new.settings /\ new.settings # old.settings
  BY DiffForm DEF Ent

(* What the diff has an entry for.                                         *)
LEMMA DiffHas ==
  ASSUME NEW old, NEW new
  PROVE  /\ \A n \in DOMAIN new.nodes \ DOMAIN old.nodes :
              Ent("add_node", n, NoPath, new.nodes[n]) \in PlainDiff(old, new)
         /\ \A n \in DOMAIN old.nodes \ DOMAIN new.nodes :
              Ent("remove_node", n, NoPath, None) \in PlainDiff(old, new)
         /\ \A n \in Kept(old, new) :
              /\ old.nodes[n].name # new.nodes[n].name =>
                   Ent("rename_node", n, NamePath, new.nodes[n].name) \in PlainDiff(old, new)
              /\ \A p \in Param :
                   /\ WholeDiffers(old, new, n, p) =>
                        Ent("modify_node", n, WholePath(p), ParamOf(new, n, p)) \in PlainDiff(old, new)
                   /\ \A k \in Sub : KeyDiffers(old, new, n, p, k) =>
                        Ent("modify_node", n, KeyPath(p, k), ParamOf(new, n, p)[k]) \in PlainDiff(old, new)
         /\ \A e \in new.edges \ old.edges : Ent("add_edge", e, NoPath, None) \in PlainDiff(old, new)
         /\ \A e \in old.edges \ new.edges : Ent("remove_edge", e, NoPath, None) \in PlainDiff(old, new)
         /\ new.settings # old.settings => Ent("modify_settings", Settings, SettingsPath, new.settings) \in PlainDiff(old, new)
<1>1. /\ \A n \in DOMAIN new.nodes \ DOMAIN old.nodes :
           Ent("add_node", n, NoPath, new.nodes[n]) \in PlainDiff(old, new)
      /\ \A n \in DOMAIN old.nodes \ DOMAIN new.nodes :
           Ent("remove_node", n, NoPath, None) \in PlainDiff(old, new)
  BY DEF PlainDiff, NoPath
<1>2. /\ \A e \in new.edges \ old.edges : Ent("add_edge", e, NoPath, None) \in PlainDiff(old, new)
      /\ \A e \in old.edges \ new.edges : Ent("remove_edge", e, NoPath, None) \in PlainDiff(old, new)
  BY DEF PlainDiff, NoPath
<1>3. ASSUME NEW n \in Kept(old, new), old.nodes[n].name # new.nodes[n].name
      PROVE  Ent("rename_node", n, NamePath, new.nodes[n].name) \in PlainDiff(old, new)
  BY <1>3 DEF PlainDiff, NamePath
<1>4. ASSUME NEW n \in Kept(old, new), NEW p \in Param
      PROVE  /\ WholeDiffers(old, new, n, p) =>
                  Ent("modify_node", n, WholePath(p), ParamOf(new, n, p)) \in PlainDiff(old, new)
             /\ \A k \in Sub : KeyDiffers(old, new, n, p, k) =>
                  Ent("modify_node", n, KeyPath(p, k), ParamOf(new, n, p)[k]) \in PlainDiff(old, new)
  <2>1. WholeDiffers(old, new, n, p) => Ent("modify_node", n, WholePath(p), ParamOf(new, n, p)) \in Dict(old, new, n)
    BY DEF Dict, PlainDicts, WholeDiffers, BothRecords, ParamOf, WholePath
  <2>2. ASSUME NEW k \in Sub, KeyDiffers(old, new, n, p, k)
        PROVE  Ent("modify_node", n, KeyPath(p, k), ParamOf(new, n, p)[k]) \in Dict(old, new, n)
    <3> DEFINE v == old.nodes[n].parameters
               w == new.nodes[n].parameters
               keys == {Ent("modify_node", n, <<"parameters", p, j>>, w[p][j]) :
                          j \in {j \in Sub : v[p][j] # w[p][j]}}
    <3>1. v[p] # w[p] /\ v[p] \in Record /\ w[p] \in Record
      BY <2>2 DEF KeyDiffers, BothRecords, ParamOf
    <3>2. Ent("modify_node", n, KeyPath(p, k), ParamOf(new, n, p)[k]) \in keys
      BY <2>2 DEF KeyDiffers, ParamOf, KeyPath
    <3>3. keys \subseteq PlainDicts(n, v, w)
      BY <3>1 DEF PlainDicts
    <3> QED BY <3>2, <3>3 DEF Dict
  <2>3. Dict(old, new, n) \subseteq PlainDiff(old, new)
    BY DEF PlainDiff, Dict
  <2> QED BY <2>1, <2>2, <2>3
<1>5. new.settings # old.settings => Ent("modify_settings", Settings, SettingsPath, new.settings) \in PlainDiff(old, new)
  BY DEF PlainDiff, SettingsPath
<1> QED BY <1>1, <1>2, <1>3, <1>4, <1>5

(* An entry of a diff is told by its operation, what it is about and its   *)
(* path.                                                                   *)
LEMMA DiffEntry ==
  ASSUME NEW old, NEW new, NEW x \in PlainDiff(old, new)
  PROVE  /\ x.operation = "add_node" => x = Ent("add_node", x.id, NoPath, new.nodes[x.id])
         /\ x.operation = "remove_node" => x = Ent("remove_node", x.id, NoPath, None)
         /\ x.operation = "add_edge" => x = Ent("add_edge", x.id, NoPath, None)
         /\ x.operation = "remove_edge" => x = Ent("remove_edge", x.id, NoPath, None)
         /\ x.path = NamePath => /\ x.id \in Kept(old, new) /\ old.nodes[x.id].name # new.nodes[x.id].name
                                 /\ x = Ent("rename_node", x.id, NamePath, new.nodes[x.id].name)
         /\ \A p : x.path = WholePath(p) =>
              /\ x.id \in Kept(old, new) /\ p \in Param /\ WholeDiffers(old, new, x.id, p)
              /\ x = Ent("modify_node", x.id, WholePath(p), ParamOf(new, x.id, p))
         /\ \A p, k : x.path = KeyPath(p, k) =>
              /\ x.id \in Kept(old, new) /\ p \in Param /\ k \in Sub /\ KeyDiffers(old, new, x.id, p, k)
              /\ x = Ent("modify_node", x.id, KeyPath(p, k), ParamOf(new, x.id, p)[k])
         /\ x.operation = "modify_settings" \/ x.path = SettingsPath =>
              x = Ent("modify_settings", Settings, SettingsPath, new.settings) /\ new.settings # old.settings
<1>1. x = Ent(x.operation, x.id, x.path, x.new)
  BY DiffForm DEF Ent
<1>2. x.operation \in {"add_edge", "remove_edge"} => x.new = None
  BY DiffForm DEF Ent
<1>3. x.path = NamePath =>
        /\ x.operation = "rename_node" /\ x.new = new.nodes[x.id].name
        /\ x.id \in Kept(old, new) /\ old.nodes[x.id].name # new.nodes[x.id].name
  BY DiffSays, PathsDiffer
<1>4. \A p : x.path = WholePath(p) =>
        /\ x.operation = "modify_node" /\ x.id \in Kept(old, new) /\ p \in Param
        /\ WholeDiffers(old, new, x.id, p) /\ x.new = ParamOf(new, x.id, p)
  BY DiffSays, PathsDiffer, PathsName
<1>5. \A p, k : x.path = KeyPath(p, k) =>
        /\ x.operation = "modify_node" /\ x.id \in Kept(old, new) /\ p \in Param /\ k \in Sub
        /\ KeyDiffers(old, new, x.id, p, k) /\ x.new = ParamOf(new, x.id, p)[k]
  BY DiffSays, PathsDiffer, PathsName
<1>6. x.operation \in {"add_node", "remove_node", "add_edge", "remove_edge"} => x.path = NoPath
  BY DiffSays
<1>7. /\ x.operation = "add_node" => x.new = new.nodes[x.id]
      /\ x.operation = "remove_node" => x.new = None
  BY DiffSays
<1>8. x.operation = "modify_settings" \/ x.path = SettingsPath =>
        /\ x.operation = "modify_settings" /\ x.path = SettingsPath /\ x.id = Settings
        /\ x.new = new.settings /\ new.settings # old.settings
  BY DiffSays, PathsDiffer
<1> QED BY <1>1, <1>2, <1>3, <1>4, <1>5, <1>6, <1>7, <1>8

-----------------------------------------------------------------------------
(* Patching a document.                                                    *)

ChangesOf(entries, n) == {e \in entries : e.operation \in {"rename_node", "modify_node"} /\ e.id = n}
HasPath(entries, path) == \E e \in entries : e.path = path

\* Some of the entries the diff has for a node.
SomeChanges(entries, old, new, n) == entries \subseteq ChangesOf(PlainDiff(old, new), n)

(* Entries for the fields of a node, one value for each path, and none     *)
(* above another.                                                          *)
FieldEntries(entries) ==
  /\ \A e \in entries : e.path = NamePath \/ \E q : e.path = WholePath(q) \/ \E k \in Sub : e.path = KeyPath(q, k)
  /\ \A e, f \in entries : e.path = f.path => e.new = f.new
  /\ \A e, f \in entries : \A q, k : ~(e.path = WholePath(q) /\ f.path = KeyPath(q, k))

(* What they make of a parameter: what the entry for the whole says, or a  *)
(* record with what the entries for its keys say.                          *)
LEMMA SetNestedTo ==
  ASSUME NEW entries, FieldEntries(entries), NEW p \in Param, NEW value
  PROVE  /\ \A e \in entries : e.path = WholePath(p) => setNested(value, p, entries) = e.new
         /\ ~HasPath(entries, WholePath(p)) /\ (\A k \in Sub : ~HasPath(entries, KeyPath(p, k))) =>
              setNested(value, p, entries) = value
         /\ ~HasPath(entries, WholePath(p)) /\ value \in Record =>
              /\ setNested(value, p, entries) = [k \in Sub |-> setNested(value, p, entries)[k]]
              /\ \A k \in Sub :
                   /\ ~HasPath(entries, KeyPath(p, k)) => setNested(value, p, entries)[k] = value[k]
                   /\ \A e \in entries : e.path = KeyPath(p, k) => setNested(value, p, entries)[k] = e.new
<1> DEFINE whole == {e \in entries : e.path = <<"parameters", p>>}
           under == {e \in entries : Len(e.path) = 3 /\ e.path[2] = p}
           given == IF whole = {} THEN value ELSE (CHOOSE e \in whole : TRUE).new
           record == IF given \in Record THEN given ELSE [k \in Sub |-> None]
           at(k) == CHOOSE e \in under : e.path[3] = k
<1>0. setNested(value, p, entries) =
        IF under = {} \/ given \in Scalar THEN given
        ELSE [k \in Sub |-> IF \E e \in under : e.path[3] = k THEN at(k).new ELSE record[k]]
  BY DEF setNested
<1>1. /\ \A e \in entries : e.path = NamePath \/ \E q : e.path = WholePath(q) \/ \E k \in Sub : e.path = KeyPath(q, k)
      /\ \A e, f \in entries : e.path = f.path => e.new = f.new
  BY DEF FieldEntries
<1>2. whole = {e \in entries : e.path = WholePath(p)}
  BY DEF WholePath
<1>3. \A e \in whole : (CHOOSE f \in whole : TRUE).new = e.new
  BY <1>1, <1>2
<1>4. \A e \in under : \E k \in Sub : e.path = KeyPath(p, k)
  BY <1>1, PathsDiffer
<1>5. \A k : \A e \in entries : e.path = KeyPath(p, k) => e \in under /\ e.path[3] = k
  BY PathsDiffer
<1>6. \A k : \A e \in under : e.path[3] = k => e.path = KeyPath(p, k)
  BY <1>4, PathsDiffer
<1>7. HasPath(entries, WholePath(p)) <=> whole # {}
  BY <1>2 DEF HasPath
<1>8. \A k \in Sub : HasPath(entries, KeyPath(p, k)) <=> \E e \in under : e.path[3] = k
  BY <1>5, <1>6 DEF HasPath
<1>9. \A k : \A e \in entries : e.path = KeyPath(p, k) => at(k).new = e.new
  BY <1>1, <1>5, <1>6
<1>10. CASE whole # {}
  <2>1. under = {}
    BY <1>2, <1>4, <1>10 DEF FieldEntries
  <2>2. setNested(value, p, entries) = (CHOOSE e \in whole : TRUE).new
    BY <1>0, <1>10, <2>1
  <2> QED BY <1>2, <1>3, <1>7, <1>10, <2>2
<1>11. CASE whole = {} /\ under = {}
  <2>1. \A k \in Sub : ~HasPath(entries, KeyPath(p, k)) /\ \A e \in entries : e.path # KeyPath(p, k)
    BY <1>5, <1>8, <1>11
  <2>2. value \in Record => value = [k \in Sub |-> value[k]]
    BY DEF Record
  <2>3. \A e \in entries : e.path # WholePath(p)
    BY <1>2, <1>11
  <2>4. setNested(value, p, entries) = value
    BY <1>0, <1>11
  <2> HIDE DEF whole, under, given, record, at
  <2> QED BY <2>1, <2>2, <2>3, <2>4
<1>12. CASE whole = {} /\ under # {}
  <2>1. /\ value \in Record => value \notin Scalar /\ record = value
        /\ given = value
    BY <1>12, DocsAssumption
  <2>2. \A e \in entries : e.path # WholePath(p)
    BY <1>2, <1>12
  <2>3. \E k \in Sub : HasPath(entries, KeyPath(p, k))
    BY <1>4, <1>12 DEF HasPath
  <2>4. ASSUME value \in Record
        PROVE  setNested(value, p, entries) =
                 [k \in Sub |-> IF \E e \in under : e.path[3] = k THEN at(k).new ELSE value[k]]
    BY <1>0, <1>12, <2>1, <2>4
  <2>5. \A k \in Sub : \A e \in entries : e.path = KeyPath(p, k) => \E f \in under : f.path[3] = k
    BY <1>5
  <2> HIDE DEF whole, under, at, given, record
  <2> QED BY <1>8, <1>9, <2>2, <2>3, <2>4, <2>5
<1> QED BY <1>10, <1>11, <1>12

(* Some of the entries of a diff for a node.                               *)
LEMMA DiffFields ==
  ASSUME NEW old, NEW new, NEW n, NEW entries, SomeChanges(entries, old, new, n)
  PROVE  /\ FieldEntries(entries)
         /\ \A e \in entries :
              /\ e.path = NamePath => e.new = new.nodes[n].name
              /\ \A q : e.path = WholePath(q) => e.new = ParamOf(new, n, q)
              /\ \A q, k : e.path = KeyPath(q, k) => e.new = ParamOf(new, n, q)[k]
<1>1. \A e \in entries : e \in PlainDiff(old, new) /\ e.id = n /\ e.operation \in {"rename_node", "modify_node"}
  BY DEF ChangesOf, SomeChanges
<1>2. \A e \in entries : e.path = NamePath \/ \E q : e.path = WholePath(q) \/ \E k \in Sub : e.path = KeyPath(q, k)
  <2>1. \A e \in PlainDiff(old, new) : e.operation \in {"rename_node", "modify_node"} =>
          e.path = NamePath \/ \E q : e.path = WholePath(q) \/ \E k \in Sub : e.path = KeyPath(q, k)
    <3> SUFFICES ASSUME NEW e \in PlainDiff(old, new), e.operation \in {"rename_node", "modify_node"}
                 PROVE  e.path = NamePath \/ \E q : e.path = WholePath(q) \/ \E k \in Sub : e.path = KeyPath(q, k)
      OBVIOUS
    <3> QED BY DiffSays
  <2> QED BY <1>1, <2>1
<1>3. \A e \in entries :
        /\ e.path = NamePath => e.new = new.nodes[n].name
        /\ \A q : e.path = WholePath(q) => e.new = ParamOf(new, n, q)
        /\ \A q, k : e.path = KeyPath(q, k) => e.new = ParamOf(new, n, q)[k]
  BY <1>1, DiffEntry DEF Ent
<1>4. \A e, f \in entries : \A q, k : ~(e.path = WholePath(q) /\ f.path = KeyPath(q, k))
  BY <1>1, DiffEntry DEF WholeDiffers, KeyDiffers
<1> QED BY <1>2, <1>3, <1>4 DEF FieldEntries

(* What some of the entries of a diff for a node make of a parameter: its  *)
(* new value, its old one, or a record of both.                            *)
LEMMA SetNestedIs ==
  ASSUME NEW old, NEW new, NEW n, NEW entries, SomeChanges(entries, old, new, n),
         NEW p \in Param, NEW value
  PROVE  /\ HasPath(entries, WholePath(p)) => setNested(value, p, entries) = ParamOf(new, n, p)
         /\ ~HasPath(entries, WholePath(p)) /\ (\A k \in Sub : ~HasPath(entries, KeyPath(p, k))) =>
              setNested(value, p, entries) = value
         /\ ~HasPath(entries, WholePath(p)) /\ value \in Record =>
              setNested(value, p, entries) =
                [k \in Sub |-> IF HasPath(entries, KeyPath(p, k)) THEN ParamOf(new, n, p)[k] ELSE value[k]]
<1>3. \A e \in entries :
        /\ e.path = NamePath => e.new = new.nodes[n].name
        /\ \A q : e.path = WholePath(q) => e.new = ParamOf(new, n, q)
        /\ \A q, k : e.path = KeyPath(q, k) => e.new = ParamOf(new, n, q)[k]
  BY DiffFields
<1>4. FieldEntries(entries)
  BY DiffFields
<1>5. /\ \A e \in entries : e.path = WholePath(p) => setNested(value, p, entries) = e.new
      /\ ~HasPath(entries, WholePath(p)) /\ (\A k \in Sub : ~HasPath(entries, KeyPath(p, k))) =>
           setNested(value, p, entries) = value
  BY <1>4, SetNestedTo
<1>6. HasPath(entries, WholePath(p)) => setNested(value, p, entries) = ParamOf(new, n, p)
  BY <1>3, <1>5 DEF HasPath
<1>7. ASSUME ~HasPath(entries, WholePath(p)), value \in Record
      PROVE  setNested(value, p, entries) =
               [k \in Sub |-> IF HasPath(entries, KeyPath(p, k)) THEN ParamOf(new, n, p)[k] ELSE value[k]]
  <2> DEFINE w == setNested(value, p, entries)
  <2>1. /\ w = [k \in Sub |-> w[k]]
        /\ \A k \in Sub : /\ ~HasPath(entries, KeyPath(p, k)) => w[k] = value[k]
                          /\ \A e \in entries : e.path = KeyPath(p, k) => w[k] = e.new
    BY <1>4, <1>7, SetNestedTo
  <2> HIDE DEF w
  <2>2. \A k \in Sub : w[k] = IF HasPath(entries, KeyPath(p, k)) THEN ParamOf(new, n, p)[k] ELSE value[k]
    BY <1>3, <2>1 DEF HasPath
  <2> QED BY <2>1, <2>2 DEF w
<1> QED BY <1>5, <1>6, <1>7

(* And of the name.                                                        *)
LEMMA NameTo ==
  ASSUME NEW entries, FieldEntries(entries), NEW node
  PROVE  /\ \A e \in entries : e.path = NamePath => patched(node, entries).name = e.new
         /\ ~HasPath(entries, NamePath) => patched(node, entries).name = node.name
<1> DEFINE renames == {e \in entries : e.path = <<"name">>}
<1>1. \A e, f \in entries : e.path = f.path => e.new = f.new
  BY DEF FieldEntries
<1>2. renames = {e \in entries : e.path = NamePath}
  BY DEF NamePath
<1>3. patched(node, entries).name = IF renames = {} THEN node.name ELSE (CHOOSE e \in renames : TRUE).new
  BY DEF patched
<1>4. \A e \in renames : (CHOOSE f \in renames : TRUE).new = e.new
  BY <1>1, <1>2
<1> QED BY <1>2, <1>3, <1>4 DEF HasPath

LEMMA NameIs ==
  ASSUME NEW old, NEW new, NEW n, NEW entries, SomeChanges(entries, old, new, n), NEW node
  PROVE  /\ HasPath(entries, NamePath) => patched(node, entries).name = new.nodes[n].name
         /\ ~HasPath(entries, NamePath) => patched(node, entries).name = node.name
  BY DiffFields, NameTo DEF HasPath

LEMMA PatchedIsNode ==
  ASSUME NEW node, NEW entries, NEW m \in IRNode, patched(node, entries).name = m.name,
         \A p \in Param : setNested(node.parameters[p], p, entries) = m.parameters[p]
  PROVE  patched(node, entries) = m
<1>1. m.parameters = [p \in Param |-> m.parameters[p]]
  BY DEF IRNode
<1>2. m = [name |-> m.name, parameters |-> m.parameters]
  BY DEF IRNode
<1>3. patched(node, entries) =
        [name |-> patched(node, entries).name,
         parameters |-> [p \in Param |-> setNested(node.parameters[p], p, entries)]]
  BY DEF patched
<1>4. [p \in Param |-> setNested(node.parameters[p], p, entries)] = [p \in Param |-> m.parameters[p]]
  OBVIOUS
<1> QED BY <1>1, <1>2, <1>3, <1>4

(* What some of the entries of a diff to a document make of another one.   *)
IsApplied(m, base, new, entries) ==
  /\ DOMAIN m.nodes = (DOMAIN base.nodes \cup Of(entries, "add_node")) \ Of(entries, "remove_node")
  /\ \A n \in DOMAIN m.nodes :
       m.nodes[n] = IF n \in Of(entries, "add_node") THEN new.nodes[n]
                    ELSE patched(base.nodes[n], ChangesOf(entries, n))
  /\ m.edges = ({e \in base.edges : ~\E n \in Of(entries, "remove_node") : At(e, n)} \cup Of(entries, "add_edge"))
                 \ Of(entries, "remove_edge")
  /\ m.settings = IF Of(entries, "modify_settings") = {} THEN base.settings ELSE new.settings

LEMMA ApplyIs ==
  ASSUME NEW old, NEW new \in WorkflowIR, NEW entries \in SUBSET PlainDiff(old, new), NEW base
  PROVE  IsApplied(applyDiff(base, entries), base, new, entries)
<1> DEFINE m == applyDiff(base, entries)
           added == Of(entries, "add_node")
           removed == Of(entries, "remove_node")
           ids == (DOMAIN base.nodes \cup added) \ removed
           first(n) == CHOOSE e \in entries : e.operation = "add_node" /\ e.id = n
<1>1. m.nodes = [n \in ids |-> patched(IF n \in added THEN first(n).new ELSE base.nodes[n], ChangesOf(entries, n))]
  BY DEF applyDiff, ChangesOf
<1>2. m.edges = ({e \in base.edges : ~\E n \in removed : At(e, n)} \cup Of(entries, "add_edge"))
                  \ Of(entries, "remove_edge")
  BY DEF applyDiff
<1>3. ASSUME NEW n \in added
      PROVE  patched(first(n).new, ChangesOf(entries, n)) = new.nodes[n]
  <2>1. \E e \in entries : e.operation = "add_node" /\ e.id = n
    BY DEF Of
  <2>2. first(n) \in entries /\ first(n).operation = "add_node" /\ first(n).id = n
    BY <2>1
  <2>3. first(n).new = new.nodes[n] /\ n \in DOMAIN new.nodes \ DOMAIN old.nodes
    BY <2>2, DiffSays
  <2>4. ChangesOf(entries, n) = {}
    BY <2>3, DiffSays DEF ChangesOf, Kept
  <2>5. new.nodes[n] \in IRNode
    BY <2>3, DocTyped
  <2> DEFINE changes == ChangesOf(entries, n)
  <2>6. SomeChanges(changes, old, new, n)
    BY DEF ChangesOf, SomeChanges
  <2>7. \A path : ~HasPath(changes, path)
    BY <2>4 DEF HasPath
  <2> HIDE DEF changes
  <2>8. patched(new.nodes[n], changes).name = new.nodes[n].name
    BY <2>6, <2>7, NameIs
  <2>9. ASSUME NEW p \in Param
        PROVE  setNested(new.nodes[n].parameters[p], p, changes) = new.nodes[n].parameters[p]
    BY <2>6, <2>7, SetNestedIs
  <2> QED BY <2>3, <2>5, <2>8, <2>9, PatchedIsNode DEF changes
<1> HIDE DEF m, added, removed, first
<1>4. DOMAIN m.nodes = ids
  BY <1>1
<1>5. \A n \in ids : m.nodes[n] = IF n \in added THEN new.nodes[n] ELSE patched(base.nodes[n], ChangesOf(entries, n))
  BY <1>1, <1>3
<1>6. m.settings = IF Of(entries, "modify_settings") = {} THEN base.settings ELSE new.settings
  <2>1. m.settings = IF Of(entries, "modify_settings") = {} THEN base.settings
                     ELSE (CHOOSE e \in entries : e.operation = "modify_settings").new
    BY DEF m, applyDiff
  <2>2. Of(entries, "modify_settings") # {} => \E e \in entries : e.operation = "modify_settings"
    BY DEF Of
  <2>3. \A e \in entries : e.operation = "modify_settings" => e.new = new.settings
    BY DiffSays
  <2> QED BY <2>1, <2>2, <2>3
<1> QED BY <1>2, <1>4, <1>5, <1>6 DEF m, added, removed, IsApplied

(* What a whole diff is about.                                             *)
LEMMA DiffOf ==
  ASSUME NEW old, NEW new
  PROVE  /\ Of(PlainDiff(old, new), "add_node") = DOMAIN new.nodes \ DOMAIN old.nodes
         /\ Of(PlainDiff(old, new), "remove_node") = DOMAIN old.nodes \ DOMAIN new.nodes
         /\ Of(PlainDiff(old, new), "add_edge") = new.edges \ old.edges
         /\ Of(PlainDiff(old, new), "remove_edge") = old.edges \ new.edges
         /\ Of(PlainDiff(old, new), "modify_settings") # {} <=> new.settings # old.settings
<1> DEFINE diff == PlainDiff(old, new)
<1>1. /\ Of(diff, "add_node") \subseteq DOMAIN new.nodes \ DOMAIN old.nodes
      /\ Of(diff, "remove_node") \subseteq DOMAIN old.nodes \ DOMAIN new.nodes
      /\ Of(diff, "add_edge") \subseteq new.edges \ old.edges
      /\ Of(diff, "remove_edge") \subseteq old.edges \ new.edges
  BY DiffSays DEF Of
<1>2. \A op, id, path, v : Ent(op, id, path, v) \in diff => id \in Of(diff, op)
  BY DEF Of, Ent
<1>3. /\ DOMAIN new.nodes \ DOMAIN old.nodes \subseteq Of(diff, "add_node")
      /\ DOMAIN old.nodes \ DOMAIN new.nodes \subseteq Of(diff, "remove_node")
      /\ new.edges \ old.edges \subseteq Of(diff, "add_edge")
      /\ old.edges \ new.edges \subseteq Of(diff, "remove_edge")
  <2> HIDE DEF diff
  <2> QED BY <1>2, DiffHas DEF diff
<1>4. Of(diff, "modify_settings") # {} => new.settings # old.settings
  BY DiffSays DEF Of
<1>5. new.settings # old.settings => Of(diff, "modify_settings") # {}
  <2> HIDE DEF diff
  <2> QED BY <1>2, DiffHas DEF diff
<1> QED BY <1>1, <1>3, <1>4, <1>5

(* What a diff changes of a node: its name and its parameters, where they  *)
(* differ.                                                                 *)
LEMMA DiffPaths ==
  ASSUME NEW old, NEW new, NEW n \in Kept(old, new)
  PROVE  LET changes == ChangesOf(PlainDiff(old, new), n)
         IN  /\ HasPath(changes, NamePath) <=> old.nodes[n].name # new.nodes[n].name
             /\ \A p \in Param :
                  /\ HasPath(changes, WholePath(p)) <=> WholeDiffers(old, new, n, p)
                  /\ \A k \in Sub : HasPath(changes, KeyPath(p, k)) <=> KeyDiffers(old, new, n, p, k)
<1> DEFINE changes == ChangesOf(PlainDiff(old, new), n)
<1>1. \A op \in {"rename_node", "modify_node"} : \A path, v :
        Ent(op, n, path, v) \in PlainDiff(old, new) => HasPath(changes, path)
  BY DEF ChangesOf, HasPath, Ent
<1>2. /\ old.nodes[n].name # new.nodes[n].name => HasPath(changes, NamePath)
      /\ \A p \in Param : /\ WholeDiffers(old, new, n, p) => HasPath(changes, WholePath(p))
                          /\ \A k \in Sub : KeyDiffers(old, new, n, p, k) => HasPath(changes, KeyPath(p, k))
  <2> HIDE DEF changes
  <2> QED BY <1>1, DiffHas
<1>3. HasPath(changes, NamePath) => old.nodes[n].name # new.nodes[n].name
  BY DiffEntry DEF ChangesOf, HasPath
<1>4. \A p \in Param : /\ HasPath(changes, WholePath(p)) => WholeDiffers(old, new, n, p)
                       /\ \A k \in Sub : HasPath(changes, KeyPath(p, k)) => KeyDiffers(old, new, n, p, k)
  BY DiffEntry DEF ChangesOf, HasPath
<1> HIDE DEF changes
<1> QED BY <1>2, <1>3, <1>4 DEF changes

(* Applying all of a diff's entries for a parameter gives its new value.   *)
LEMMA FieldGiven ==
  ASSUME NEW old, NEW new, NEW n, NEW p \in Param, NEW changes, SomeChanges(changes, old, new, n),
         HasPath(changes, WholePath(p)) <=> WholeDiffers(old, new, n, p),
         \A k \in Sub : HasPath(changes, KeyPath(p, k)) <=> KeyDiffers(old, new, n, p, k)
  PROVE  setNested(ParamOf(old, n, p), p, changes) = ParamOf(new, n, p)
<1> DEFINE v == ParamOf(old, n, p)
           w == ParamOf(new, n, p)
<1>1. /\ HasPath(changes, WholePath(p)) <=> v # w /\ ~BothRecords(v, w)
      /\ \A k \in Sub : HasPath(changes, KeyPath(p, k)) <=> BothRecords(v, w) /\ v[k] # w[k]
  BY DEF WholeDiffers, KeyDiffers
<1>2. /\ HasPath(changes, WholePath(p)) => setNested(v, p, changes) = w
      /\ ~HasPath(changes, WholePath(p)) /\ (\A k \in Sub : ~HasPath(changes, KeyPath(p, k))) =>
           setNested(v, p, changes) = v
      /\ ~HasPath(changes, WholePath(p)) /\ v \in Record =>
           setNested(v, p, changes) = [k \in Sub |-> IF HasPath(changes, KeyPath(p, k)) THEN w[k] ELSE v[k]]
  BY SetNestedIs
<1>3. BothRecords(v, w) => w = [k \in Sub |-> w[k]]
  BY DEF BothRecords, Record
<1> HIDE DEF v, w
<1>4. CASE BothRecords(v, w)
  <2>1. [k \in Sub |-> IF HasPath(changes, KeyPath(p, k)) THEN w[k] ELSE v[k]] = [k \in Sub |-> w[k]]
    BY <1>1, <1>4
  <2> QED BY <1>1, <1>2, <1>3, <1>4, <2>1 DEF BothRecords, v, w
<1>5. CASE ~BothRecords(v, w)
  BY <1>1, <1>2, <1>5 DEF v, w
<1> QED BY <1>4, <1>5

(* Applied to the document it was computed from, such a diff gives the     *)
(* document it was computed to.                                            *)
LEMMA PlainRoundTrips ==
  ASSUME NEW old \in WorkflowIR, NEW new \in WorkflowIR
  PROVE  applyDiff(old, PlainDiff(old, new)) = new
<1> DEFINE diff == PlainDiff(old, new)
           m == applyDiff(old, diff)
<1>1. /\ DOMAIN m.nodes = DOMAIN new.nodes
      /\ \A n \in DOMAIN new.nodes :
           m.nodes[n] = IF n \notin DOMAIN old.nodes THEN new.nodes[n]
                        ELSE patched(old.nodes[n], ChangesOf(diff, n))
      /\ m.edges = ({e \in old.edges : ~\E n \in DOMAIN old.nodes \ DOMAIN new.nodes : At(e, n)}
                      \cup (new.edges \ old.edges)) \ (old.edges \ new.edges)
      /\ m.settings = IF new.settings = old.settings THEN old.settings ELSE new.settings
  <2>1. IsApplied(m, old, new, diff)
    BY ApplyIs
  <2> HIDE DEF m, diff
  <2>2. /\ Of(diff, "add_node") = DOMAIN new.nodes \ DOMAIN old.nodes
        /\ Of(diff, "remove_node") = DOMAIN old.nodes \ DOMAIN new.nodes
        /\ Of(diff, "add_edge") = new.edges \ old.edges
        /\ Of(diff, "remove_edge") = old.edges \ new.edges
        /\ Of(diff, "modify_settings") # {} <=> new.settings # old.settings
    BY DiffOf DEF diff
  <2> QED BY <2>1, <2>2 DEF IsApplied
<1>2. m.edges = new.edges
  BY <1>1, DocTyped
<1>3. ASSUME NEW n \in Kept(old, new) PROVE patched(old.nodes[n], ChangesOf(diff, n)) = new.nodes[n]
  <2> DEFINE changes == ChangesOf(diff, n)
  <2>0. old.nodes[n] \in IRNode /\ new.nodes[n] \in IRNode
    BY DocTyped DEF Kept
  <2>1. patched(old.nodes[n], changes).name = new.nodes[n].name
    <3>1. SomeChanges(changes, old, new, n)
      BY DEF SomeChanges
    <3>2. HasPath(changes, NamePath) <=> old.nodes[n].name # new.nodes[n].name
      BY DiffPaths
    <3> HIDE DEF changes
    <3> QED BY <3>1, <3>2, NameIs
  <2>2. ASSUME NEW p \in Param PROVE setNested(old.nodes[n].parameters[p], p, changes) = new.nodes[n].parameters[p]
    <3>1. /\ HasPath(changes, WholePath(p)) <=> WholeDiffers(old, new, n, p)
          /\ \A k \in Sub : HasPath(changes, KeyPath(p, k)) <=> KeyDiffers(old, new, n, p, k)
      BY DiffPaths
    <3>2. SomeChanges(changes, old, new, n)
      BY DEF SomeChanges
    <3> HIDE DEF changes
    <3> QED BY <3>1, <3>2, FieldGiven DEF ParamOf
  <2> QED BY <2>0, <2>1, <2>2, PatchedIsNode
<1>4. \A n \in DOMAIN new.nodes : m.nodes[n] = new.nodes[n]
  BY <1>1, <1>3 DEF Kept
<1>5. m = [nodes |-> m.nodes, edges |-> m.edges, settings |-> m.settings] /\ m.nodes = [n \in DOMAIN m.nodes |-> m.nodes[n]]
  BY DEF applyDiff
<1>6. /\ new.nodes = [n \in DOMAIN new.nodes |-> new.nodes[n]]
      /\ new = [nodes |-> new.nodes, edges |-> new.edges, settings |-> new.settings]
  BY DocTyped
<1> HIDE DEF m
<1> QED BY <1>1, <1>2, <1>4, <1>5, <1>6 DEF m

(* A diff carries one document to the other: applied to the document it    *)
(* was computed from, it gives the document it was computed to             *)
(* (computeDiff, applyDiff), where no node of both differs in a parameter  *)
(* whose key has a dot: that change is written elsewhere (diffDicts joins  *)
(* keys with a dot, setNested splits at every one).                        *)
THEOREM DiffRoundTrips ==
  ASSUME NEW old \in WorkflowIR, NEW new \in WorkflowIR,
         \A n \in Kept(old, new), q \in Dotted : new.nodes[n].parameters[q] = old.nodes[n].parameters[q]
  PROVE  applyDiff(old, computeDiff(old, new)) = new
<1>1. computeDiff(old, new) = PlainDiff(old, new)
  BY PlainDiffIs DEF Undotted
<1> QED BY <1>1, PlainRoundTrips

-----------------------------------------------------------------------------
(* Two diffs, entry by entry.                                              *)

Documents == {ancestor, source, target} \subseteq WorkflowIR

\* Neither side changed a parameter whose key has a dot.
PlainDiffs == sourceDiff = PlainDiff(ancestor, source) /\ targetDiff = PlainDiff(ancestor, target)

LEMMA DiffsArePlain ==
  ASSUME ~DottedChange
  PROVE  PlainDiffs
<1>1. Undotted(ancestor, source) /\ Undotted(ancestor, target)
  BY DEF DottedChange, Undotted
<1> QED BY <1>1, PlainDiffIs DEF PlainDiffs, sourceDiff, targetDiff

(* Two entries have the same key if they are about the same edge, or about *)
(* the same part of the same node.                                         *)
LEMMA SameKey ==
  ASSUME NEW old, NEW new, NEW newer, NEW e \in PlainDiff(old, new), NEW f \in PlainDiff(old, newer)
  PROVE  keyOf(e) = keyOf(f) <=>
           /\ e.id = f.id
           /\ \/ e.operation \in EdgeOp /\ f.operation \in EdgeOp
              \/ e.operation \notin EdgeOp /\ f.operation \notin EdgeOp /\ e.path = f.path
<1>1. e.path # EdgePath /\ f.path # EdgePath
  BY DiffSays, PathsDiffer
<1>2. keyOf(e) = IF e.operation \in EdgeOp THEN <<e.id, EdgePath>> ELSE <<e.id, e.path>>
  BY DEF keyOf, EdgePath
<1>3. keyOf(f) = IF f.operation \in EdgeOp THEN <<f.id, EdgePath>> ELSE <<f.id, f.path>>
  BY DEF keyOf, EdgePath
<1> QED BY <1>1, <1>2, <1>3

(* A node of both documents has changed exactly if its name or a parameter *)
(* has an entry.                                                           *)
LEMMA ModifiedIs ==
  ASSUME NEW old \in WorkflowIR, NEW new \in WorkflowIR, NEW n
  PROVE  n \in nodeIdsModified(PlainDiff(old, new)) <=>
           n \in Kept(old, new) /\ old.nodes[n] # new.nodes[n]
<1> DEFINE diff == PlainDiff(old, new)
<1>1. n \in nodeIdsModified(diff) <=>
        \E e \in diff : e.operation \in {"rename_node", "modify_node"} /\ e.id = n
  BY DEF nodeIdsModified, Of
<1>2. ASSUME NEW e \in diff, e.operation \in {"rename_node", "modify_node"}, e.id = n
      PROVE  n \in Kept(old, new) /\ old.nodes[n] # new.nodes[n]
  BY <1>2, DiffSays DEF WholeDiffers, KeyDiffers, ParamOf
<1>3. ASSUME n \in Kept(old, new), old.nodes[n] # new.nodes[n]
      PROVE  \E e \in diff : e.operation \in {"rename_node", "modify_node"} /\ e.id = n
  <2>0. \A op \in {"rename_node", "modify_node"} : \A path, v :
          Ent(op, n, path, v) \in PlainDiff(old, new) =>
            \E e \in diff : e.operation \in {"rename_node", "modify_node"} /\ e.id = n
    BY DEF Ent
  <2> HIDE DEF diff
  <2>1. old.nodes[n] \in IRNode /\ new.nodes[n] \in IRNode
    BY <1>3, DocTyped DEF Kept
  <2>2. CASE old.nodes[n].name # new.nodes[n].name
    BY <1>3, <2>0, <2>2, DiffHas
  <2>3. CASE \E p \in Param : WholeDiffers(old, new, n, p)
    BY <1>3, <2>0, <2>3, DiffHas
  <2>4. CASE \E p \in Param, k \in Sub : KeyDiffers(old, new, n, p, k)
    BY <1>3, <2>0, <2>4, DiffHas
  <2>5. CASE /\ old.nodes[n].name = new.nodes[n].name
             /\ \A p \in Param : /\ ~WholeDiffers(old, new, n, p)
                                 /\ \A k \in Sub : ~KeyDiffers(old, new, n, p, k)
    <3>1. \A p \in Param : ParamOf(old, n, p) = ParamOf(new, n, p)
      BY <2>5 DEF WholeDiffers, KeyDiffers, BothRecords, Record
    <3> QED BY <1>3, <2>1, <2>5, <3>1, NodesDiffer DEF ParamOf
  <2> QED BY <2>2, <2>3, <2>4, <2>5
<1> QED BY <1>1, <1>2, <1>3


-----------------------------------------------------------------------------
(* The conflicts of a merge.                                               *)

FieldClash(c) ==
  \E n \in NodeId : Everywhere(n) /\
    \/ /\ Clash(ancestor.nodes[n].name, source.nodes[n].name, target.nodes[n].name)
       /\ c = Conflict("field", n, NamePath)
    \/ \E p \in Param :
         c \in ClashValue(n, p, ParamOf(ancestor, n, p), ParamOf(source, n, p), ParamOf(target, n, p))

AddClash(c) ==
  \E n \in NodeId : /\ ~Has(ancestor, n) /\ Has(source, n) /\ Has(target, n) /\ source.nodes[n] # target.nodes[n]
                    /\ c = Conflict("add_add", n, NoPath)

DeleteClash(c) ==
  \E n \in NodeId : /\ \/ Changed(source, n) /\ ~Has(target, n)
                       \/ Changed(target, n) /\ ~Has(source, n)
                    /\ c = Conflict("edit_delete", n, NoPath)

SettingsClash(c) == c = SettingsConflict /\ Clash(ancestor.settings, source.settings, target.settings)

LEMMA ClashForm ==
  ASSUME NEW c
  PROVE  c \in Clashes <=> FieldClash(c) \/ AddClash(c) \/ DeleteClash(c) \/ SettingsClash(c)
<1> DEFINE names == {Conflict("field", n, <<"name">>) :
             n \in {n \in NodeId : Everywhere(n) /\ Clash(ancestor.nodes[n].name, source.nodes[n].name, target.nodes[n].name)}}
           values == UNION {ClashValue(n, p, ancestor.nodes[n].parameters[p], source.nodes[n].parameters[p],
                                       target.nodes[n].parameters[p]) :
                              n \in {n \in NodeId : Everywhere(n)}, p \in Param}
           adds == {Conflict("add_add", n, <<>>) :
                      n \in {n \in NodeId : /\ ~Has(ancestor, n) /\ Has(source, n) /\ Has(target, n)
                                            /\ source.nodes[n] # target.nodes[n]}}
           deletes == {Conflict("edit_delete", n, <<>>) :
                         n \in {n \in NodeId : \/ Changed(source, n) /\ ~Has(target, n)
                                               \/ Changed(target, n) /\ ~Has(source, n)}}
<1>1. c \in Clashes <=> c \in names \/ c \in values \/ c \in adds \/ c \in deletes \/ SettingsClash(c)
  BY DEF Clashes, SettingsClash
<1>2. c \in names <=> \E n \in NodeId :
          /\ Everywhere(n) /\ Clash(ancestor.nodes[n].name, source.nodes[n].name, target.nodes[n].name)
          /\ c = Conflict("field", n, NamePath)
  BY DEF NamePath
<1>3. c \in values <=> \E n \in NodeId, p \in Param :
          /\ Everywhere(n)
          /\ c \in ClashValue(n, p, ParamOf(ancestor, n, p), ParamOf(source, n, p), ParamOf(target, n, p))
  BY DEF ParamOf
<1>4. c \in adds <=> AddClash(c)
  BY DEF AddClash, NoPath
<1>5. c \in deletes <=> DeleteClash(c)
  BY DEF DeleteClash, NoPath
<1>6. FieldClash(c) <=> c \in names \/ c \in values
  BY <1>2, <1>3 DEF FieldClash
<1> QED BY <1>1, <1>4, <1>5, <1>6

(* Entries that collide.                                                   *)
LEMMA CollisionForm ==
  ASSUME NEW c
  PROVE  c \in collisions <=>
           \E e \in sourceDiff, f \in targetDiff :
             /\ Collide(e, f)
             /\ c = Conflict(IF e.operation = "add_node" THEN "add_add" ELSE "field", e.id, e.path)
  BY DEF collisions

(* What collides was changed differently.                                  *)
LEMMA CollisionsClash ==
  ASSUME PlainDiffs, Documents, NEW c \in collisions
  PROVE  c \in Clashes
<1>1. PICK e \in sourceDiff, f \in targetDiff :
        /\ Collide(e, f)
        /\ c = Conflict(IF e.operation = "add_node" THEN "add_add" ELSE "field", e.id, e.path)
  BY CollisionForm
<1> DEFINE n == e.id
<1>2. e \in PlainDiff(ancestor, source) /\ f \in PlainDiff(ancestor, target)
  BY DEF PlainDiffs
<1>3. /\ f.id = n /\ e.operation \notin EdgeOp /\ f.operation \notin EdgeOp /\ f.path = e.path
      /\ e.new # f.new \/ e.operation # f.operation
  BY <1>1, <1>2, SameKey DEF Collide
<1>4. ASSUME e.operation \in {"rename_node", "modify_node"}, f.operation \in {"rename_node", "modify_node"}
      PROVE  Everywhere(n) /\ n \in NodeId
  <2>1. n \in Kept(ancestor, source) /\ n \in Kept(ancestor, target)
    BY <1>2, <1>3, <1>4, DiffSays
  <2> QED BY <2>1, DocTyped DEF Kept, Everywhere, Has, Documents
<1>5. CASE e.operation = "add_node"
  <2>1. f.operation = "add_node"
    BY <1>2, <1>3, <1>5, DiffSays, PathsDiffer DEF EdgeOp
  <2>2. n \in DOMAIN source.nodes \ DOMAIN ancestor.nodes /\ n \in DOMAIN target.nodes
    BY <1>2, <1>3, <1>5, <2>1, DiffSays
  <2>3. n \in NodeId
    BY <2>2, DocTyped DEF Documents
  <2>4. source.nodes[n] # target.nodes[n] /\ e.path = NoPath
    BY <1>2, <1>3, <1>5, <2>1, DiffSays
  <2>5. AddClash(c)
    BY <1>1, <1>5, <2>2, <2>3, <2>4 DEF AddClash, Has
  <2> QED BY <2>5, ClashForm
<1>6. CASE e.operation = "remove_node"
  <2>1. f.operation = "remove_node"
    BY <1>2, <1>3, <1>6, DiffSays, PathsDiffer DEF EdgeOp
  <2> QED BY <1>2, <1>3, <1>6, <2>1, DiffSays
<1>7. CASE e.path = NamePath
  <2>1. /\ e = Ent("rename_node", n, NamePath, source.nodes[n].name) /\ ancestor.nodes[n].name # source.nodes[n].name
        /\ f = Ent("rename_node", n, NamePath, target.nodes[n].name) /\ ancestor.nodes[n].name # target.nodes[n].name
    BY <1>2, <1>3, <1>7, DiffEntry
  <2>2. e.operation = "rename_node" /\ f.operation = "rename_node"
        /\ e.new = source.nodes[n].name /\ f.new = target.nodes[n].name
    BY <2>1 DEF Ent
  <2>3. FieldClash(c)
    BY <1>1, <1>3, <1>4, <1>7, <2>1, <2>2 DEF FieldClash, Clash
  <2> QED BY <2>3, ClashForm
<1>8. CASE \E p : e.path = WholePath(p)
  <2>1. PICK p : e.path = WholePath(p)
    BY <1>8
  <2>2. /\ e = Ent("modify_node", n, WholePath(p), ParamOf(source, n, p)) /\ p \in Param
        /\ f = Ent("modify_node", n, WholePath(p), ParamOf(target, n, p))
        /\ WholeDiffers(ancestor, source, n, p) /\ WholeDiffers(ancestor, target, n, p)
    BY <1>2, <1>3, <2>1, DiffEntry
  <2>3. e.operation = "modify_node" /\ f.operation = "modify_node"
        /\ e.new = ParamOf(source, n, p) /\ f.new = ParamOf(target, n, p)
    BY <2>2 DEF Ent
  <2>4. c \in ClashValue(n, p, ParamOf(ancestor, n, p), ParamOf(source, n, p), ParamOf(target, n, p))
    BY <1>1, <1>3, <2>1, <2>2, <2>3 DEF ClashValue, AllRecords, Clash, WholeDiffers, BothRecords, WholePath
  <2>5. FieldClash(c)
    BY <1>4, <2>2, <2>3, <2>4 DEF FieldClash
  <2> QED BY <2>5, ClashForm
<1>9. CASE \E p, k : e.path = KeyPath(p, k)
  <2>1. PICK p, k : e.path = KeyPath(p, k)
    BY <1>9
  <2>2. /\ e = Ent("modify_node", n, KeyPath(p, k), ParamOf(source, n, p)[k]) /\ p \in Param /\ k \in Sub
        /\ f = Ent("modify_node", n, KeyPath(p, k), ParamOf(target, n, p)[k])
        /\ KeyDiffers(ancestor, source, n, p, k) /\ KeyDiffers(ancestor, target, n, p, k)
    BY <1>2, <1>3, <2>1, DiffEntry
  <2>3. e.operation = "modify_node" /\ f.operation = "modify_node"
        /\ e.new = ParamOf(source, n, p)[k] /\ f.new = ParamOf(target, n, p)[k]
    BY <2>2 DEF Ent
  <2>4. c \in ClashValue(n, p, ParamOf(ancestor, n, p), ParamOf(source, n, p), ParamOf(target, n, p))
    BY <1>1, <1>3, <2>1, <2>2, <2>3 DEF ClashValue, AllRecords, Clash, KeyDiffers, BothRecords, KeyPath
  <2>5. FieldClash(c)
    BY <1>4, <2>2, <2>3, <2>4 DEF FieldClash
  <2> QED BY <2>5, ClashForm
<1>10. CASE e.path = SettingsPath
  <2>1. /\ e = Ent("modify_settings", Settings, SettingsPath, source.settings) /\ source.settings # ancestor.settings
        /\ f = Ent("modify_settings", Settings, SettingsPath, target.settings) /\ target.settings # ancestor.settings
    BY <1>2, <1>3, <1>10, DiffEntry
  <2>2. /\ e.operation = "modify_settings" /\ f.operation = "modify_settings" /\ e.id = Settings
        /\ e.new = source.settings /\ f.new = target.settings
    BY <2>1 DEF Ent
  <2>3. SettingsClash(c)
    BY <1>1, <1>3, <1>10, <2>1, <2>2 DEF SettingsClash, SettingsConflict, SettingsPath, Clash
  <2> QED BY <2>3, ClashForm
<1>11. \/ e.operation \in {"add_node", "remove_node"}
       \/ e.path \in {NamePath, SettingsPath}
       \/ \E p : e.path = WholePath(p)
       \/ \E p, k : e.path = KeyPath(p, k)
  BY <1>2, <1>3, DiffSays DEF EdgeOp
<1> QED BY <1>5, <1>6, <1>7, <1>8, <1>9, <1>10, <1>11


(* An entry on either side for the same part of a node collides, if what   *)
(* they make of it differs.                                                *)
LEMMA EntriesCollide ==
  ASSUME NEW op \in {"add_node", "rename_node", "modify_node", "modify_settings"}, NEW n, NEW path, NEW v, NEW w,
         Ent(op, n, path, v) \in sourceDiff, Ent(op, n, path, w) \in targetDiff, v # w
  PROVE  Conflict(IF op = "add_node" THEN "add_add" ELSE "field", n, path) \in collisions
<1> DEFINE e == Ent(op, n, path, v)
           f == Ent(op, n, path, w)
<1>1. /\ e.operation = op /\ e.id = n /\ e.path = path /\ e.new = v
      /\ f.operation = op /\ f.id = n /\ f.path = path /\ f.new = w
  BY DEF Ent
<1> HIDE DEF e, f
<1>2. Collide(e, f)
  BY <1>1 DEF Collide, keyOf, EdgeOp
<1>3. e \in sourceDiff /\ f \in targetDiff
  BY DEF e, f
<1> QED BY <1>1, <1>2, <1>3, CollisionForm

(* A value changed as a whole on one side and below it on the other.       *)
LEMMA Overlaps ==
  ASSUME NEW n, NEW p \in Param, NEW k, NEW v, NEW w,
         \/ /\ Ent("modify_node", n, WholePath(p), v) \in sourceDiff
            /\ Ent("modify_node", n, KeyPath(p, k), w) \in targetDiff
         \/ /\ Ent("modify_node", n, KeyPath(p, k), w) \in sourceDiff
            /\ Ent("modify_node", n, WholePath(p), v) \in targetDiff
  PROVE  OverlappingPaths
<1> DEFINE e == Ent("modify_node", n, WholePath(p), v)
           f == Ent("modify_node", n, KeyPath(p, k), w)
<1>1. /\ e.operation = "modify_node" /\ e.id = n /\ e.path = WholePath(p)
      /\ f.operation = "modify_node" /\ f.id = n /\ f.path = KeyPath(p, k)
  BY DEF Ent
<1>2. \/ e \in sourceDiff /\ f \in targetDiff
      \/ f \in sourceDiff /\ e \in targetDiff
  OBVIOUS
<1> HIDE DEF e, f
<1> QED BY <1>1, <1>2, PathsDiffer DEF OverlappingPaths

(* Two values of a parameter that differ have entries: one for the whole,  *)
(* or those of the keys.                                                   *)
LEMMA ParamEntries ==
  ASSUME NEW old, NEW new, NEW n \in Kept(old, new), NEW p \in Param, ParamOf(old, n, p) # ParamOf(new, n, p)
  PROVE  IF BothRecords(ParamOf(old, n, p), ParamOf(new, n, p))
         THEN \E k \in Sub : Ent("modify_node", n, KeyPath(p, k), ParamOf(new, n, p)[k]) \in PlainDiff(old, new)
         ELSE Ent("modify_node", n, WholePath(p), ParamOf(new, n, p)) \in PlainDiff(old, new)
<1>1. CASE BothRecords(ParamOf(old, n, p), ParamOf(new, n, p))
  <2>1. PICK k \in Sub : ParamOf(old, n, p)[k] # ParamOf(new, n, p)[k]
    BY <1>1 DEF BothRecords, Record
  <2>2. KeyDiffers(old, new, n, p, k)
    BY <1>1, <2>1 DEF KeyDiffers
  <2> QED BY <1>1, <2>2, DiffHas
<1>2. CASE ~BothRecords(ParamOf(old, n, p), ParamOf(new, n, p))
  BY <1>2, DiffHas DEF WholeDiffers
<1> QED BY <1>1, <1>2

(* Fields changed differently collide, unless the changes overlap.         *)
LEMMA FieldsCollide ==
  ASSUME PlainDiffs, Documents, ~OverlappingPaths, NEW c, FieldClash(c)
  PROVE  c \in collisions
<1>1. PICK n \in NodeId : Everywhere(n) /\
        \/ /\ Clash(ancestor.nodes[n].name, source.nodes[n].name, target.nodes[n].name)
           /\ c = Conflict("field", n, NamePath)
        \/ \E p \in Param :
             c \in ClashValue(n, p, ParamOf(ancestor, n, p), ParamOf(source, n, p), ParamOf(target, n, p))
  BY DEF FieldClash
<1>2. n \in Kept(ancestor, source) /\ n \in Kept(ancestor, target)
  BY <1>1 DEF Everywhere, Has, Kept
<1>3. CASE /\ Clash(ancestor.nodes[n].name, source.nodes[n].name, target.nodes[n].name)
           /\ c = Conflict("field", n, NamePath)
  <2>1. /\ Ent("rename_node", n, NamePath, source.nodes[n].name) \in sourceDiff
        /\ Ent("rename_node", n, NamePath, target.nodes[n].name) \in targetDiff
    BY <1>2, <1>3, DiffHas DEF Clash, PlainDiffs
  <2>2. Conflict(IF "rename_node" = "add_node" THEN "add_add" ELSE "field", n, NamePath) \in collisions
    BY <1>3, <2>1, EntriesCollide DEF Clash
  <2> QED BY <1>3, <2>2
<1>4. ASSUME NEW p \in Param,
             c \in ClashValue(n, p, ParamOf(ancestor, n, p), ParamOf(source, n, p), ParamOf(target, n, p))
      PROVE  c \in collisions
  <2> DEFINE a == ParamOf(ancestor, n, p)
             s == ParamOf(source, n, p)
             t == ParamOf(target, n, p)
  <2>1. /\ s # a => IF BothRecords(a, s)
                    THEN \E k \in Sub : Ent("modify_node", n, KeyPath(p, k), s[k]) \in sourceDiff
                    ELSE Ent("modify_node", n, WholePath(p), s) \in sourceDiff
        /\ t # a => IF BothRecords(a, t)
                    THEN \E k \in Sub : Ent("modify_node", n, KeyPath(p, k), t[k]) \in targetDiff
                    ELSE Ent("modify_node", n, WholePath(p), t) \in targetDiff
    BY <1>2, ParamEntries DEF PlainDiffs
  <2>2. CASE AllRecords(a, s, t)
    <3>1. PICK k \in Sub : Clash(a[k], s[k], t[k]) /\ c = Conflict("field", n, KeyPath(p, k))
      BY <1>4, <2>2 DEF ClashValue, KeyPath
    <3>2. KeyDiffers(ancestor, source, n, p, k) /\ KeyDiffers(ancestor, target, n, p, k)
      BY <2>2, <3>1 DEF KeyDiffers, BothRecords, AllRecords, Clash
    <3>3. /\ Ent("modify_node", n, KeyPath(p, k), s[k]) \in sourceDiff
          /\ Ent("modify_node", n, KeyPath(p, k), t[k]) \in targetDiff
      BY <1>2, <3>2, DiffHas DEF PlainDiffs
    <3>4. s[k] # t[k]
      BY <3>1 DEF Clash
    <3> HIDE DEF a, s, t
    <3>5. Conflict(IF "modify_node" = "add_node" THEN "add_add" ELSE "field", n, KeyPath(p, k)) \in collisions
      BY <3>3, <3>4, EntriesCollide
    <3> QED BY <3>1, <3>5
  <2>3. CASE ~AllRecords(a, s, t)
    <3>1. Clash(a, s, t) /\ c = Conflict("field", n, WholePath(p))
      BY <1>4, <2>3 DEF ClashValue, WholePath
    <3> HIDE DEF a, s, t
    <3>2. s # a /\ t # a /\ s # t /\ ~(BothRecords(a, s) /\ BothRecords(a, t))
      BY <2>3, <3>1 DEF Clash, AllRecords, BothRecords
    <3>3. ~BothRecords(a, s) /\ ~BothRecords(a, t)
      BY <2>1, <3>2, Overlaps
    <3>4. Conflict(IF "modify_node" = "add_node" THEN "add_add" ELSE "field", n, WholePath(p)) \in collisions
      BY <2>1, <3>2, <3>3, EntriesCollide
    <3> QED BY <3>1, <3>4
  <2> QED BY <2>2, <2>3
<1> QED BY <1>1, <1>3, <1>4

(* A node one side changed and the other removed.                          *)
LEMMA DeletesAre ==
  ASSUME PlainDiffs, Documents, NEW c
  PROVE  c \in editDeletes <=> DeleteClash(c)
<1>1. \A n : /\ n \in Of(sourceDiff, "remove_node") <=> Has(ancestor, n) /\ ~Has(source, n)
             /\ n \in Of(targetDiff, "remove_node") <=> Has(ancestor, n) /\ ~Has(target, n)
  BY DiffOf DEF PlainDiffs, Has
<1>2. \A n : /\ n \in nodeIdsModified(sourceDiff) <=> Changed(source, n)
             /\ n \in nodeIdsModified(targetDiff) <=> Changed(target, n)
  BY ModifiedIs DEF PlainDiffs, Changed, Has, Kept, Documents
<1>3. \A n : Changed(source, n) \/ Changed(target, n) => Has(ancestor, n) /\ n \in NodeId
  BY DocTyped DEF Changed, Has, Documents
<1>4. c \in editDeletes <=> \E n :
        /\ \/ n \in Of(sourceDiff, "remove_node") /\ n \in nodeIdsModified(targetDiff)
           \/ n \in Of(targetDiff, "remove_node") /\ n \in nodeIdsModified(sourceDiff)
        /\ c = Conflict("edit_delete", n, NoPath)
  BY DEF editDeletes, NoPath
<1>5. DeleteClash(c) <=> \E n \in NodeId :
        /\ \/ Changed(source, n) /\ ~Has(target, n)
           \/ Changed(target, n) /\ ~Has(source, n)
        /\ c = Conflict("edit_delete", n, NoPath)
  BY DEF DeleteClash
<1>6. \A n : Changed(source, n) => Has(source, n)
  BY DEF Changed
<1>7. \A n : Changed(target, n) => Has(target, n)
  BY DEF Changed
<1> QED BY <1>1, <1>2, <1>3, <1>4, <1>5

(* The merge asks about what clashes and about nothing else.               *)
LEMMA ConflictsAreClashes ==
  ASSUME PlainDiffs, Documents, ~OverlappingPaths
  PROVE  collisions \cup editDeletes = Clashes
<1>1. ASSUME NEW c, AddClash(c) PROVE c \in collisions
  <2>1. PICK n \in NodeId : /\ ~Has(ancestor, n) /\ Has(source, n) /\ Has(target, n)
                            /\ source.nodes[n] # target.nodes[n]
                            /\ c = Conflict("add_add", n, NoPath)
    BY <1>1 DEF AddClash
  <2>2. /\ Ent("add_node", n, NoPath, source.nodes[n]) \in sourceDiff
        /\ Ent("add_node", n, NoPath, target.nodes[n]) \in targetDiff
    BY <2>1, DiffHas DEF Has, PlainDiffs
  <2>3. Conflict(IF "add_node" = "add_node" THEN "add_add" ELSE "field", n, NoPath) \in collisions
    BY <2>1, <2>2, EntriesCollide
  <2> QED BY <2>1, <2>3
<1>2. \A c : c \in collisions => c \in Clashes
  BY CollisionsClash
<1>3. \A c : c \in editDeletes <=> DeleteClash(c)
  BY DeletesAre
<1>4. \A c : c \in Clashes <=> FieldClash(c) \/ AddClash(c) \/ DeleteClash(c) \/ SettingsClash(c)
  BY ClashForm
<1>5. \A c : FieldClash(c) => c \in collisions
  BY FieldsCollide
<1>6. ASSUME NEW c, SettingsClash(c) PROVE c \in collisions
  <2>1. /\ Ent("modify_settings", Settings, SettingsPath, source.settings) \in sourceDiff
        /\ Ent("modify_settings", Settings, SettingsPath, target.settings) \in targetDiff
        /\ source.settings # target.settings
    BY <1>6, DiffHas DEF SettingsClash, Clash, PlainDiffs
  <2>2. Conflict(IF "modify_settings" = "add_node" THEN "add_add" ELSE "field", Settings, SettingsPath) \in collisions
    BY <2>1, EntriesCollide
  <2> QED BY <1>6, <2>2 DEF SettingsClash, SettingsConflict, SettingsPath
<1> QED BY <1>1, <1>2, <1>3, <1>4, <1>5, <1>6


-----------------------------------------------------------------------------
(* The merge of what does not clash.                                       *)

applied == NonOverlapping(sourceDiff, targetDiff)

(* A merge starts from the target: its whole diff gives it back.           *)
LEMMA CleanMergeIs ==
  ASSUME PlainDiffs, Documents
  PROVE  /\ cleanMerge = applyDiff(target, applied)
         /\ IsApplied(cleanMerge, target, source, applied)
<1>1. applyDiff(ancestor, targetDiff) = target
  BY PlainRoundTrips DEF Documents, PlainDiffs
<1>2. applied \in SUBSET PlainDiff(ancestor, source) /\ source \in WorkflowIR
  BY DEF applied, NonOverlapping, PlainDiffs, Documents
<1>3. cleanMerge = applyDiff(target, applied)
  BY <1>1 DEF cleanMerge, applied
<1> QED BY <1>2, <1>3, ApplyIs

(* What the source changed and the target left alone.                      *)
LEMMA AppliedOf ==
  ASSUME PlainDiffs
  PROVE  /\ \A n : /\ n \in Of(applied, "add_node") <=> Has(source, n) /\ ~Has(ancestor, n) /\ ~Has(target, n)
                   /\ n \in Of(applied, "remove_node") <=> Has(ancestor, n) /\ Has(target, n) /\ ~Has(source, n)
         /\ \A e : /\ e \in Of(applied, "add_edge") <=> e \in source.edges /\ e \notin ancestor.edges /\ e \notin target.edges
                   /\ e \in Of(applied, "remove_edge") <=> e \in ancestor.edges /\ e \in target.edges /\ e \notin source.edges
         /\ Of(applied, "modify_settings") # {} <=> source.settings # ancestor.settings /\ target.settings = ancestor.settings
<1>1. \A op, x : x \in Of(applied, op) <=> \E e \in sourceDiff :
        e.operation = op /\ e.id = x /\ ~\E f \in targetDiff : keyOf(f) = keyOf(e)
  BY DEF applied, NonOverlapping, Of
<1>2. \A e \in sourceDiff, f \in targetDiff : keyOf(f) = keyOf(e) <=>
        /\ e.id = f.id
        /\ \/ e.operation \in EdgeOp /\ f.operation \in EdgeOp
           \/ e.operation \notin EdgeOp /\ f.operation \notin EdgeOp /\ e.path = f.path
  BY SameKey DEF PlainDiffs
<1>3. \A op, x : /\ x \in Of(sourceDiff, op) <=> \E e \in sourceDiff : e.operation = op /\ e.id = x
                 /\ x \in Of(targetDiff, op) <=> \E e \in targetDiff : e.operation = op /\ e.id = x
  BY DEF Of
<1>4. /\ Of(sourceDiff, "add_node") = DOMAIN source.nodes \ DOMAIN ancestor.nodes
      /\ Of(sourceDiff, "remove_node") = DOMAIN ancestor.nodes \ DOMAIN source.nodes
      /\ Of(sourceDiff, "add_edge") = source.edges \ ancestor.edges
      /\ Of(sourceDiff, "remove_edge") = ancestor.edges \ source.edges
  BY DiffOf DEF PlainDiffs
<1>5. /\ Of(targetDiff, "add_node") = DOMAIN target.nodes \ DOMAIN ancestor.nodes
      /\ Of(targetDiff, "remove_node") = DOMAIN ancestor.nodes \ DOMAIN target.nodes
      /\ Of(targetDiff, "add_edge") = target.edges \ ancestor.edges
      /\ Of(targetDiff, "remove_edge") = ancestor.edges \ target.edges
  BY DiffOf DEF PlainDiffs
<1>6. \A e \in sourceDiff, f \in targetDiff : e.id = f.id =>
        /\ e.operation \in {"add_node", "remove_node"} =>
             (keyOf(f) = keyOf(e) <=> f.operation = e.operation)
        /\ e.operation \in EdgeOp => (keyOf(f) = keyOf(e) <=> f.operation \in EdgeOp)
  <2> SUFFICES ASSUME NEW e \in sourceDiff, NEW f \in targetDiff, e.id = f.id
               PROVE  /\ e.operation \in {"add_node", "remove_node"} =>
                           (keyOf(f) = keyOf(e) <=> f.operation = e.operation)
                      /\ e.operation \in EdgeOp => (keyOf(f) = keyOf(e) <=> f.operation \in EdgeOp)
    OBVIOUS
  <2>1. e \in PlainDiff(ancestor, source) /\ f \in PlainDiff(ancestor, target)
    BY DEF PlainDiffs
  <2>2. e.operation \in {"add_node", "remove_node"} => e.path = NoPath
    BY <2>1, DiffSays
  <2>3. f.path = NoPath /\ f.operation \notin EdgeOp => f.operation \in {"add_node", "remove_node"}
    BY <2>1, DiffSays, PathsDiffer DEF EdgeOp
  <2>4. /\ e.operation = "add_node" => e.id \notin DOMAIN ancestor.nodes
        /\ e.operation = "remove_node" => e.id \in DOMAIN ancestor.nodes
        /\ f.operation = "add_node" => e.id \notin DOMAIN ancestor.nodes
        /\ f.operation = "remove_node" => e.id \in DOMAIN ancestor.nodes
    BY <2>1, DiffSays
  <2>5. f.operation \in {"add_node", "remove_node"} => f.path = NoPath
    BY <2>1, DiffSays
  <2> QED BY <1>2, <2>2, <2>3, <2>4, <2>5 DEF EdgeOp
<1>7. \A op \in {"add_node", "remove_node"} : \A n :
        n \in Of(applied, op) <=> n \in Of(sourceDiff, op) /\ n \notin Of(targetDiff, op)
  BY <1>1, <1>2, <1>3, <1>6
<1>8. \A op \in EdgeOp : \A e :
        e \in Of(applied, op) <=>
          e \in Of(sourceDiff, op) /\ e \notin Of(targetDiff, "add_edge") /\ e \notin Of(targetDiff, "remove_edge")
  BY <1>1, <1>2, <1>3, <1>6 DEF EdgeOp
<1>9. \A e \in sourceDiff, f \in targetDiff : e.operation = "modify_settings" =>
        (keyOf(f) = keyOf(e) <=> f.operation = "modify_settings")
  <2> SUFFICES ASSUME NEW e \in sourceDiff, NEW f \in targetDiff, e.operation = "modify_settings"
               PROVE  keyOf(f) = keyOf(e) <=> f.operation = "modify_settings"
    OBVIOUS
  <2>1. e \in PlainDiff(ancestor, source) /\ f \in PlainDiff(ancestor, target)
    BY DEF PlainDiffs
  <2>2. e.path = SettingsPath /\ e.id = Settings
    BY <2>1, DiffSays
  <2>3. f.path = SettingsPath <=> f.operation = "modify_settings"
    BY <2>1, DiffSays, PathsDiffer
  <2>4. f.operation = "modify_settings" => f.id = Settings
    BY <2>1, DiffSays
  <2>5. f.operation = "modify_settings" => f.operation \notin EdgeOp
    BY DEF EdgeOp
  <2>6. e.operation \notin EdgeOp
    BY DEF EdgeOp
  <2>7. f.operation \in EdgeOp => f.path = NoPath
    BY <2>1, DiffSays DEF EdgeOp
  <2> QED BY <1>2, <2>2, <2>3, <2>4, <2>5, <2>6, <2>7
<1>10. Of(applied, "modify_settings") # {} <=>
         Of(sourceDiff, "modify_settings") # {} /\ Of(targetDiff, "modify_settings") = {}
  <2>1. \A S, op : Of(S, op) # {} <=> \E e \in S : e.operation = op
    BY DEF Of
  <2>2. applied = {e \in sourceDiff : ~\E f \in targetDiff : keyOf(f) = keyOf(e)}
    BY DEF applied, NonOverlapping
  <2>3. Of(applied, "modify_settings") # {} <=> \E e \in sourceDiff :
          e.operation = "modify_settings" /\ ~\E f \in targetDiff : keyOf(f) = keyOf(e)
    <3>1. Of(applied, "modify_settings") # {} <=> \E e \in applied : e.operation = "modify_settings"
      BY <2>1
    <3> QED BY <2>2, <3>1
  <2> QED BY <1>9, <2>1, <2>3
<1>11. /\ Of(sourceDiff, "modify_settings") # {} <=> source.settings # ancestor.settings
       /\ Of(targetDiff, "modify_settings") # {} <=> target.settings # ancestor.settings
  BY DiffOf DEF PlainDiffs
<1>12. /\ \A n : /\ n \in Of(applied, "add_node") <=> Has(source, n) /\ ~Has(ancestor, n) /\ ~Has(target, n)
                 /\ n \in Of(applied, "remove_node") <=> Has(ancestor, n) /\ Has(target, n) /\ ~Has(source, n)
       /\ \A e : /\ e \in Of(applied, "add_edge") <=> e \in source.edges /\ e \notin ancestor.edges /\ e \notin target.edges
                 /\ e \in Of(applied, "remove_edge") <=> e \in ancestor.edges /\ e \in target.edges /\ e \notin source.edges
  BY <1>4, <1>5, <1>7, <1>8 DEF Has, EdgeOp
<1> QED BY <1>10, <1>11, <1>12

(* Of a parameter, the entries of the source that the target has none for. *)
TakesFields(changes, n, p) ==
  /\ HasPath(changes, WholePath(p)) <=> WholeDiffers(ancestor, source, n, p) /\ ~WholeDiffers(ancestor, target, n, p)
  /\ \A k \in Sub : HasPath(changes, KeyPath(p, k)) <=>
       KeyDiffers(ancestor, source, n, p, k) /\ ~KeyDiffers(ancestor, target, n, p, k)

(* Which fields of a node are taken from the source: those it changed      *)
(* where the target has no entry for the same path.                        *)
LEMMA AppliedPaths ==
  ASSUME PlainDiffs, NEW n, Everywhere(n)
  PROVE  LET changes == ChangesOf(applied, n)
         IN  /\ SomeChanges(changes, ancestor, source, n)
             /\ HasPath(changes, NamePath) <=>
                  ancestor.nodes[n].name # source.nodes[n].name /\ ancestor.nodes[n].name = target.nodes[n].name
             /\ \A p \in Param : TakesFields(changes, n, p)
<1> DEFINE changes == ChangesOf(applied, n)
           ours == ChangesOf(sourceDiff, n)
           theirs == ChangesOf(targetDiff, n)
<1>1. n \in Kept(ancestor, source) /\ n \in Kept(ancestor, target)
  BY DEF Everywhere, Has, Kept
<1>2. SomeChanges(changes, ancestor, source, n)
  BY DEF SomeChanges, ChangesOf, applied, NonOverlapping, PlainDiffs
<1>3. /\ HasPath(ours, NamePath) <=> ancestor.nodes[n].name # source.nodes[n].name
      /\ \A p \in Param :
           /\ HasPath(ours, WholePath(p)) <=> WholeDiffers(ancestor, source, n, p)
           /\ \A k \in Sub : HasPath(ours, KeyPath(p, k)) <=> KeyDiffers(ancestor, source, n, p, k)
  BY <1>1, DiffPaths DEF PlainDiffs
<1>4. /\ HasPath(theirs, NamePath) <=> ancestor.nodes[n].name # target.nodes[n].name
      /\ \A p \in Param :
           /\ HasPath(theirs, WholePath(p)) <=> WholeDiffers(ancestor, target, n, p)
           /\ \A k \in Sub : HasPath(theirs, KeyPath(p, k)) <=> KeyDiffers(ancestor, target, n, p, k)
  BY <1>1, DiffPaths DEF PlainDiffs
<1>5. \A e \in sourceDiff, f \in targetDiff : keyOf(f) = keyOf(e) <=>
        /\ e.id = f.id
        /\ \/ e.operation \in EdgeOp /\ f.operation \in EdgeOp
           \/ e.operation \notin EdgeOp /\ f.operation \notin EdgeOp /\ e.path = f.path
  BY SameKey DEF PlainDiffs
<1>6. \A f \in targetDiff : f.operation \notin EdgeOp /\ f.path \notin {NoPath, SettingsPath} =>
        f.operation \in {"rename_node", "modify_node"}
  BY DiffSays DEF PlainDiffs, EdgeOp
<1>7. \A path : path \notin {NoPath, SettingsPath} =>
        (HasPath(changes, path) <=> HasPath(ours, path) /\ ~HasPath(theirs, path))
  <2> SUFFICES ASSUME NEW path, path \notin {NoPath, SettingsPath}
               PROVE  HasPath(changes, path) <=> HasPath(ours, path) /\ ~HasPath(theirs, path)
    OBVIOUS
  <2>1. HasPath(ours, path) <=>
          \E e \in sourceDiff : e.operation \in {"rename_node", "modify_node"} /\ e.id = n /\ e.path = path
    BY DEF HasPath, ChangesOf
  <2>2. HasPath(theirs, path) <=>
          \E f \in targetDiff : f.operation \in {"rename_node", "modify_node"} /\ f.id = n /\ f.path = path
    BY DEF HasPath, ChangesOf
  <2>3. HasPath(changes, path) <=>
          \E e \in sourceDiff : /\ e.operation \in {"rename_node", "modify_node"} /\ e.id = n /\ e.path = path
                                /\ ~\E f \in targetDiff : keyOf(f) = keyOf(e)
    BY DEF HasPath, ChangesOf, applied, NonOverlapping
  <2> HIDE DEF changes, ours, theirs
  <2> QED BY <2>1, <2>2, <2>3, <1>5, <1>6 DEF EdgeOp
<1> HIDE DEF changes, ours, theirs
<1>8. /\ NamePath \notin {NoPath, SettingsPath}
      /\ \A p : WholePath(p) \notin {NoPath, SettingsPath}
      /\ \A p, k : KeyPath(p, k) \notin {NoPath, SettingsPath}
  BY PathsDiffer
<1> QED BY <1>2, <1>3, <1>4, <1>7, <1>8 DEF changes, TakesFields


(* A node that both sides kept, where nothing clashes.                     *)
LEMMA MergedField ==
  ASSUME PlainDiffs, ~OverlappingPaths, NEW n, Everywhere(n), NEW p \in Param,
         ClashValue(n, p, ParamOf(ancestor, n, p), ParamOf(source, n, p), ParamOf(target, n, p)) = {},
         NEW changes, SomeChanges(changes, ancestor, source, n), TakesFields(changes, n, p)
  PROVE  setNested(ParamOf(target, n, p), p, changes) =
           PickValue(ParamOf(ancestor, n, p), ParamOf(source, n, p), ParamOf(target, n, p))
<1> DEFINE a == ParamOf(ancestor, n, p)
           s == ParamOf(source, n, p)
           t == ParamOf(target, n, p)
<1>1. /\ HasPath(changes, WholePath(p)) <=> WholeDiffers(ancestor, source, n, p) /\ ~WholeDiffers(ancestor, target, n, p)
      /\ \A k \in Sub : HasPath(changes, KeyPath(p, k)) <=>
           KeyDiffers(ancestor, source, n, p, k) /\ ~KeyDiffers(ancestor, target, n, p, k)
  BY DEF TakesFields
<1>2. /\ HasPath(changes, WholePath(p)) => setNested(t, p, changes) = s
      /\ ~HasPath(changes, WholePath(p)) /\ (\A k \in Sub : ~HasPath(changes, KeyPath(p, k))) =>
           setNested(t, p, changes) = t
      /\ ~HasPath(changes, WholePath(p)) /\ t \in Record =>
           setNested(t, p, changes) = [k \in Sub |-> IF HasPath(changes, KeyPath(p, k)) THEN s[k] ELSE t[k]]
  BY SetNestedIs
<1>3. n \in Kept(ancestor, source) /\ n \in Kept(ancestor, target)
  BY DEF Everywhere, Has, Kept
<1>4. /\ s # a => IF BothRecords(a, s)
                  THEN \E k \in Sub : Ent("modify_node", n, KeyPath(p, k), s[k]) \in sourceDiff
                  ELSE Ent("modify_node", n, WholePath(p), s) \in sourceDiff
      /\ t # a => IF BothRecords(a, t)
                  THEN \E k \in Sub : Ent("modify_node", n, KeyPath(p, k), t[k]) \in targetDiff
                  ELSE Ent("modify_node", n, WholePath(p), t) \in targetDiff
  BY <1>3, ParamEntries DEF PlainDiffs
<1>5. /\ WholeDiffers(ancestor, source, n, p) <=> s # a /\ ~BothRecords(a, s)
      /\ WholeDiffers(ancestor, target, n, p) <=> t # a /\ ~BothRecords(a, t)
      /\ \A k \in Sub : /\ KeyDiffers(ancestor, source, n, p, k) <=> BothRecords(a, s) /\ a[k] # s[k]
                        /\ KeyDiffers(ancestor, target, n, p, k) <=> BothRecords(a, t) /\ a[k] # t[k]
  BY DEF WholeDiffers, KeyDiffers
<1>6. ClashValue(n, p, a, s, t) = {}
  OBVIOUS
<1> HIDE DEF a, s, t
<1>7. CASE AllRecords(a, s, t)
  <2>1. \A k \in Sub : ~Clash(a[k], s[k], t[k])
    BY <1>6, <1>7 DEF ClashValue
  <2>2. BothRecords(a, s) /\ BothRecords(a, t) /\ t \in Record
    BY <1>7 DEF AllRecords, BothRecords
  <2>3. \A k \in Sub : HasPath(changes, KeyPath(p, k)) <=> a[k] # s[k] /\ a[k] = t[k]
    BY <1>1, <1>5, <2>2
  <2>4. \A k \in Sub : (IF HasPath(changes, KeyPath(p, k)) THEN s[k] ELSE t[k]) = Pick(a[k], s[k], t[k])
    BY <2>1, <2>3 DEF Clash, Pick
  <2>5. setNested(t, p, changes) = [k \in Sub |-> IF HasPath(changes, KeyPath(p, k)) THEN s[k] ELSE t[k]]
    BY <1>1, <1>2, <1>5, <2>2
  <2>6. PickValue(a, s, t) = [k \in Sub |-> Pick(a[k], s[k], t[k])]
    BY <1>7 DEF PickValue
  <2>7. [k \in Sub |-> IF HasPath(changes, KeyPath(p, k)) THEN s[k] ELSE t[k]] = [k \in Sub |-> Pick(a[k], s[k], t[k])]
    BY <2>4
  <2> QED BY <2>5, <2>6, <2>7 DEF a, s, t
<1>8. CASE ~AllRecords(a, s, t)
  <2>1. ~Clash(a, s, t)
    BY <1>6, <1>8 DEF ClashValue
  <2>2. PickValue(a, s, t) = IF s = a THEN t ELSE s
    BY <1>8 DEF PickValue, Pick
  <2>3. ~(BothRecords(a, s) /\ BothRecords(a, t))
    BY <1>8 DEF AllRecords, BothRecords
  <2>4. ~(s # a /\ t # a /\ (BothRecords(a, s) \/ BothRecords(a, t)))
    BY <1>4, <2>3, Overlaps
  <2>5. CASE s = a
    <3>1. ~HasPath(changes, WholePath(p)) /\ \A k \in Sub : ~HasPath(changes, KeyPath(p, k))
      BY <1>1, <1>5, <2>5
    <3> QED BY <1>2, <2>2, <2>5, <3>1 DEF a, s, t
  <2>6. CASE s # a /\ t = a
    <3>1. ~BothRecords(a, s)
      BY <1>8, <2>6 DEF AllRecords, BothRecords
    <3>2. HasPath(changes, WholePath(p))
      BY <1>1, <1>5, <2>6, <3>1
    <3> QED BY <1>2, <2>2, <2>6, <3>2 DEF a, s, t
  <2>7. CASE s # a /\ t # a
    <3>1. s = t
      BY <2>1, <2>7 DEF Clash
    <3>2. ~HasPath(changes, WholePath(p)) /\ \A k \in Sub : ~HasPath(changes, KeyPath(p, k))
      BY <1>1, <1>5, <2>4, <2>7
    <3> QED BY <1>2, <2>2, <2>7, <3>1, <3>2 DEF a, s, t
  <2> QED BY <2>5, <2>6, <2>7
<1> QED BY <1>7, <1>8

LEMMA MergedName ==
  ASSUME PlainDiffs, NEW n, Everywhere(n), ~Clash(ancestor.nodes[n].name, source.nodes[n].name, target.nodes[n].name)
  PROVE  patched(target.nodes[n], ChangesOf(applied, n)).name =
           Pick(ancestor.nodes[n].name, source.nodes[n].name, target.nodes[n].name)
<1> DEFINE changes == ChangesOf(applied, n)
<1>1. /\ SomeChanges(changes, ancestor, source, n)
      /\ HasPath(changes, NamePath) <=>
           ancestor.nodes[n].name # source.nodes[n].name /\ ancestor.nodes[n].name = target.nodes[n].name
  BY AppliedPaths
<1> HIDE DEF changes
<1>2. /\ HasPath(changes, NamePath) => patched(target.nodes[n], changes).name = source.nodes[n].name
      /\ ~HasPath(changes, NamePath) => patched(target.nodes[n], changes).name = target.nodes[n].name
  BY <1>1, NameIs
<1> QED BY <1>1, <1>2 DEF changes, Clash, Pick

(* Patching with nothing leaves a node as it is.                           *)
LEMMA PatchedWithNothing ==
  ASSUME NEW node \in IRNode
  PROVE  patched(node, {}) = node
<1>1. \A path : ~HasPath({}, path)
  BY DEF HasPath
<1>2. \A old, new, n : SomeChanges({}, old, new, n)
  BY DEF SomeChanges
<1>3. patched(node, {}).name = node.name
  BY <1>1, <1>2, NameIs
<1>4. ASSUME NEW p \in Param PROVE setNested(node.parameters[p], p, {}) = node.parameters[p]
  BY <1>1, <1>2, SetNestedIs
<1> QED BY <1>3, <1>4, PatchedIsNode

(* Without clashes the merge has the nodes it should, each merged.         *)
LEMMA MergedNodes ==
  ASSUME PlainDiffs, Documents, ~OverlappingPaths, Clashes = {}
  PROVE  cleanMerge.nodes = [n \in {n \in NodeId : Stays(n)} |-> MergedNode(n)]
<1>1. /\ DOMAIN cleanMerge.nodes = (DOMAIN target.nodes \cup Of(applied, "add_node")) \ Of(applied, "remove_node")
      /\ \A n \in DOMAIN cleanMerge.nodes :
           cleanMerge.nodes[n] = IF n \in Of(applied, "add_node") THEN source.nodes[n]
                                 ELSE patched(target.nodes[n], ChangesOf(applied, n))
  BY CleanMergeIs DEF IsApplied
<1>2. \A n : n \in DOMAIN cleanMerge.nodes <=>
               /\ \/ Has(target, n)
                  \/ Has(source, n) /\ ~Has(ancestor, n) /\ ~Has(target, n)
               /\ ~(Has(ancestor, n) /\ Has(target, n) /\ ~Has(source, n))
  BY <1>1, AppliedOf DEF Has
<1>3. \A n : Has(source, n) \/ Has(target, n) => n \in NodeId
  BY DocTyped DEF Has, Documents
<1>4. ASSUME NEW n PROVE n \in DOMAIN cleanMerge.nodes <=> n \in NodeId /\ Stays(n)
  <2>1. Has(source, n) \in BOOLEAN /\ Has(target, n) \in BOOLEAN /\ Has(ancestor, n) \in BOOLEAN
    BY DEF Has
  <2>2. Stays(n) <=> IF Has(source, n) <=> Has(ancestor, n) THEN Has(target, n) ELSE Has(source, n)
    BY <2>1 DEF Stays, Pick
  <2> QED BY <1>2, <1>3, <2>2
<1>5. \A c : ~FieldClash(c) /\ ~AddClash(c)
  BY ClashForm
<1>6. ASSUME NEW n \in DOMAIN cleanMerge.nodes PROVE cleanMerge.nodes[n] = MergedNode(n)
  <2>0. n \in NodeId
    BY <1>4
  <2>1. CASE n \in Of(applied, "add_node")
    BY <1>1, <2>1, AppliedOf DEF MergedNode, Everywhere
  <2>2. CASE n \notin Of(applied, "add_node") /\ Everywhere(n)
    <3> DEFINE changes == ChangesOf(applied, n)
    <3>1. cleanMerge.nodes[n] = [name |-> patched(target.nodes[n], changes).name,
                                 parameters |-> [p \in Param |-> setNested(ParamOf(target, n, p), p, changes)]]
      BY <1>1, <2>2 DEF patched, ParamOf
    <3>2. ~Clash(ancestor.nodes[n].name, source.nodes[n].name, target.nodes[n].name)
      BY <1>5, <2>0, <2>2 DEF FieldClash
    <3>3. patched(target.nodes[n], changes).name =
            Pick(ancestor.nodes[n].name, source.nodes[n].name, target.nodes[n].name)
      BY <2>2, <3>2, MergedName
    <3>4. ASSUME NEW p \in Param
          PROVE  setNested(ParamOf(target, n, p), p, changes) =
                   PickValue(ancestor.nodes[n].parameters[p], source.nodes[n].parameters[p], target.nodes[n].parameters[p])
      <4>1. ClashValue(n, p, ParamOf(ancestor, n, p), ParamOf(source, n, p), ParamOf(target, n, p)) = {}
        BY <1>5, <2>0, <2>2 DEF FieldClash
      <4>2. SomeChanges(changes, ancestor, source, n) /\ TakesFields(changes, n, p)
        BY <2>2, AppliedPaths
      <4> HIDE DEF changes
      <4> QED BY <2>2, <4>1, <4>2, MergedField DEF ParamOf
    <3> HIDE DEF changes
    <3>5. MergedNode(n) = PickNode(ancestor.nodes[n], source.nodes[n], target.nodes[n])
      BY <2>2 DEF MergedNode
    <3> QED BY <3>1, <3>3, <3>4, <3>5 DEF PickNode
  <2>3. CASE n \notin Of(applied, "add_node") /\ ~Everywhere(n)
    <3>1. Has(target, n) /\ target.nodes[n] \in IRNode
      BY <1>2, <2>3, AppliedOf, DocTyped DEF Has, Documents
    <3>2. ChangesOf(applied, n) = {}
      <4>1. \A e \in applied : e \in PlainDiff(ancestor, source)
        BY DEF applied, NonOverlapping, PlainDiffs
      <4>2. n \notin Kept(ancestor, source)
        BY <2>3, <3>1 DEF Everywhere, Kept, Has
      <4> QED BY <4>1, <4>2, DiffSays DEF ChangesOf
    <3>3. cleanMerge.nodes[n] = target.nodes[n]
      BY <1>1, <2>3, <3>1, <3>2, PatchedWithNothing
    <3>4. CASE Has(source, n)
      <4>1. ~Has(ancestor, n)
        BY <2>3, <3>1, <3>4 DEF Everywhere
      <4>2. source.nodes[n] = target.nodes[n]
        BY <1>5, <2>0, <3>1, <3>4, <4>1 DEF AddClash
      <4> QED BY <2>3, <3>3, <3>4, <4>2 DEF MergedNode
    <3>5. CASE ~Has(source, n)
      BY <2>3, <3>3, <3>5 DEF MergedNode
    <3> QED BY <3>4, <3>5
  <2> QED BY <2>1, <2>2, <2>3
<1>7. cleanMerge.nodes = [n \in DOMAIN cleanMerge.nodes |-> cleanMerge.nodes[n]]
  BY DEF cleanMerge, applyDiff
<1>8. DOMAIN cleanMerge.nodes = {n \in NodeId : Stays(n)}
  BY <1>4
<1> QED BY <1>6, <1>7, <1>8

(* And the connections it should, unless one is left without its end.      *)
LEMMA MergedConnections ==
  ASSUME PlainDiffs, Documents, ~StrandedEdge
  PROVE  cleanMerge.edges = MergedEdges
<1>1. cleanMerge.edges =
        ({e \in target.edges : ~\E n \in Of(applied, "remove_node") : At(e, n)} \cup Of(applied, "add_edge"))
          \ Of(applied, "remove_edge")
  BY CleanMergeIs DEF IsApplied
<1>2. source.edges \subseteq Edge /\ target.edges \subseteq Edge
  BY DocTyped DEF Documents
<1>3. \A e : e \in MergedEdges <=>
        /\ e \in Edge
        /\ IF e \in source.edges <=> e \in ancestor.edges THEN e \in target.edges ELSE e \in source.edges
  BY DEF MergedEdges, Pick
<1>4. ASSUME NEW e \in MergedEdges, NEW n \in Of(applied, "remove_node") PROVE ~At(e, n)
  <2>1. Has(ancestor, n) /\ ~Has(source, n) /\ n \in NodeId
    BY AppliedOf, DocTyped DEF Has, Documents
  <2>2. ~Stays(n)
    BY <2>1 DEF Stays, Pick
  <2> QED BY <2>1, <2>2 DEF StrandedEdge
<1> QED BY <1>1, <1>2, <1>3, <1>4, AppliedOf

(* And the settings of the side that changed them.                         *)
LEMMA MergedSettings ==
  ASSUME PlainDiffs, Documents, Clashes = {}
  PROVE  cleanMerge.settings = Pick(ancestor.settings, source.settings, target.settings)
<1>1. cleanMerge.settings = IF Of(applied, "modify_settings") = {} THEN target.settings ELSE source.settings
  BY CleanMergeIs DEF IsApplied
<1>2. ~Clash(ancestor.settings, source.settings, target.settings)
  BY ClashForm DEF SettingsClash
<1> QED BY <1>1, <1>2, AppliedOf DEF Clash, Pick

-----------------------------------------------------------------------------
(* Conflicts, once they are asked about.                                   *)

Asked == Documents /\ ~OverlappingPaths /\ conflicts = Clashes /\ conflicts = collisions \cup editDeletes

AllRecordsAt(n, p) == AllRecords(ParamOf(ancestor, n, p), ParamOf(source, n, p), ParamOf(target, n, p))

(* A conflict is about a field of a node that all three documents have, or *)
(* about a node that one of them has not.                                  *)
LEMMA ConflictSays ==
  ASSUME NEW c \in Clashes
  PROVE  \/ /\ c.kind = "field" /\ c.node \in NodeId /\ Everywhere(c.node)
            /\ \/ c.path = NamePath
               \/ \E p \in Param : c.path = WholePath(p) /\ ~AllRecordsAt(c.node, p)
               \/ \E p \in Param, k \in Sub : c.path = KeyPath(p, k) /\ AllRecordsAt(c.node, p)
         \/ /\ c.kind = "add_add" /\ c.path = NoPath /\ c.node \in NodeId
            /\ ~Has(ancestor, c.node) /\ Has(source, c.node) /\ Has(target, c.node)
         \/ /\ c.kind = "edit_delete" /\ c.path = NoPath /\ c.node \in NodeId /\ Has(ancestor, c.node)
            /\ \/ Has(source, c.node) /\ ~Has(target, c.node)
               \/ ~Has(source, c.node) /\ Has(target, c.node)
         \/ /\ c = SettingsConflict /\ c.kind = "field" /\ c.path = SettingsPath /\ c.node = Settings
            /\ Clash(ancestor.settings, source.settings, target.settings)
<1>1. FieldClash(c) \/ AddClash(c) \/ DeleteClash(c) \/ SettingsClash(c)
  BY ClashForm
<1>2. CASE FieldClash(c)
  <2>1. PICK n \in NodeId : Everywhere(n) /\
          \/ c = Conflict("field", n, NamePath)
          \/ \E p \in Param :
               c \in ClashValue(n, p, ParamOf(ancestor, n, p), ParamOf(source, n, p), ParamOf(target, n, p))
    BY <1>2 DEF FieldClash
  <2>2. CASE c = Conflict("field", n, NamePath)
    BY <2>1, <2>2 DEF Conflict
  <2>3. ASSUME NEW p \in Param,
               c \in ClashValue(n, p, ParamOf(ancestor, n, p), ParamOf(source, n, p), ParamOf(target, n, p))
        PROVE  \/ c = Conflict("field", n, WholePath(p)) /\ ~AllRecordsAt(n, p)
               \/ \E k \in Sub : c = Conflict("field", n, KeyPath(p, k)) /\ AllRecordsAt(n, p)
    BY <2>3 DEF ClashValue, AllRecordsAt, WholePath, KeyPath
  <2> QED BY <2>1, <2>2, <2>3 DEF Conflict
<1>3. CASE AddClash(c)
  BY <1>3 DEF AddClash, Conflict
<1>4. CASE DeleteClash(c)
  <2>1. PICK n \in NodeId : /\ \/ Changed(source, n) /\ ~Has(target, n)
                               \/ Changed(target, n) /\ ~Has(source, n)
                            /\ c = Conflict("edit_delete", n, NoPath)
    BY <1>4 DEF DeleteClash
  <2> QED BY <2>1 DEF Conflict, Changed
<1>5. CASE SettingsClash(c)
  BY <1>5 DEF SettingsClash, SettingsConflict, Conflict, SettingsPath
<1> QED BY <1>1, <1>2, <1>3, <1>4, <1>5

LEMMA ConflictIs == ASSUME NEW c \in Clashes PROVE c = Conflict(c.kind, c.node, c.path)
  BY ClashForm DEF FieldClash, AddClash, DeleteClash, SettingsClash, SettingsConflict, ClashValue, Conflict

(* The nodes that are settled as a whole are not everywhere; a node both   *)
(* sides added is one of them, or they added the same.                     *)
LEMMA ResettledIs ==
  ASSUME PlainDiffs, Asked
  PROVE  /\ \A c \in NodeLevel : c \in Clashes /\ c.path = NoPath /\ c.kind \in {"add_add", "edit_delete"}
         /\ \A c \in conflicts \ NodeLevel : c \in Clashes /\ c.path # NoPath /\ c.kind = "field"
         /\ \A n \in Resettled : n \in NodeId /\ ~Everywhere(n)
         /\ \A n : n \notin Resettled /\ ~Has(ancestor, n) /\ Has(source, n) /\ Has(target, n) =>
              source.nodes[n] = target.nodes[n]
<1>1. \A c \in conflicts : c \in Clashes
  BY DEF Asked
<1>2. \A c \in NodeLevel : c \in conflicts /\ c.path = NoPath
  BY DEF NodeLevel, NoPath
<1>3. \A c \in conflicts \ NodeLevel : c.path # NoPath
  BY DEF NodeLevel, NoPath
<1>4. \A c \in Clashes : c.kind = "field" => c.path # NoPath
  BY ConflictSays, PathsDiffer
<1>5. \A c \in NodeLevel : c.kind \in {"add_add", "edit_delete"}
  BY <1>1, <1>2, <1>4, ConflictSays
<1>6. \A c \in conflicts \ NodeLevel : c.kind = "field"
  BY <1>1, <1>3, ConflictSays
<1>7. ASSUME NEW n \in Resettled PROVE n \in NodeId /\ ~Everywhere(n)
  <2>1. PICK c \in NodeLevel : c.node = n
    BY DEF Resettled
  <2> QED BY <1>1, <1>2, <1>5, <2>1, ConflictSays DEF Everywhere
<1>8. ASSUME NEW n, n \notin Resettled, ~Has(ancestor, n), Has(source, n), Has(target, n)
      PROVE  source.nodes[n] = target.nodes[n]
  <2> SUFFICES ASSUME source.nodes[n] # target.nodes[n] PROVE FALSE
    OBVIOUS
  <2>1. n \in NodeId
    BY <1>8, DocTyped DEF Has, Asked, Documents
  <2>2. AddClash(Conflict("add_add", n, NoPath))
    BY <1>8, <2>1 DEF AddClash
  <2>3. Conflict("add_add", n, NoPath) \in conflicts
    BY <2>2, ClashForm DEF Asked
  <2>4. n \in Resettled
    BY <2>3 DEF Resettled, NodeLevel, Conflict, NoPath
  <2> QED BY <1>8, <2>4
<1> QED BY <1>1, <1>2, <1>3, <1>5, <1>6, <1>7, <1>8

-----------------------------------------------------------------------------
(* The merge of what is not asked about.                                   *)

AtResettled(e) == \E n \in Resettled : At(e, n)
Disputed(n, path) == \E c \in conflicts : c.kind = "field" /\ c.node = n /\ c.path = path

Settled(diff) == {e \in diff : ~excluded(e)}

(* What is left of a diff: every entry but those about a node that is      *)
(* settled as a whole, its edges, or a field that is asked about.          *)
LEMMA SettledOf ==
  ASSUME PlainDiffs, Asked, NEW new, NEW diff \in SUBSET PlainDiff(ancestor, new)
  PROVE  /\ \A n, op : op \in {"add_node", "remove_node"} =>
              (n \in Of(Settled(diff), op) <=> n \in Of(diff, op) /\ n \notin Resettled)
         /\ \A e, op : op \in EdgeOp => (e \in Of(Settled(diff), op) <=> e \in Of(diff, op) /\ ~AtResettled(e))
         /\ \A n, path : n \notin Resettled /\ path # NoPath =>
              (HasPath(ChangesOf(Settled(diff), n), path) <=> HasPath(ChangesOf(diff, n), path) /\ ~Disputed(n, path))
         /\ \A n : SomeChanges(ChangesOf(Settled(diff), n), ancestor, new, n)
         /\ SettingsConflict \notin conflicts =>
              (Of(Settled(diff), "modify_settings") # {} <=> Of(diff, "modify_settings") # {})
<1>1. \A c \in conflicts : c.kind = "field" => c.path \notin {NoPath, EdgePath}
  BY ConflictSays, PathsDiffer DEF Asked
<1>2. ASSUME NEW e \in diff
      PROVE  excluded(e) <=>
               IF e.operation \in EdgeOp THEN AtResettled(e.id)
               ELSE e.id \in Resettled \/ Disputed(e.id, e.path)
  <2>1. keyOf(e) = IF e.operation \in EdgeOp THEN <<e.id, EdgePath>> ELSE <<e.id, e.path>>
    BY DEF keyOf, EdgePath
  <2>2. \A c \in conflicts : c.kind = "field" =>
          (keyOf(e) = <<c.node, c.path>> <=> e.operation \notin EdgeOp /\ e.id = c.node /\ e.path = c.path)
    BY <1>1, <2>1
  <2>3. entryTouchesNode(e, Resettled) <=> IF e.operation \in EdgeOp THEN AtResettled(e.id) ELSE e.id \in Resettled
    BY DEF entryTouchesNode, AtResettled
  <2>4. excluded(e) <=> entryTouchesNode(e, Resettled) \/ \E c \in conflicts : c.kind = "field" /\ keyOf(e) = <<c.node, c.path>>
    BY DEF excluded
  <2> QED BY <2>2, <2>3, <2>4 DEF Disputed
<1>3. \A e \in diff : e.operation \in {"add_node", "remove_node"} => e.operation \notin EdgeOp /\ ~Disputed(e.id, e.path)
  BY <1>1, DiffSays DEF EdgeOp, Disputed
<1>4. \A S, op, x : x \in Of(S, op) <=> \E e \in S : e.operation = op /\ e.id = x
  BY DEF Of
<1>5. \A e : e \in Settled(diff) <=> e \in diff /\ ~excluded(e)
  BY DEF Settled
<1>6. \A n, op : op \in {"add_node", "remove_node"} =>
        (n \in Of(Settled(diff), op) <=> n \in Of(diff, op) /\ n \notin Resettled)
  BY <1>2, <1>3, <1>4, <1>5
<1>7. \A e, op : op \in EdgeOp => (e \in Of(Settled(diff), op) <=> e \in Of(diff, op) /\ ~AtResettled(e))
  BY <1>2, <1>4, <1>5
<1>8. \A S, n, path : HasPath(ChangesOf(S, n), path) <=>
        \E e \in S : e.operation \in {"rename_node", "modify_node"} /\ e.id = n /\ e.path = path
  BY DEF HasPath, ChangesOf
<1>9. \A n, path : n \notin Resettled =>
        (HasPath(ChangesOf(Settled(diff), n), path) <=> HasPath(ChangesOf(diff, n), path) /\ ~Disputed(n, path))
  BY <1>2, <1>5, <1>8 DEF EdgeOp
<1>10. \A n : SomeChanges(ChangesOf(Settled(diff), n), ancestor, new, n)
  BY DEF SomeChanges, ChangesOf, Settled
<1>11. ASSUME SettingsConflict \notin conflicts
       PROVE  \A e \in diff : e.operation = "modify_settings" => ~excluded(e)
  <2> SUFFICES ASSUME NEW e \in diff, e.operation = "modify_settings" PROVE ~excluded(e)
    OBVIOUS
  <2>1. e.id = Settings /\ e.path = SettingsPath
    BY DiffSays
  <2>2. e.id \notin Resettled
    BY <2>1, ResettledIs, DocsAssumption
  <2>3. ~Disputed(e.id, e.path)
    <3> SUFFICES ASSUME NEW c \in conflicts, c.kind = "field", c.node = Settings, c.path = SettingsPath PROVE FALSE
      BY <2>1 DEF Disputed
    <3>1. c \in Clashes /\ c.node \notin NodeId
      BY DocsAssumption DEF Asked
    <3> QED BY <1>11, <3>1, ConflictSays
  <2> QED BY <1>2, <2>2, <2>3 DEF EdgeOp
<1>12. SettingsConflict \notin conflicts =>
         (Of(Settled(diff), "modify_settings") # {} <=> Of(diff, "modify_settings") # {})
  <2>1. \A S, op : Of(S, op) # {} <=> \E e \in S : e.operation = op
    BY DEF Of
  <2> QED BY <1>5, <1>11, <2>1
<1> QED BY <1>6, <1>7, <1>9, <1>10, <1>12

half == applyDiff(ancestor, Settled(targetDiff))

(* First the changes of the target are made ...                            *)
LEMMA HalfIs ==
  ASSUME PlainDiffs, Asked
  PROVE  /\ \A n : n \notin Resettled =>
              /\ n \in DOMAIN half.nodes <=> Has(target, n)
              /\ Has(target, n) /\ ~Has(ancestor, n) => half.nodes[n] = target.nodes[n]
              /\ Has(target, n) /\ Has(ancestor, n) =>
                   half.nodes[n] = patched(ancestor.nodes[n], ChangesOf(Settled(targetDiff), n))
         /\ \A e : ~AtResettled(e) => (e \in half.edges <=> e \in target.edges)
<1> DEFINE kept == Settled(targetDiff)
<1>1. IsApplied(half, ancestor, target, kept)
  <2>1. kept \in SUBSET PlainDiff(ancestor, target) /\ target \in WorkflowIR
    BY DEF Settled, PlainDiffs, Asked, Documents
  <2> QED BY <2>1, ApplyIs DEF half
<1>2. /\ \A n, op : op \in {"add_node", "remove_node"} =>
           (n \in Of(kept, op) <=> n \in Of(targetDiff, op) /\ n \notin Resettled)
      /\ \A e, op : op \in EdgeOp => (e \in Of(kept, op) <=> e \in Of(targetDiff, op) /\ ~AtResettled(e))
  BY SettledOf DEF PlainDiffs
<1>3. /\ Of(targetDiff, "add_node") = DOMAIN target.nodes \ DOMAIN ancestor.nodes
      /\ Of(targetDiff, "remove_node") = DOMAIN ancestor.nodes \ DOMAIN target.nodes
      /\ Of(targetDiff, "add_edge") = target.edges \ ancestor.edges
      /\ Of(targetDiff, "remove_edge") = ancestor.edges \ target.edges
  BY DiffOf DEF PlainDiffs
<1>4. \A e \in target.edges : \A n : At(e, n) => Has(target, n)
  BY DocTyped DEF Has, Asked, Documents
<1> HIDE DEF kept
<1>5. ASSUME NEW n, n \notin Resettled
      PROVE  /\ n \in DOMAIN half.nodes <=> Has(target, n)
             /\ Has(target, n) /\ ~Has(ancestor, n) => half.nodes[n] = target.nodes[n]
             /\ Has(target, n) /\ Has(ancestor, n) => half.nodes[n] = patched(ancestor.nodes[n], ChangesOf(kept, n))
  <2>1. /\ n \in Of(kept, "add_node") <=> Has(target, n) /\ ~Has(ancestor, n)
        /\ n \in Of(kept, "remove_node") <=> Has(ancestor, n) /\ ~Has(target, n)
    BY <1>2, <1>3, <1>5 DEF Has
  <2> QED BY <1>1, <2>1 DEF IsApplied, Has
<1>6. ASSUME NEW e, ~AtResettled(e) PROVE e \in half.edges <=> e \in target.edges
  <2>1. /\ e \in Of(kept, "add_edge") <=> e \in target.edges \ ancestor.edges
        /\ e \in Of(kept, "remove_edge") <=> e \in ancestor.edges \ target.edges
    BY <1>2, <1>3, <1>6 DEF EdgeOp
  <2>2. e \in target.edges => ~\E n \in Of(kept, "remove_node") : At(e, n)
    BY <1>2, <1>3, <1>4 DEF Has
  <2> QED BY <1>1, <2>1, <2>2 DEF IsApplied
<1> QED BY <1>5, <1>6 DEF kept

(* ... then those of the source that the target has none for.              *)
LEMMA BaseIs ==
  ASSUME PlainDiffs, Asked
  PROVE  /\ \A n : n \notin Resettled =>
              /\ n \in DOMAIN baseMerge.nodes <=> n \in NodeId /\ Stays(n)
              /\ n \in DOMAIN baseMerge.nodes /\ ~Everywhere(n) => baseMerge.nodes[n] = MergedNode(n)
              /\ Everywhere(n) => baseMerge.nodes[n] = patched(half.nodes[n], ChangesOf(Settled(applied), n))
         /\ ~StrandedEdge => \A e : ~AtResettled(e) => (e \in baseMerge.edges <=> e \in MergedEdges)
<1> DEFINE kept == Settled(applied)
<1>1. IsApplied(baseMerge, half, source, kept)
  <2>1. kept \in SUBSET PlainDiff(ancestor, source) /\ source \in WorkflowIR
    BY DEF Settled, applied, NonOverlapping, PlainDiffs, Asked, Documents
  <2>2. baseMerge = applyDiff(half, kept)
    BY DEF baseMerge, half, applied, Settled
  <2> QED BY <2>1, <2>2, ApplyIs
<1>2. /\ \A n, op : op \in {"add_node", "remove_node"} =>
           (n \in Of(kept, op) <=> n \in Of(applied, op) /\ n \notin Resettled)
      /\ \A e, op : op \in EdgeOp => (e \in Of(kept, op) <=> e \in Of(applied, op) /\ ~AtResettled(e))
  <2>1. applied \in SUBSET PlainDiff(ancestor, source)
    BY DEF applied, NonOverlapping, PlainDiffs
  <2> QED BY <2>1, SettledOf
<1>3. /\ \A n : /\ n \in Of(applied, "add_node") <=> Has(source, n) /\ ~Has(ancestor, n) /\ ~Has(target, n)
                /\ n \in Of(applied, "remove_node") <=> Has(ancestor, n) /\ Has(target, n) /\ ~Has(source, n)
      /\ \A e : /\ e \in Of(applied, "add_edge") <=> e \in source.edges /\ e \notin ancestor.edges /\ e \notin target.edges
                /\ e \in Of(applied, "remove_edge") <=> e \in ancestor.edges /\ e \in target.edges /\ e \notin source.edges
  BY AppliedOf
<1>4. \A n : ~Everywhere(n) /\ Has(target, n) => ChangesOf(kept, n) = {} \/ Has(ancestor, n)
  <2>1. \A e \in kept : e \in PlainDiff(ancestor, source)
    BY DEF Settled, applied, NonOverlapping, PlainDiffs
  <2> QED BY <2>1, DiffSays DEF ChangesOf, Kept, Has
<1>5. ASSUME NEW n
      PROVE  /\ Stays(n) <=> IF Has(source, n) <=> Has(ancestor, n) THEN Has(target, n) ELSE Has(source, n)
             /\ Has(source, n) \/ Has(target, n) => n \in NodeId
  <2>1. Has(source, n) \in BOOLEAN /\ Has(target, n) \in BOOLEAN /\ Has(ancestor, n) \in BOOLEAN
    BY DEF Has
  <2>2. Has(source, n) \/ Has(target, n) => n \in NodeId
    BY DocTyped DEF Has, Asked, Documents
  <2> QED BY <2>1, <2>2 DEF Stays, Pick
<1>6. \A n : Has(target, n) => target.nodes[n] \in IRNode
  BY DocTyped DEF Has, Asked, Documents
<1>7. ASSUME NEW n, n \notin Resettled
      PROVE  /\ n \in DOMAIN half.nodes <=> Has(target, n)
             /\ Has(target, n) /\ ~Has(ancestor, n) => half.nodes[n] = target.nodes[n]
  BY <1>7, HalfIs
<1> HIDE DEF kept
<1>8. ASSUME NEW n, n \notin Resettled
      PROVE  /\ n \in DOMAIN baseMerge.nodes <=> n \in NodeId /\ Stays(n)
             /\ n \in DOMAIN baseMerge.nodes /\ ~Everywhere(n) => baseMerge.nodes[n] = MergedNode(n)
             /\ Everywhere(n) => baseMerge.nodes[n] = patched(half.nodes[n], ChangesOf(kept, n))
  <2>1. /\ n \in Of(kept, "add_node") <=> Has(source, n) /\ ~Has(ancestor, n) /\ ~Has(target, n)
        /\ n \in Of(kept, "remove_node") <=> Has(ancestor, n) /\ Has(target, n) /\ ~Has(source, n)
    BY <1>2, <1>3, <1>8
  <2>2. n \in DOMAIN baseMerge.nodes <=>
          (n \in DOMAIN half.nodes \/ n \in Of(kept, "add_node")) /\ n \notin Of(kept, "remove_node")
    BY <1>1 DEF IsApplied
  <2>3. n \in DOMAIN baseMerge.nodes <=> n \in NodeId /\ Stays(n)
    BY <1>5, <1>7, <1>8, <2>1, <2>2
  <2>4. n \in DOMAIN baseMerge.nodes =>
          baseMerge.nodes[n] = IF n \in Of(kept, "add_node") THEN source.nodes[n]
                               ELSE patched(half.nodes[n], ChangesOf(kept, n))
    BY <1>1 DEF IsApplied
  <2>5. ASSUME n \in DOMAIN baseMerge.nodes, ~Everywhere(n) PROVE baseMerge.nodes[n] = MergedNode(n)
    <3>1. CASE n \in Of(kept, "add_node")
      BY <2>1, <2>4, <2>5, <3>1 DEF MergedNode
    <3>2. CASE n \notin Of(kept, "add_node")
      <4>1. Has(target, n) /\ ~Has(ancestor, n)
        BY <1>7, <1>8, <2>1, <2>2, <2>5, <3>2 DEF Everywhere
      <4>2. ChangesOf(kept, n) = {} /\ half.nodes[n] = target.nodes[n] /\ target.nodes[n] \in IRNode
        BY <1>4, <1>6, <1>7, <1>8, <2>5, <4>1
      <4>3. baseMerge.nodes[n] = target.nodes[n]
        BY <2>4, <2>5, <3>2, <4>2, PatchedWithNothing
      <4>4. Has(source, n) => source.nodes[n] = target.nodes[n]
        BY <1>8, <4>1, ResettledIs
      <4> QED BY <2>5, <4>3, <4>4 DEF MergedNode
    <3> QED BY <3>1, <3>2
  <2>6. Everywhere(n) => baseMerge.nodes[n] = patched(half.nodes[n], ChangesOf(kept, n))
    <3> SUFFICES ASSUME Everywhere(n) PROVE baseMerge.nodes[n] = patched(half.nodes[n], ChangesOf(kept, n))
      OBVIOUS
    <3>1. Has(source, n) /\ Has(target, n) /\ Has(ancestor, n)
      BY DEF Everywhere
    <3>2. n \in DOMAIN baseMerge.nodes /\ n \notin Of(kept, "add_node")
      BY <1>7, <1>8, <2>1, <2>2, <3>1
    <3> QED BY <2>4, <3>2
  <2> QED BY <2>3, <2>5, <2>6
<1>9. ASSUME ~StrandedEdge, NEW e, ~AtResettled(e) PROVE e \in baseMerge.edges <=> e \in MergedEdges
  <2>1. /\ e \in Of(kept, "add_edge") <=> e \in source.edges /\ e \notin ancestor.edges /\ e \notin target.edges
        /\ e \in Of(kept, "remove_edge") <=> e \in ancestor.edges /\ e \in target.edges /\ e \notin source.edges
    BY <1>2, <1>3, <1>9 DEF EdgeOp
  <2>2. e \in half.edges <=> e \in target.edges
    BY <1>9, HalfIs
  <2>3. e \in MergedEdges <=>
          /\ e \in Edge
          /\ IF e \in source.edges <=> e \in ancestor.edges THEN e \in target.edges ELSE e \in source.edges
    BY DEF MergedEdges, Pick
  <2>4. source.edges \subseteq Edge /\ target.edges \subseteq Edge
    BY DocTyped DEF Asked, Documents
  <2>5. e \in MergedEdges => ~\E n \in Of(kept, "remove_node") : At(e, n)
    <3> SUFFICES ASSUME e \in MergedEdges, NEW n \in Of(kept, "remove_node"), At(e, n) PROVE FALSE
      OBVIOUS
    <3>1. Has(ancestor, n) /\ Has(target, n) /\ ~Has(source, n)
      BY <1>2, <1>3
    <3>2. ~Stays(n) /\ n \in NodeId
      BY <1>5, <3>1
    <3> QED BY <1>9, <3>2 DEF StrandedEdge
  <2> QED BY <1>1, <2>1, <2>2, <2>3, <2>4, <2>5 DEF IsApplied
<1> QED BY <1>8, <1>9 DEF kept


(* A node that is everywhere, before the fields that are asked about are   *)
(* set: its entries are the target's and then the source's.                *)
LEMMA BaseNode ==
  ASSUME PlainDiffs, Asked, NEW n, Everywhere(n)
  PROVE  LET theirs == ChangesOf(Settled(targetDiff), n)
             ours == ChangesOf(Settled(applied), n)
         IN  /\ n \in DOMAIN baseMerge.nodes
             /\ SomeChanges(theirs, ancestor, target, n) /\ SomeChanges(ours, ancestor, source, n)
             /\ baseMerge.nodes[n] = patched(patched(ancestor.nodes[n], theirs), ours)
             /\ \A path : path # NoPath =>
                  /\ HasPath(theirs, path) <=> HasPath(ChangesOf(targetDiff, n), path) /\ ~Disputed(n, path)
                  /\ HasPath(ours, path) <=> HasPath(ChangesOf(applied, n), path) /\ ~Disputed(n, path)
<1> DEFINE theirs == ChangesOf(Settled(targetDiff), n)
           ours == ChangesOf(Settled(applied), n)
<1>1. n \notin Resettled /\ n \in NodeId
  BY ResettledIs, DocTyped DEF Everywhere, Has, Asked, Documents
<1>2. Has(target, n) /\ Has(ancestor, n) /\ Stays(n)
  BY DEF Everywhere, Stays, Pick
<1>3. half.nodes[n] = patched(ancestor.nodes[n], theirs)
  BY <1>1, <1>2, HalfIs
<1>4. n \in DOMAIN baseMerge.nodes /\ baseMerge.nodes[n] = patched(half.nodes[n], ours)
  BY <1>1, <1>2, BaseIs
<1>5. targetDiff \in SUBSET PlainDiff(ancestor, target) /\ applied \in SUBSET PlainDiff(ancestor, source)
  BY DEF PlainDiffs, applied, NonOverlapping
<1>6. SomeChanges(theirs, ancestor, target, n) /\ SomeChanges(ours, ancestor, source, n)
  BY <1>5, SettledOf
<1>7. \A path : path # NoPath =>
        /\ HasPath(theirs, path) <=> HasPath(ChangesOf(targetDiff, n), path) /\ ~Disputed(n, path)
        /\ HasPath(ours, path) <=> HasPath(ChangesOf(applied, n), path) /\ ~Disputed(n, path)
  BY <1>1, <1>5, SettledOf
<1> QED BY <1>3, <1>4, <1>6, <1>7

LEMMA BaseName ==
  ASSUME PlainDiffs, Asked, NEW n, Everywhere(n), ~Disputed(n, NamePath)
  PROVE  baseMerge.nodes[n].name = MergedNode(n).name
<1> DEFINE theirs == ChangesOf(Settled(targetDiff), n)
           ours == ChangesOf(Settled(applied), n)
           a == ancestor.nodes[n].name
           s == source.nodes[n].name
           t == target.nodes[n].name
<1>1. /\ SomeChanges(theirs, ancestor, target, n) /\ SomeChanges(ours, ancestor, source, n)
      /\ baseMerge.nodes[n] = patched(patched(ancestor.nodes[n], theirs), ours)
      /\ HasPath(theirs, NamePath) <=> HasPath(ChangesOf(targetDiff, n), NamePath)
      /\ HasPath(ours, NamePath) <=> HasPath(ChangesOf(applied, n), NamePath)
  BY BaseNode, PathsDiffer
<1>2. HasPath(ChangesOf(targetDiff, n), NamePath) <=> a # t
  BY DiffPaths DEF PlainDiffs, Everywhere, Has, Kept
<1>3. HasPath(ChangesOf(applied, n), NamePath) <=> a # s /\ a = t
  BY AppliedPaths
<1>4. MergedNode(n).name = Pick(a, s, t)
  BY DEF MergedNode, PickNode
<1>5. ~Clash(a, s, t)
  <2> SUFFICES ASSUME Clash(a, s, t) PROVE FALSE
    OBVIOUS
  <2>1. n \in NodeId
    BY DocTyped DEF Everywhere, Has, Asked, Documents
  <2>2. FieldClash(Conflict("field", n, NamePath))
    BY <2>1 DEF FieldClash
  <2>3. Conflict("field", n, NamePath) \in conflicts
    BY <2>2, ClashForm DEF Asked
  <2> QED BY <2>3 DEF Disputed, Conflict
<1> HIDE DEF theirs, ours, a, s, t
<1>6. patched(ancestor.nodes[n], theirs).name = t
  BY <1>1, <1>2, NameIs DEF a, t
<1>7. baseMerge.nodes[n].name = IF a # s /\ a = t THEN s ELSE t
  BY <1>1, <1>3, <1>6, NameIs DEF s
<1> QED BY <1>4, <1>5, <1>7 DEF Clash, Pick

(* What the base has of a parameter.                                       *)
LEMMA BaseField ==
  ASSUME PlainDiffs, Asked, NEW n, Everywhere(n), NEW p \in Param
  PROVE  LET theirs == ChangesOf(Settled(targetDiff), n)
             ours == ChangesOf(Settled(applied), n)
         IN  ParamOf(baseMerge, n, p) = setNested(setNested(ParamOf(ancestor, n, p), p, theirs), p, ours)
<1> DEFINE theirs == ChangesOf(Settled(targetDiff), n)
           ours == ChangesOf(Settled(applied), n)
<1>1. baseMerge.nodes[n] = patched(patched(ancestor.nodes[n], theirs), ours)
  BY BaseNode
<1>2. \A node, entries : patched(node, entries).parameters[p] = setNested(node.parameters[p], p, entries)
  BY DEF patched
<1> HIDE DEF theirs, ours
<1> QED BY <1>1, <1>2 DEF ParamOf, theirs, ours

LEMMA BaseParam ==
  ASSUME PlainDiffs, Asked, NEW n, Everywhere(n), NEW p \in Param,
         ~Disputed(n, WholePath(p)), \A k \in Sub : ~Disputed(n, KeyPath(p, k))
  PROVE  ParamOf(baseMerge, n, p) = MergedNode(n).parameters[p]
<1> DEFINE theirs == ChangesOf(Settled(targetDiff), n)
           ours == ChangesOf(Settled(applied), n)
           a == ParamOf(ancestor, n, p)
           s == ParamOf(source, n, p)
           t == ParamOf(target, n, p)
<1>1. /\ SomeChanges(theirs, ancestor, target, n) /\ SomeChanges(ours, ancestor, source, n)
      /\ \A path : path # NoPath /\ ~Disputed(n, path) =>
           /\ HasPath(theirs, path) <=> HasPath(ChangesOf(targetDiff, n), path)
           /\ HasPath(ours, path) <=> HasPath(ChangesOf(applied, n), path)
  BY BaseNode
<1>2. /\ HasPath(ChangesOf(targetDiff, n), WholePath(p)) <=> WholeDiffers(ancestor, target, n, p)
      /\ \A k \in Sub : HasPath(ChangesOf(targetDiff, n), KeyPath(p, k)) <=> KeyDiffers(ancestor, target, n, p, k)
  BY DiffPaths DEF PlainDiffs, Everywhere, Has, Kept
<1>3. TakesFields(ChangesOf(applied, n), n, p)
  BY AppliedPaths
<1>4. ParamOf(baseMerge, n, p) = setNested(setNested(a, p, theirs), p, ours)
  BY BaseField
<1>5. MergedNode(n).parameters[p] = PickValue(a, s, t)
  BY DEF MergedNode, PickNode, ParamOf
<1>6. ClashValue(n, p, a, s, t) = {}
  <2> SUFFICES ASSUME NEW c \in ClashValue(n, p, a, s, t) PROVE FALSE
    OBVIOUS
  <2>1. n \in NodeId
    BY DocTyped DEF Everywhere, Has, Asked, Documents
  <2>2. FieldClash(c)
    BY <2>1 DEF FieldClash
  <2>3. c \in conflicts
    BY <2>2, ClashForm DEF Asked
  <2>4. c = Conflict("field", n, WholePath(p)) \/ \E k \in Sub : c = Conflict("field", n, KeyPath(p, k))
    BY DEF ClashValue, WholePath, KeyPath
  <2> QED BY <2>3, <2>4 DEF Disputed, Conflict
<1>7. /\ WholePath(p) # NoPath
      /\ \A k \in Sub : KeyPath(p, k) # NoPath
  BY PathsDiffer
<1> HIDE DEF theirs, ours
<1>8. setNested(a, p, theirs) = t
  BY <1>1, <1>2, <1>7, FieldGiven
<1>9. TakesFields(ours, n, p)
  BY <1>1, <1>3, <1>7 DEF TakesFields
<1>10. setNested(t, p, ours) = PickValue(a, s, t)
  BY <1>1, <1>6, <1>9, MergedField DEF Asked
<1> QED BY <1>4, <1>5, <1>8, <1>10

(* Records are still a record where they are asked about key by key.       *)
LEMMA BaseRecord ==
  ASSUME PlainDiffs, Asked, NEW n, Everywhere(n), NEW p \in Param, AllRecordsAt(n, p)
  PROVE  ParamOf(baseMerge, n, p) \in Record
<1> DEFINE theirs == ChangesOf(Settled(targetDiff), n)
           ours == ChangesOf(Settled(applied), n)
           a == ParamOf(ancestor, n, p)
           s == ParamOf(source, n, p)
           t == ParamOf(target, n, p)
           b == setNested(a, p, theirs)
<1>1. /\ SomeChanges(theirs, ancestor, target, n) /\ SomeChanges(ours, ancestor, source, n)
      /\ HasPath(theirs, WholePath(p)) => HasPath(ChangesOf(targetDiff, n), WholePath(p))
      /\ HasPath(ours, WholePath(p)) => HasPath(ChangesOf(applied, n), WholePath(p))
  BY BaseNode, PathsDiffer
<1>2. HasPath(ChangesOf(targetDiff, n), WholePath(p)) <=> WholeDiffers(ancestor, target, n, p)
  BY DiffPaths DEF PlainDiffs, Everywhere, Has, Kept
<1>3. HasPath(ChangesOf(applied, n), WholePath(p)) => WholeDiffers(ancestor, source, n, p)
  BY AppliedPaths DEF TakesFields
<1>4. ParamOf(baseMerge, n, p) = setNested(b, p, ours)
  BY BaseField
<1>5. a \in Record /\ s \in Record /\ t \in Record
  BY DEF AllRecordsAt, AllRecords
<1>6. ~HasPath(theirs, WholePath(p)) /\ ~HasPath(ours, WholePath(p))
  BY <1>1, <1>2, <1>3, <1>5 DEF WholeDiffers, BothRecords
<1> HIDE DEF theirs, ours, a, s, t
<1>7. b = [k \in Sub |-> IF HasPath(theirs, KeyPath(p, k)) THEN t[k] ELSE a[k]]
  BY <1>1, <1>5, <1>6, SetNestedIs DEF t
<1>8. b \in Record
  BY <1>5, <1>7 DEF Record
<1> HIDE DEF b
<1>9. setNested(b, p, ours) = [k \in Sub |-> IF HasPath(ours, KeyPath(p, k)) THEN s[k] ELSE b[k]]
  BY <1>1, <1>6, <1>8, SetNestedIs DEF s
<1> QED BY <1>4, <1>5, <1>8, <1>9 DEF Record


-----------------------------------------------------------------------------
(* What was chosen.                                                        *)

Said(c, r) ==
  IF r.by = "custom" THEN r.value
  ELSE IF r.by = "source" THEN FieldAt(source.nodes[c.node], c.path) ELSE FieldAt(target.nodes[c.node], c.path)

LEMMA LegalBy ==
  ASSUME PlainDiffs, Asked, NEW c \in conflicts, NEW r \in Legal(c)
  PROVE  /\ c.kind = "field" => r.by \in {"source", "target", "custom"}
         /\ c.kind = "add_add" => \/ r.by \in {"source", "target"}
                                  \/ r.by = "custom" /\ r.value \in IRNode
         /\ c.kind = "edit_delete" => r.by \in {"keep", "delete"}
  BY DEF Legal

\* What was asked about the fields of nodes.
FieldConflicts == conflicts \ (NodeLevel \cup {SettingsConflict})

LEMMA FieldConflictsAre ==
  ASSUME PlainDiffs, Asked, NEW c \in FieldConflicts
  PROVE  /\ c \in conflicts /\ c \notin NodeLevel /\ c \in Clashes /\ c.kind = "field"
         /\ c.path \notin {NoPath, EdgePath, SettingsPath} /\ c.node \in NodeId /\ Everywhere(c.node)
         /\ \/ c.path = NamePath
            \/ \E p \in Param : c.path = WholePath(p) /\ ~AllRecordsAt(c.node, p)
            \/ \E p \in Param, k \in Sub : c.path = KeyPath(p, k) /\ AllRecordsAt(c.node, p)
<1>1. c \in conflicts \ NodeLevel /\ c # SettingsConflict
  BY DEF FieldConflicts
<1>2. c \in Clashes /\ c.kind = "field" /\ c.path # NoPath
  BY <1>1, ResettledIs
<1> QED BY <1>1, <1>2, ConflictSays, PathsDiffer

(* Settings that were not asked about are merged.                          *)
LEMMA BaseSettings ==
  ASSUME PlainDiffs, Asked, SettingsConflict \notin conflicts
  PROVE  baseMerge.settings = Pick(ancestor.settings, source.settings, target.settings)
<1>1. baseMerge.settings = IF Of(Settled(applied), "modify_settings") = {} THEN half.settings ELSE source.settings
  <2>1. Settled(applied) \in SUBSET PlainDiff(ancestor, source) /\ source \in WorkflowIR
    BY DEF Settled, applied, NonOverlapping, PlainDiffs, Asked, Documents
  <2>2. baseMerge = applyDiff(half, Settled(applied))
    BY DEF baseMerge, half, applied, Settled
  <2>3. IsApplied(baseMerge, half, source, Settled(applied))
    BY <2>1, <2>2, ApplyIs
  <2>4. baseMerge.settings = IF Of(Settled(applied), "modify_settings") = {} THEN half.settings ELSE source.settings
    BY <2>3 DEF IsApplied
  <2> QED BY <2>4
<1>2. half.settings = IF Of(Settled(targetDiff), "modify_settings") = {} THEN ancestor.settings ELSE target.settings
  <2>1. Settled(targetDiff) \in SUBSET PlainDiff(ancestor, target) /\ target \in WorkflowIR
    BY DEF Settled, PlainDiffs, Asked, Documents
  <2>2. IsApplied(half, ancestor, target, Settled(targetDiff))
    BY <2>1, ApplyIs DEF half
  <2> QED BY <2>2 DEF IsApplied
<1>3. \A new : \A diff \in SUBSET PlainDiff(ancestor, new) :
        Of(Settled(diff), "modify_settings") # {} <=> Of(diff, "modify_settings") # {}
  BY SettledOf
<1>4. /\ Of(Settled(applied), "modify_settings") # {} <=> Of(applied, "modify_settings") # {}
      /\ Of(Settled(targetDiff), "modify_settings") # {} <=> Of(targetDiff, "modify_settings") # {}
  BY <1>3 DEF applied, NonOverlapping, PlainDiffs
<1>5. Of(targetDiff, "modify_settings") # {} <=> target.settings # ancestor.settings
  BY DiffOf DEF PlainDiffs
<1>6. ~Clash(ancestor.settings, source.settings, target.settings)
  BY ClashForm DEF SettingsClash, Asked
<1> QED BY <1>1, <1>2, <1>4, <1>5, <1>6, AppliedOf DEF Clash, Pick

(* The entry a diff has for a field says what the document has there.      *)
LEMMA FieldEntryIs ==
  ASSUME NEW old, NEW new, NEW e \in PlainDiff(old, new), e.operation \notin EdgeOp,
         e.path \notin {NoPath, SettingsPath}
  PROVE  /\ e.operation \in {"rename_node", "modify_node"}
         /\ e.new = FieldAt(new.nodes[e.id], e.path)
<1>1. e.operation \in {"rename_node", "modify_node"}
  BY DiffSays DEF EdgeOp
<1>2. CASE e.path = NamePath
  BY <1>1, <1>2, DiffEntry, PathsDiffer DEF Ent, FieldAt
<1>3. ASSUME NEW p, e.path = WholePath(p) PROVE e.new = FieldAt(new.nodes[e.id], e.path)
  <2>1. e.new = ParamOf(new, e.id, p)
    BY <1>3, DiffEntry DEF Ent
  <2>2. Len(e.path) = 2 /\ e.path[2] = p
    BY <1>3, PathsDiffer
  <2> QED BY <2>1, <2>2 DEF FieldAt, ParamOf
<1>4. ASSUME NEW p, NEW k, e.path = KeyPath(p, k) PROVE e.new = FieldAt(new.nodes[e.id], e.path)
  <2>1. e.new = ParamOf(new, e.id, p)[k]
    BY <1>4, DiffEntry DEF Ent
  <2>2. Len(e.path) = 3 /\ e.path[2] = p /\ e.path[3] = k
    BY <1>4, PathsDiffer
  <2> QED BY <2>1, <2>2 DEF FieldAt, ParamOf
<1> QED BY <1>1, <1>2, <1>3, <1>4, DiffSays

(* The entry of a field that was asked about, and what it says.            *)
LEMMA ResolvedFieldIs ==
  ASSUME PlainDiffs, Asked, NEW c \in FieldConflicts, NEW r \in Legal(c)
  PROVE  LET e == resolvedField(c, r)
         IN  /\ e.id = c.node /\ e.path = c.path /\ e.new = Said(c, r)
             /\ e.operation \in {"rename_node", "modify_node"}
<1>1. c.kind = "field" /\ c.path \notin {NoPath, EdgePath, SettingsPath} /\ r.by \in {"source", "target", "custom"}
  BY FieldConflictsAre, LegalBy
<1>2. c \in collisions
  <2>1. c \notin editDeletes
    BY <1>1 DEF editDeletes, Conflict
  <2> QED BY <2>1, FieldConflictsAre DEF Asked
<1>3. PICK x \in sourceDiff, y \in targetDiff : Collide(x, y) /\ x.id = c.node /\ x.path = c.path
  BY <1>2, CollisionForm DEF Conflict
<1>4. keyOf(x) = <<c.node, c.path>> /\ keyOf(y) = <<c.node, c.path>>
  BY <1>3 DEF Collide, keyOf
<1> DEFINE e == CHOOSE e \in sourceDiff : keyOf(e) = <<c.node, c.path>>
           f == CHOOSE f \in targetDiff : keyOf(f) = <<c.node, c.path>>
<1>5. e \in sourceDiff /\ keyOf(e) = <<c.node, c.path>>
  BY <1>4
<1>6. f \in targetDiff /\ keyOf(f) = <<c.node, c.path>>
  BY <1>4
<1>7. \A z : keyOf(z) = <<c.node, c.path>> => z.operation \notin EdgeOp /\ z.id = c.node /\ z.path = c.path
  BY <1>1 DEF keyOf, EdgePath
<1>8. resolvedField(c, r) = CASE r.by = "source" -> e [] r.by = "target" -> f [] r.by = "custom" -> [e EXCEPT !.new = r.value]
  BY DEF resolvedField
<1> HIDE DEF e, f
<1>9. /\ e.operation \in {"rename_node", "modify_node"} /\ e.new = FieldAt(source.nodes[c.node], c.path)
      /\ e.id = c.node /\ e.path = c.path
  BY <1>1, <1>5, <1>7, FieldEntryIs DEF PlainDiffs
<1>10. /\ f.operation \in {"rename_node", "modify_node"} /\ f.new = FieldAt(target.nodes[c.node], c.path)
       /\ f.id = c.node /\ f.path = c.path
  BY <1>1, <1>6, <1>7, FieldEntryIs DEF PlainDiffs
<1>11. e = Ent(e.operation, e.id, e.path, e.new)
  BY <1>5, DiffForm DEF Ent, PlainDiffs
<1>12. CASE r.by = "source"
  BY <1>8, <1>9, <1>12 DEF Said
<1>13. CASE r.by = "target"
  BY <1>8, <1>10, <1>13 DEF Said
<1>14. CASE r.by = "custom"
  <2>1. resolvedField(c, r) = [e EXCEPT !.new = r.value]
    BY <1>8, <1>14
  <2>2. Said(c, r) = r.value
    BY <1>14 DEF Said
  <2> QED BY <1>9, <1>11, <2>1, <2>2 DEF Ent
<1> QED BY <1>1, <1>12, <1>13, <1>14

fieldsOf(choice) == {resolvedField(c, choice[c]) : c \in FieldConflicts}

(* The entries for the fields: one for each that was asked about.          *)
LEMMA FieldsAre ==
  ASSUME PlainDiffs, Asked, NEW choice \in Choices
  PROVE  /\ \A n : FieldEntries(ChangesOf(fieldsOf(choice), n))
         /\ \A c \in FieldConflicts :
              \E e \in ChangesOf(fieldsOf(choice), c.node) : e.path = c.path /\ e.new = Said(c, choice[c])
         /\ \A n : \A e \in ChangesOf(fieldsOf(choice), n) :
              \E c \in FieldConflicts : c.node = n /\ c.path = e.path
         /\ \A op \in EdgeOp \cup {"add_node", "remove_node", "modify_settings"} : Of(fieldsOf(choice), op) = {}
<1>1. ASSUME NEW c \in FieldConflicts
      PROVE  LET e == resolvedField(c, choice[c])
             IN  /\ e.id = c.node /\ e.path = c.path /\ e.new = Said(c, choice[c])
                 /\ e.operation \in {"rename_node", "modify_node"}
  <2>1. choice[c] \in Legal(c)
    BY DEF Choices, FieldConflicts
  <2> QED BY <2>1, ResolvedFieldIs
<1>2. \A c \in FieldConflicts :
        \E e \in ChangesOf(fieldsOf(choice), c.node) : e.path = c.path /\ e.new = Said(c, choice[c])
  BY <1>1 DEF fieldsOf, ChangesOf
<1>3. \A n : \A e \in ChangesOf(fieldsOf(choice), n) :
        \E c \in FieldConflicts : c.node = n /\ c.path = e.path /\ e.new = Said(c, choice[c])
  BY <1>1 DEF fieldsOf, ChangesOf
<1>4. \A op \in EdgeOp \cup {"add_node", "remove_node", "modify_settings"} : Of(fieldsOf(choice), op) = {}
  <2>1. \A e \in fieldsOf(choice) : e.operation \in {"rename_node", "modify_node"}
    BY <1>1 DEF fieldsOf
  <2> QED BY <2>1 DEF Of, EdgeOp
<1>5. ASSUME NEW n PROVE FieldEntries(ChangesOf(fieldsOf(choice), n))
  <2>1. \A c \in FieldConflicts : c.kind = "field" /\ c \in Clashes
    BY FieldConflictsAre
  <2>2. \A c \in FieldConflicts :
          c.path = NamePath \/ \E q : c.path = WholePath(q) \/ \E k \in Sub : c.path = KeyPath(q, k)
    BY FieldConflictsAre
  <2>3. \A c, d \in FieldConflicts : c.node = d.node /\ c.path = d.path => c = d
    BY <2>1, ConflictIs
  <2>4. ASSUME NEW c \in FieldConflicts, NEW d \in FieldConflicts, c.node = d.node,
               NEW p, NEW k, c.path = WholePath(p), d.path = KeyPath(p, k)
        PROVE  FALSE
    <3>1. ~AllRecordsAt(c.node, p)
      BY <2>4, FieldConflictsAre, PathsDiffer, PathsName
    <3>2. AllRecordsAt(d.node, p)
      BY <2>4, FieldConflictsAre, PathsDiffer, PathsName
    <3> QED BY <2>4, <3>1, <3>2
  <2>5. \A e, f \in ChangesOf(fieldsOf(choice), n) : \A q, k : ~(e.path = WholePath(q) /\ f.path = KeyPath(q, k))
    BY <1>3, <2>4
  <2>6. \A e \in ChangesOf(fieldsOf(choice), n) :
          e.path = NamePath \/ \E q : e.path = WholePath(q) \/ \E k \in Sub : e.path = KeyPath(q, k)
    BY <1>3, <2>2
  <2>7. \A e, f \in ChangesOf(fieldsOf(choice), n) : e.path = f.path => e.new = f.new
    BY <1>3, <2>3
  <2> QED BY <2>5, <2>6, <2>7 DEF FieldEntries
<1> QED BY <1>2, <1>3, <1>4, <1>5


-----------------------------------------------------------------------------
(* The resolved merge.                                                     *)

Placed(choice) == {c \in NodeLevel : choice[c].by # "delete"}
Wiring(choice) == UNION {{e \in wiringOf(c, choice[c]) : At(e, c.node)} : c \in NodeLevel}

(* A node is settled by one conflict, with a node of one side or one       *)
(* written by hand.                                                        *)
LEMMA PlacedIs ==
  ASSUME PlainDiffs, Asked, NEW choice \in Choices, NEW c \in Placed(choice)
  PROVE  /\ resolvedNode(c, choice[c]) \in IRNode
         /\ \A d \in NodeLevel : d.node = c.node => d = c
         /\ c.node \in Resettled
<1>1. /\ c \in conflicts /\ c \in NodeLevel /\ c \in Clashes /\ c.path = NoPath
      /\ c.kind \in {"add_add", "edit_delete"} /\ choice[c].by # "delete" /\ choice[c] \in Legal(c)
  BY ResettledIs DEF Placed, NodeLevel, Choices
<1>2. \A d \in NodeLevel : d.node = c.node => d = c
  <2> SUFFICES ASSUME NEW d \in NodeLevel, d.node = c.node PROVE d = c
    OBVIOUS
  <2>1. d \in Clashes /\ d.path = NoPath /\ d.kind \in {"add_add", "edit_delete"}
    BY ResettledIs
  <2>2. \A x \in Clashes : /\ x.kind = "add_add" => ~Has(ancestor, x.node)
                           /\ x.kind = "edit_delete" => Has(ancestor, x.node)
    BY ConflictSays
  <2>3. d.kind = c.kind
    BY <1>1, <2>1, <2>2
  <2> QED BY <1>1, <2>1, <2>3, ConflictIs
<1>3. \A n : /\ Has(source, n) => source.nodes[n] \in IRNode
             /\ Has(target, n) => target.nodes[n] \in IRNode
  BY DocTyped DEF Has, Asked, Documents
<1>4. CASE c.kind = "add_add"
  <2>1. Has(source, c.node) /\ Has(target, c.node)
    BY <1>1, <1>4, ConflictSays
  <2>2. \/ choice[c].by \in {"source", "target"}
        \/ choice[c].by = "custom" /\ choice[c].value \in IRNode
    BY <1>1, <1>4, LegalBy
  <2> QED BY <1>1, <1>2, <1>3, <2>1, <2>2 DEF resolvedNode, Side, Resettled
<1>5. CASE c.kind = "edit_delete"
  <2>1. Has(source, c.node) \/ Has(target, c.node)
    BY <1>1, <1>5, ConflictSays
  <2>2. choice[c].by = "keep"
    BY <1>1, <1>5, LegalBy
  <2>3. EditingSide(c.node).nodes[c.node] \in IRNode
    BY <1>3, <2>1 DEF EditingSide, Has
  <2>4. resolvedNode(c, choice[c]) = EditingSide(c.node).nodes[c.node]
    BY <2>2 DEF resolvedNode
  <2> QED BY <1>1, <1>2, <2>3, <2>4 DEF Resettled
<1> QED BY <1>1, <1>4, <1>5

(* What a resolved merge has: the nodes of the base that are not settled   *)
(* as a whole, with their fields set, those chosen as a whole, and their   *)
(* connections.                                                            *)
LEMMA ResolvedIs ==
  ASSUME PlainDiffs, Asked, NEW choice \in Choices
  PROVE  LET m == applyResolutions(baseMerge, choice)
         IN  /\ \A n : n \notin Resettled =>
                  /\ Has(m, n) <=> Has(baseMerge, n)
                  /\ Has(m, n) => m.nodes[n] = patched(baseMerge.nodes[n], ChangesOf(fieldsOf(choice), n))
             /\ \A n \in Resettled : Has(m, n) <=> \E c \in Placed(choice) : c.node = n
             /\ \A c \in Placed(choice) : m.nodes[c.node] = resolvedNode(c, choice[c])
             /\ \A e : e \in m.edges <=> \/ e \in baseMerge.edges /\ ~AtResettled(e)
                                         \/ e \in Wiring(choice) /\ Has(m, e[1]) /\ Has(m, e[2])
             /\ m.settings = baseMerge.settings
<1> DEFINE placed == Placed(choice)
           fields == fieldsOf(choice)
           at(n) == CHOOSE c \in placed : c.node = n
           nodes == [n \in (DOMAIN baseMerge.nodes \ Resettled) \cup {c.node : c \in placed} |->
                       IF n \in Resettled THEN resolvedNode(at(n), choice[at(n)]) ELSE baseMerge.nodes[n]]
           doc == [nodes |-> nodes,
                   edges |-> {e \in baseMerge.edges : ~\E n \in Resettled : At(e, n)} \cup Closed(Wiring(choice), nodes),
                   settings |-> baseMerge.settings]
           m == applyResolutions(baseMerge, choice)
           there == {c \in conflicts \ NodeLevel : c.node \in DOMAIN nodes}
<1>0. there = FieldConflicts
  <2>1. \A n : n \in DOMAIN nodes <=> (n \in DOMAIN baseMerge.nodes /\ n \notin Resettled) \/ \E c \in placed : c.node = n
    OBVIOUS
  <2>2. \A c \in placed : c.node \in Resettled
    BY PlacedIs
  <2>3. \A n \in Resettled : n \in NodeId /\ ~Everywhere(n)
    BY ResettledIs
  <2>4. \A n : n \notin Resettled /\ n \in DOMAIN baseMerge.nodes => n \in NodeId
    BY BaseIs
  <2> HIDE DEF nodes, placed
  <2>5. \A n \in DOMAIN nodes : n \in NodeId
    BY <2>1, <2>2, <2>3, <2>4
  <2>6. SettingsConflict.node \notin NodeId
    BY DocsAssumption DEF SettingsConflict, Conflict
  <2>7. ASSUME NEW c \in FieldConflicts PROVE c \in conflicts \ NodeLevel /\ c.node \in DOMAIN nodes
    <3>1. c \in conflicts /\ c \notin NodeLevel /\ Everywhere(c.node)
      BY FieldConflictsAre
    <3>2. c.node \in DOMAIN baseMerge.nodes
      BY <3>1, BaseNode
    <3> QED BY <2>1, <2>3, <3>1, <3>2
  <2> QED BY <2>5, <2>6, <2>7 DEF FieldConflicts
<1>1. m = applyDiff(doc, fields)
  <2>1. m = applyDiff(doc, {resolvedField(c, choice[c]) : c \in there})
    BY DEF applyResolutions, Placed, Wiring
  <2> HIDE DEF m, doc, there
  <2> QED BY <1>0, <2>1 DEF fieldsOf
<1>2. /\ Of(fields, "add_node") = {} /\ Of(fields, "remove_node") = {}
      /\ Of(fields, "add_edge") = {} /\ Of(fields, "remove_edge") = {}
      /\ Of(fields, "modify_settings") = {}
  BY FieldsAre DEF EdgeOp
<1>3. /\ m.nodes = [n \in DOMAIN nodes |-> patched(nodes[n], ChangesOf(fields, n))]
      /\ m.edges = doc.edges
      /\ m.settings = doc.settings
  <2> HIDE DEF fields, nodes, m
  <2>1. doc.nodes = nodes
    OBVIOUS
  <2> HIDE DEF doc
  <2>2. /\ m.nodes = [n \in (DOMAIN doc.nodes \cup {}) \ {} |->
                        patched(IF n \in {} THEN (CHOOSE e \in fields : e.operation = "add_node" /\ e.id = n).new
                                ELSE doc.nodes[n], ChangesOf(fields, n))]
        /\ m.edges = ({e \in doc.edges : ~\E n \in {} : At(e, n)} \cup {}) \ {}
        /\ m.settings = doc.settings
    BY <1>1, <1>2 DEF applyDiff, ChangesOf
  <2> QED BY <2>1, <2>2
<1>4. DOMAIN nodes = (DOMAIN baseMerge.nodes \ Resettled) \cup {c.node : c \in placed}
  OBVIOUS
<1>5. \A c \in placed : c.node \in Resettled
  BY PlacedIs
<1>6. ASSUME NEW n, n \notin Resettled
      PROVE  /\ Has(m, n) <=> Has(baseMerge, n)
             /\ Has(m, n) => m.nodes[n] = patched(baseMerge.nodes[n], ChangesOf(fields, n))
  <2>1. n \in DOMAIN nodes <=> n \in DOMAIN baseMerge.nodes
    BY <1>4, <1>5, <1>6
  <2>2. n \in DOMAIN nodes => nodes[n] = baseMerge.nodes[n]
    BY <1>6
  <2> HIDE DEF nodes, m, fields
  <2> QED BY <1>3, <2>1, <2>2 DEF Has
<1>7. \A n \in Resettled : Has(m, n) <=> \E c \in placed : c.node = n
  <2> HIDE DEF nodes, m, fields, placed
  <2> QED BY <1>3, <1>4 DEF Has
<1>8. ASSUME NEW c \in placed PROVE m.nodes[c.node] = resolvedNode(c, choice[c])
  <2>1. /\ resolvedNode(c, choice[c]) \in IRNode /\ c.node \in Resettled
        /\ \A d \in placed : d.node = c.node => d = c
    BY PlacedIs DEF Placed
  <2>2. at(c.node) = c
    BY <2>1
  <2>3. c.node \in DOMAIN nodes /\ nodes[c.node] = resolvedNode(c, choice[c])
    BY <1>4, <2>1, <2>2
  <2>4. ChangesOf(fields, c.node) = {}
    <3>1. \A e \in ChangesOf(fields, c.node) : \E d \in FieldConflicts : d.node = c.node
      BY FieldsAre
    <3>3. \A d \in FieldConflicts : Everywhere(d.node)
      BY FieldConflictsAre
    <3>4. ~Everywhere(c.node)
      BY <2>1, ResettledIs
    <3> QED BY <3>1, <3>3, <3>4
  <2> HIDE DEF nodes, m, fields, placed, at
  <2>5. m.nodes[c.node] = patched(nodes[c.node], ChangesOf(fields, c.node))
    BY <1>3, <2>3
  <2> QED BY <2>1, <2>3, <2>4, <2>5, PatchedWithNothing
<1>9. ASSUME NEW e
      PROVE  e \in m.edges <=> \/ e \in baseMerge.edges /\ ~AtResettled(e)
                               \/ e \in Wiring(choice) /\ Has(m, e[1]) /\ Has(m, e[2])
  <2>1. e \in doc.edges <=> \/ e \in baseMerge.edges /\ ~AtResettled(e)
                            \/ e \in Wiring(choice) /\ e[1] \in DOMAIN nodes /\ e[2] \in DOMAIN nodes
    BY DEF Closed, AtResettled
  <2> HIDE DEF nodes, m, fields, doc
  <2>2. DOMAIN m.nodes = DOMAIN nodes
    BY <1>3
  <2> QED BY <1>3, <2>1, <2>2 DEF Has
<1>10. m.settings = baseMerge.settings
  BY <1>3
<1> HIDE DEF placed, fields, m, nodes, doc, there
<1> QED BY <1>6, <1>7, <1>8, <1>9, <1>10 DEF placed, fields, m


(* Every field that was asked about is what was chosen for it.             *)
LEMMA FieldsAsChosen ==
  ASSUME PlainDiffs, Asked, NEW choice \in Choices, NEW c \in FieldConflicts
  PROVE  FieldAt(applyResolutions(baseMerge, choice).nodes[c.node], c.path) = Said(c, choice[c])
<1> DEFINE m == applyResolutions(baseMerge, choice)
           n == c.node
           entries == ChangesOf(fieldsOf(choice), n)
<1>1. c \in Clashes /\ c.kind = "field" /\ Everywhere(n) /\ n \notin Resettled
  BY FieldConflictsAre, ResettledIs
<1>2. Has(baseMerge, n)
  BY <1>1, BaseNode DEF Has
<1>3. m.nodes[n] = patched(baseMerge.nodes[n], entries)
  BY <1>1, <1>2, ResolvedIs
<1>4. FieldEntries(entries)
  BY FieldsAre
<1>5. PICK e \in entries : e.path = c.path /\ e.new = Said(c, choice[c])
  BY FieldsAre
<1>6. \A f \in entries : \E d \in FieldConflicts : d.node = n /\ d.path = f.path
  BY FieldsAre
<1> HIDE DEF m, entries
<1>7. CASE c.path = NamePath
  <2>1. m.nodes[n].name = e.new
    BY <1>3, <1>4, <1>5, <1>7, NameTo
  <2> QED BY <1>5, <1>7, <2>1, PathsDiffer DEF m, FieldAt
<1>8. ASSUME NEW p \in Param
      PROVE  m.nodes[n].parameters[p] = setNested(ParamOf(baseMerge, n, p), p, entries)
  BY <1>3 DEF patched, ParamOf
<1>9. ASSUME NEW p \in Param, c.path = WholePath(p)
      PROVE  FieldAt(m.nodes[n], c.path) = Said(c, choice[c])
  <2>1. m.nodes[n].parameters[p] = e.new
    BY <1>4, <1>5, <1>8, <1>9, SetNestedTo
  <2>2. Len(c.path) = 2 /\ c.path[2] = p
    BY <1>9, PathsDiffer
  <2> QED BY <1>5, <2>1, <2>2 DEF FieldAt
<1>10. ASSUME NEW p \in Param, NEW k \in Sub, c.path = KeyPath(p, k), AllRecordsAt(n, p)
       PROVE  FieldAt(m.nodes[n], c.path) = Said(c, choice[c])
  <2>1. ParamOf(baseMerge, n, p) \in Record
    BY <1>1, <1>10, BaseRecord
  <2>2. ~HasPath(entries, WholePath(p))
    <3> SUFFICES ASSUME NEW f \in entries, f.path = WholePath(p) PROVE FALSE
      BY DEF HasPath
    <3>1. PICK d \in FieldConflicts : d.node = n /\ d.path = WholePath(p)
      BY <1>6
    <3>2. ~AllRecordsAt(n, p)
      BY <3>1, FieldConflictsAre, PathsDiffer, PathsName
    <3> QED BY <1>10, <3>2
  <2>3. setNested(ParamOf(baseMerge, n, p), p, entries)[k] = e.new
    BY <1>4, <1>5, <1>10, <2>1, <2>2, SetNestedTo
  <2>4. Len(c.path) = 3 /\ c.path[2] = p /\ c.path[3] = k
    BY <1>10, PathsDiffer
  <2> QED BY <1>5, <1>8, <2>3, <2>4 DEF FieldAt
<1> QED BY <1>7, <1>9, <1>10, FieldConflictsAre DEF m

(* What was not asked about is merged.                                     *)
LEMMA RestIsMerged ==
  ASSUME PlainDiffs, Asked, NEW choice \in Choices, NEW n \in NodeId \ Resettled
  PROVE  LET m == applyResolutions(baseMerge, choice)
         IN  /\ Has(m, n) <=> Stays(n)
             /\ Has(m, n) /\ Untouched(n, <<"name">>) => m.nodes[n].name = MergedNode(n).name
             /\ \A p \in Param :
                  Has(m, n) /\ (\A c \in conflicts : c.node = n => ~IsUnder(c.path, p)) =>
                    m.nodes[n].parameters[p] = MergedNode(n).parameters[p]
<1> DEFINE m == applyResolutions(baseMerge, choice)
           entries == ChangesOf(fieldsOf(choice), n)
<1>1. Has(m, n) <=> Stays(n)
  BY ResolvedIs, BaseIs DEF Has
<1>2. Has(m, n) => n \in DOMAIN baseMerge.nodes /\ m.nodes[n] = patched(baseMerge.nodes[n], entries)
  BY ResolvedIs DEF Has
<1>3. FieldEntries(entries)
  BY FieldsAre
<1>4. \A f \in entries : \E d \in FieldConflicts : d.node = n /\ d.path = f.path
  BY FieldsAre
<1>5. n \in DOMAIN baseMerge.nodes /\ ~Everywhere(n) => baseMerge.nodes[n] = MergedNode(n)
  BY BaseIs
<1> HIDE DEF m, entries
<1>6. ASSUME Has(m, n), Untouched(n, <<"name">>) PROVE m.nodes[n].name = MergedNode(n).name
  <2>1. ~HasPath(entries, NamePath) /\ ~Disputed(n, NamePath)
    BY <1>4, <1>6 DEF Untouched, HasPath, Disputed, NamePath, FieldConflicts
  <2>2. m.nodes[n].name = baseMerge.nodes[n].name
    BY <1>2, <1>3, <1>6, <2>1, NameTo
  <2>3. Everywhere(n) => baseMerge.nodes[n].name = MergedNode(n).name
    BY <2>1, BaseName
  <2> QED BY <1>2, <1>5, <1>6, <2>2, <2>3
<1>7. ASSUME NEW p \in Param, Has(m, n), \A c \in conflicts : c.node = n => ~IsUnder(c.path, p)
      PROVE  m.nodes[n].parameters[p] = MergedNode(n).parameters[p]
  <2>1. IsUnder(WholePath(p), p) /\ \A k : IsUnder(KeyPath(p, k), p)
    BY PathsDiffer DEF IsUnder
  <2>2. /\ ~HasPath(entries, WholePath(p)) /\ ~Disputed(n, WholePath(p))
        /\ \A k \in Sub : ~HasPath(entries, KeyPath(p, k)) /\ ~Disputed(n, KeyPath(p, k))
    BY <1>4, <1>7, <2>1 DEF HasPath, Disputed, FieldConflicts
  <2>3. m.nodes[n].parameters[p] = setNested(ParamOf(baseMerge, n, p), p, entries)
    BY <1>2, <1>7 DEF patched, ParamOf
  <2>4. setNested(ParamOf(baseMerge, n, p), p, entries) = ParamOf(baseMerge, n, p)
    BY <1>3, <2>2, SetNestedTo
  <2>5. Everywhere(n) => ParamOf(baseMerge, n, p) = MergedNode(n).parameters[p]
    BY <2>2, BaseParam
  <2> QED BY <1>2, <1>5, <1>7, <2>3, <2>4, <2>5 DEF ParamOf
<1> QED BY <1>1, <1>6, <1>7 DEF m

(* A node settled as a whole is there unless it was to be deleted.         *)
LEMMA NodesAsChosen ==
  ASSUME PlainDiffs, Asked, NEW choice \in Choices, NEW c \in NodeLevel
  PROVE  LET m == applyResolutions(baseMerge, choice)
         IN  /\ Has(m, c.node) <=> choice[c].by # "delete"
             /\ choice[c].by # "delete" => m.nodes[c.node] = resolvedNode(c, choice[c])
<1> DEFINE m == applyResolutions(baseMerge, choice)
<1>1. c.node \in Resettled
  BY DEF Resettled
<1>2. /\ Has(m, c.node) <=> \E d \in Placed(choice) : d.node = c.node
      /\ \A d \in Placed(choice) : m.nodes[d.node] = resolvedNode(d, choice[d])
  BY <1>1, ResolvedIs
<1>3. \A d \in Placed(choice) : d.node = c.node => d = c
  BY PlacedIs
<1>4. c \in Placed(choice) <=> choice[c].by # "delete"
  BY DEF Placed
<1> HIDE DEF m
<1> QED BY <1>2, <1>3, <1>4 DEF m

(* The connections are those the choices bring, and elsewhere the merged   *)
(* ones.                                                                   *)
LEMMA ConnectionsAsChosen ==
  ASSUME PlainDiffs, Asked, ~StrandedEdge, chosen \in Choices
  PROVE  LET m == applyResolutions(baseMerge, chosen)
         IN  m.edges = {e \in Edge :
               /\ Has(m, e[1]) /\ Has(m, e[2])
               /\ IF \E n \in Resettled : At(e, n) THEN \E c \in NodeLevel : Brings(c, e) ELSE e \in MergedEdges}
<1> DEFINE m == applyResolutions(baseMerge, chosen)
<1>1. \A e : e \in m.edges <=> \/ e \in baseMerge.edges /\ ~AtResettled(e)
                               \/ e \in Wiring(chosen) /\ Has(m, e[1]) /\ Has(m, e[2])
  BY ResolvedIs
<1>2. \A e : ~AtResettled(e) => (e \in baseMerge.edges <=> e \in MergedEdges)
  BY BaseIs
<1>3. ASSUME NEW c \in NodeLevel
      PROVE  /\ \A e : e \in wiringOf(c, chosen[c]) /\ At(e, c.node) <=> Brings(c, e)
             /\ \A e \in wiringOf(c, chosen[c]) : e \in Edge
  <2>1. chosen[c].by \in {"source", "target", "custom", "keep", "delete"}
    <3>1. c \in conflicts /\ chosen[c] \in Legal(c) /\ c \in Clashes
      BY DEF NodeLevel, Choices, Asked
    <3> QED BY <3>1, LegalBy, ConflictSays
  <2>2. source.edges \subseteq Edge /\ target.edges \subseteq Edge
    BY DocTyped DEF Asked, Documents
  <2> QED BY <2>1, <2>2 DEF wiringOf, Brings, EditingSide, Side, Has
<1>4. \A e : e \in Wiring(chosen) <=> \E c \in NodeLevel : Brings(c, e)
  BY <1>3 DEF Wiring
<1>5. \A e \in Wiring(chosen) : e \in Edge /\ AtResettled(e)
  BY <1>3 DEF Wiring, AtResettled, Resettled
<1>6. ASSUME NEW e \in MergedEdges, ~AtResettled(e) PROVE e \in Edge /\ Has(m, e[1]) /\ Has(m, e[2])
  <2>1. e \in Edge /\ e[1] \in NodeId /\ e[2] \in NodeId
    BY DEF MergedEdges, Edge
  <2>2. At(e, e[1]) /\ At(e, e[2])
    BY DEF At
  <2>3. e[1] \notin Resettled /\ e[2] \notin Resettled
    BY <1>6, <2>2 DEF AtResettled
  <2>4. Stays(e[1]) /\ Stays(e[2])
    BY <2>1, <2>2 DEF StrandedEdge
  <2> QED BY <2>1, <2>3, <2>4, RestIsMerged
<1> HIDE DEF m
<1>7. \A e : e \in m.edges <=> /\ e \in Edge /\ Has(m, e[1]) /\ Has(m, e[2])
                               /\ IF AtResettled(e) THEN \E c \in NodeLevel : Brings(c, e) ELSE e \in MergedEdges
  BY <1>1, <1>2, <1>4, <1>5, <1>6
<1> QED BY <1>7 DEF m, AtResettled

-----------------------------------------------------------------------------
(* The merge.                                                              *)

(* A merge asks about its collisions and its nodes edited and deleted, or  *)
(* has nothing to ask and is the clean merge of its documents; once what   *)
(* it asked is answered it is the resolved merge.                          *)
IInv ==
  /\ Documents
  /\ conflicts \in {{}, collisions \cup editDeletes}
  /\ merged # None /\ conflicts = {} => collisions \cup editDeletes = {} /\ merged = cleanMerge
  /\ merged # None /\ conflicts # {} => chosen \in Choices /\ merged = applyResolutions(baseMerge, chosen)

(* Documents do not change while they are merged.                          *)
LEMMA SameDocuments ==
  ASSUME UNCHANGED <<ancestor, source, target>>
  PROVE  /\ Documents' <=> Documents
         /\ collisions' = collisions /\ editDeletes' = editDeletes /\ cleanMerge' = cleanMerge
  BY DEF Documents, collisions, editDeletes, cleanMerge, sourceDiff, targetDiff

(* Nor does what is asked, once it is asked: only what is chosen.          *)
LEMMA SameQuestions ==
  ASSUME UNCHANGED <<ancestor, source, target, conflicts>>
  PROVE  /\ Choices' = Choices
         /\ applyResolutions(baseMerge, chosen)' = applyResolutions(baseMerge, chosen')
<1>1. sourceDiff' = sourceDiff /\ targetDiff' = targetDiff
  BY DEF sourceDiff, targetDiff
<1>2. NodeLevel' = NodeLevel /\ Resettled' = Resettled
  BY DEF NodeLevel, Resettled
<1>3. \A e : excluded(e)' <=> excluded(e)
  BY <1>2 DEF excluded
<1>4. baseMerge' = baseMerge
  BY <1>1, <1>3 DEF baseMerge
<1>5. \A c, r : /\ resolvedField(c, r)' = resolvedField(c, r) /\ resolvedNode(c, r)' = resolvedNode(c, r)
               /\ wiringOf(c, r)' = wiringOf(c, r)
  BY <1>1 DEF resolvedField, resolvedNode, wiringOf, EditingSide, Side
<1>6. applyResolutions(baseMerge, chosen)' = applyResolutions(baseMerge, chosen')
  <2>1. \A base, choice : applyResolutions(base, choice)' = applyResolutions(base, choice)
    <3> TAKE base, choice
    <3>1. Placed(choice)' = Placed(choice)
      BY <1>2 DEF Placed
    <3>2. Wiring(choice)' = Wiring(choice)
      BY <1>2, <1>5 DEF Wiring
    <3> DEFINE at(n) == CHOOSE c \in Placed(choice) : c.node = n
               nodes == [n \in (DOMAIN base.nodes \ Resettled) \cup {c.node : c \in Placed(choice)} |->
                           IF n \in Resettled THEN resolvedNode(at(n), choice[at(n)]) ELSE base.nodes[n]]
               fields == {resolvedField(c, choice[c]) : c \in {c \in conflicts \ NodeLevel : c.node \in DOMAIN nodes}}
    <3>3. nodes' = nodes
      BY <3>1, <1>2, <1>5
    <3> HIDE DEF nodes
    <3>4. fields' = fields
      BY <3>3, <1>2, <1>5
    <3>5. applyResolutions(base, choice) =
            applyDiff([nodes |-> nodes,
                       edges |-> {e \in base.edges : ~\E n \in Resettled : At(e, n)}
                                   \cup Closed(Wiring(choice), nodes),
                       settings |-> base.settings],
                      fields)
      BY DEF applyResolutions, Placed, Wiring, nodes
    <3>6. applyResolutions(base, choice)' =
            applyDiff([nodes |-> nodes',
                       edges |-> {e \in base.edges : ~\E n \in Resettled' : At(e, n)}
                                   \cup Closed(Wiring(choice)', nodes'),
                       settings |-> base.settings],
                      fields')
      BY DEF applyResolutions, Placed, Wiring, nodes
    <3> HIDE DEF fields
    <3> QED BY <3>2, <3>3, <3>4, <3>5, <3>6, <1>2
  <2>2. applyResolutions(baseMerge, chosen)' = applyResolutions(baseMerge', chosen')
    BY <2>1
  <2> QED BY <1>4, <2>2
<1>7. Choices' = Choices
  BY DEF Choices
<1> QED BY <1>6, <1>7

LEMMA InitInvariant == Init => IInv
  BY DocsAssumption DEF Init, IInv, Documents

LEMMA StepInvariant == IInv /\ [Next]_vars => IInv'
<1> SUFFICES ASSUME IInv, [Next]_vars PROVE IInv'
  OBVIOUS
<1>0. UNCHANGED <<ancestor, source, target>>
  BY DEF Next, vars, threeWayMerge, resolve
<1>1. /\ Documents' <=> Documents
      /\ collisions' = collisions /\ editDeletes' = editDeletes /\ cleanMerge' = cleanMerge
  BY <1>0, SameDocuments
<1>2. conflicts' = conflicts =>
        /\ Choices' = Choices
        /\ applyResolutions(baseMerge, chosen)' = applyResolutions(baseMerge, chosen')
  BY <1>0, SameQuestions
<1>3. CASE threeWayMerge
  <2>1. conflicts' = collisions \cup editDeletes /\ merged' = IF conflicts' = {} THEN cleanMerge ELSE None
    BY <1>3 DEF threeWayMerge
  <2> QED BY <1>1, <2>1 DEF IInv
<1>4. ASSUME NEW choice \in Choices, resolve(choice) PROVE IInv'
  <2>1. /\ conflicts # {} /\ conflicts' = conflicts /\ chosen' = choice
        /\ merged' = applyResolutions(baseMerge, choice)
    BY <1>4 DEF resolve
  <2>2. chosen' \in Choices' /\ merged' = applyResolutions(baseMerge, chosen)'
    BY <1>2, <2>1
  <2> QED BY <1>1, <2>1, <2>2 DEF IInv
<1>5. CASE UNCHANGED vars
  <2>1. /\ conflicts' = conflicts /\ merged' = merged /\ chosen' = chosen
    BY <1>5 DEF vars
  <2>2. chosen \in Choices /\ merged = applyResolutions(baseMerge, chosen) =>
          chosen' \in Choices' /\ merged' = applyResolutions(baseMerge, chosen)'
    BY <1>2, <2>1
  <2> QED BY <1>1, <2>1, <2>2 DEF IInv
<1> QED BY <1>3, <1>4, <1>5 DEF Next

(* Every state of a merge: the documents are documents, what is asked is   *)
(* what collides or was edited and deleted, and a merge that asks nothing  *)
(* is the clean merge (threeWayMerge); one that was asked and answered is  *)
(* the resolved merge of the answers (applyResolutions).                   *)
THEOREM Invariance == Spec => []IInv
  BY InitInvariant, StepInvariant, PTL DEF Spec

(* A merge asks about the fields both sides changed differently, the nodes *)
(* both added and those one side changed and the other removed, and about  *)
(* nothing else; and with nothing to ask it has every change of either     *)
(* side and no other, settings included, for all documents that neither    *)
(* side changed above and below one path, or at a key with a dot           *)
(* (threeWayMerge).                                                        *)
THEOREM MergeThreeWay == Spec => []MergeIsThreeWay
<1>1. IInv => MergeIsThreeWay
  <2> SUFFICES ASSUME IInv, ~OverlappingPaths, ~DottedChange
               PROVE  /\ conflicts # {} => conflicts = Clashes
                      /\ merged # None /\ conflicts = {} =>
                           /\ Clashes = {}
                           /\ merged.nodes = [n \in {n \in NodeId : Stays(n)} |-> MergedNode(n)]
                           /\ ~StrandedEdge => merged.edges = MergedEdges
                           /\ merged.settings = Pick(ancestor.settings, source.settings, target.settings)
    BY DEF MergeIsThreeWay
  <2>0. PlainDiffs
    BY DiffsArePlain
  <2>1. Documents /\ collisions \cup editDeletes = Clashes
    BY <2>0, ConflictsAreClashes DEF IInv
  <2>2. conflicts # {} => conflicts = Clashes
    BY <2>1 DEF IInv
  <2>3. ASSUME merged # None, conflicts = {}
        PROVE  /\ Clashes = {}
               /\ merged.nodes = [n \in {n \in NodeId : Stays(n)} |-> MergedNode(n)]
               /\ ~StrandedEdge => merged.edges = MergedEdges
               /\ merged.settings = Pick(ancestor.settings, source.settings, target.settings)
    <3>1. Clashes = {} /\ merged = cleanMerge
      BY <2>1, <2>3 DEF IInv
    <3>2. cleanMerge.nodes = [n \in {n \in NodeId : Stays(n)} |-> MergedNode(n)]
      BY <2>0, <2>1, <3>1, MergedNodes
    <3>3. ~StrandedEdge => cleanMerge.edges = MergedEdges
      BY <2>0, <2>1, MergedConnections
    <3>4. cleanMerge.settings = Pick(ancestor.settings, source.settings, target.settings)
      BY <2>0, <2>1, <3>1, MergedSettings
    <3> QED BY <3>1, <3>2, <3>3, <3>4
  <2> QED BY <2>2, <2>3
<1> QED BY <1>1, Invariance, PTL

(* A resolved merge is what was chosen where there was a conflict and the  *)
(* three-way merge elsewhere, for all documents that neither side changed  *)
(* above and below one path, or at a key with a dot, and every answer that *)
(* can be given, but for a choice about the settings, which is applied to  *)
(* nothing: a field from one side leaves the rest of its node merged, a   *)
(* node from one side comes with that side's connections and no other, and *)
(* no connection is left without its end (applyResolutions).               *)
THEOREM ResolvedMerge == Spec => []ResolvedAsChosen
<1>1. IInv => ResolvedAsChosen
  <2> SUFFICES ASSUME IInv, merged # None, conflicts # {}, ~OverlappingPaths, ~DottedChange PROVE ResolvedAsChosen
    BY DEF ResolvedAsChosen
  <2>0. PlainDiffs
    BY DiffsArePlain
  <2>1. /\ Asked /\ chosen \in Choices /\ merged = applyResolutions(baseMerge, chosen)
    BY <2>0, ConflictsAreClashes DEF IInv, Asked
  <2>2. ASSUME NEW c \in FieldConflicts PROVE FieldAt(merged.nodes[c.node], c.path) = Chosen(c)
    <3>1. FieldAt(merged.nodes[c.node], c.path) = Said(c, chosen[c])
      BY <2>0, <2>1, FieldsAsChosen
    <3>2. c \in conflicts /\ c.kind = "field" /\ chosen[c] \in Legal(c)
      BY <2>0, <2>1, FieldConflictsAre DEF Choices
    <3>3. chosen[c].by \in {"source", "target", "custom"}
      BY <2>0, <2>1, <3>2, LegalBy
    <3> QED BY <3>1, <3>3 DEF Said, Chosen
  <2>3. ASSUME NEW n \in NodeId \ Resettled
        PROVE  /\ Has(merged, n) <=> Stays(n)
               /\ Has(merged, n) /\ Untouched(n, <<"name">>) => merged.nodes[n].name = MergedNode(n).name
               /\ \A p \in Param :
                    Has(merged, n) /\ (\A c \in conflicts : c.node = n => ~IsUnder(c.path, p)) =>
                      merged.nodes[n].parameters[p] = MergedNode(n).parameters[p]
    BY <2>0, <2>1, RestIsMerged
  <2>4. ASSUME NEW c \in NodeLevel
        PROVE  /\ Has(merged, c.node) <=> chosen[c].by # "delete"
               /\ chosen[c].by \in {"source", "target"} =>
                    merged.nodes[c.node] = Side(chosen[c].by).nodes[c.node]
               /\ chosen[c].by = "keep" => merged.nodes[c.node] = EditingSide(c.node).nodes[c.node]
    <3>1. /\ Has(merged, c.node) <=> chosen[c].by # "delete"
          /\ chosen[c].by # "delete" => merged.nodes[c.node] = resolvedNode(c, chosen[c])
      BY <2>0, <2>1, NodesAsChosen
    <3> QED BY <3>1 DEF resolvedNode
  <2>5. ~StrandedEdge =>
          merged.edges = {e \in Edge :
            /\ Has(merged, e[1]) /\ Has(merged, e[2])
            /\ IF \E n \in Resettled : At(e, n) THEN \E c \in NodeLevel : Brings(c, e) ELSE e \in MergedEdges}
    BY <2>0, <2>1, ConnectionsAsChosen
  <2>6. SettingsConflict \notin conflicts =>
          merged.settings = Pick(ancestor.settings, source.settings, target.settings)
    BY <2>0, <2>1, ResolvedIs, BaseSettings
  <2> QED BY <2>2, <2>3, <2>4, <2>5, <2>6 DEF ResolvedAsChosen, FieldConflicts
<1> QED BY <1>1, Invariance, PTL
=============================================================================

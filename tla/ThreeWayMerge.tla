---------------------------- MODULE ThreeWayMerge ----------------------------
(* The structural diff of two workflow documents and the three-way merge   *)
(* built on it (ir/diff.ts, ir/merge.ts), with the resolutions an operator *)
(* gives for its conflicts.  A document has nodes, each with a name and    *)
(* parameters, edges between them, in lanes, and settings.  The name       *)
(* stands for every field compared as a whole, the settings for any one of *)
(* them; a parameter is a scalar or a record one level deep, which is      *)
(* enough for paths that lie above one another.  A path is the sequence    *)
(* that splitting it at its dots gives, so a parameter whose own key has a *)
(* dot is written to where the key splits to; such a parameter is a leaf,  *)
(* and the keys of records have no dots here.  None is null and what is    *)
(* missing, which the diff does not tell apart.                            *)
EXTENDS Naturals, Sequences

CONSTANTS
  NodeId, Name, Lane,
  Param,        \* the parameters of a node
  Sub,          \* the keys of a record
  SplitAt,      \* what split('.') makes of the parameters whose key has a dot
  Settings,     \* what entries about the settings are about, in a node's place
  Scalar,
  None,
  Docs,         \* the documents that are merged
  Authored      \* what operators write themselves, for a field or a node

Leaf == Scalar \cup {None}
Record == [Sub -> Leaf]
Value == Leaf \cup Record
Dotted == DOMAIN SplitAt
IRNode == [name : Name, parameters : {f \in [Param -> Value] : \A q \in Dotted : f[q] \in Leaf}]

(* Edge identity is the endpoint tuple with its lane, never the edge's id. *)
Edge == {e \in NodeId \X NodeId \X Lane : e[1] # e[2]}
At(e, n) == e[1] = n \/ e[2] = n
Closed(edges, nodes) == {e \in edges : e[1] \in DOMAIN nodes /\ e[2] \in DOMAIN nodes}

WorkflowIR ==
  UNION {[nodes : [ids -> IRNode], edges : SUBSET {e \in Edge : {e[1], e[2]} \subseteq ids}, settings : Leaf] :
           ids \in SUBSET NodeId}

ASSUME DocsAssumption ==
  /\ Docs \subseteq WorkflowIR
  /\ None \notin Scalar \cup Name
  /\ Scalar \cap Record = {}
  /\ Dotted \subseteq Param /\ SplitAt \in [Dotted -> (Param \ Dotted) \X Sub]
  /\ \A q, r \in Dotted : SplitAt[q] = SplitAt[r] => q = r
  /\ Settings \notin NodeId

VARIABLES ancestor, source, target, conflicts, chosen, merged

vars == <<ancestor, source, target, conflicts, chosen, merged>>

-----------------------------------------------------------------------------
(* The diff.  An entry has an operation, the node or edge it is about, a   *)
(* path (empty for the whole) and the new value.                           *)
Ent(op, id, path, new) == [operation |-> op, id |-> id, path |-> path, new |-> new]

(* diffDicts: records are compared key by key, anything else as a whole.   *)
(* A dotted key sorts after what it splits to: of two entries of one path  *)
(* its own is the later, the one that is matched and that is left written. *)
diffDicts(n, old, new) ==
  LET dotted == {Ent("modify_node", n, <<"parameters">> \o SplitAt[q], new[q]) : q \in {q \in Dotted : old[q] # new[q]}}
      plain == UNION {IF old[p] = new[p] THEN {}
                      ELSE IF old[p] \in Record /\ new[p] \in Record
                      THEN {Ent("modify_node", n, <<"parameters", p, k>>, new[p][k]) :
                              k \in {k \in Sub : old[p][k] # new[p][k]}}
                      ELSE {Ent("modify_node", n, <<"parameters", p>>, new[p])} : p \in Param \ Dotted}
  IN  dotted \cup {e \in plain : ~\E f \in dotted : f.path = e.path}

Kept(old, new) == DOMAIN old.nodes \cap DOMAIN new.nodes

computeDiff(old, new) ==
  {Ent("add_node", n, <<>>, new.nodes[n]) : n \in DOMAIN new.nodes \ DOMAIN old.nodes}
  \cup {Ent("remove_node", n, <<>>, None) : n \in DOMAIN old.nodes \ DOMAIN new.nodes}
  \cup {Ent("rename_node", n, <<"name">>, new.nodes[n].name) :
          n \in {n \in Kept(old, new) : old.nodes[n].name # new.nodes[n].name}}
  \cup (UNION {diffDicts(n, old.nodes[n].parameters, new.nodes[n].parameters) : n \in Kept(old, new)})
  \cup {Ent("add_edge", e, <<>>, None) : e \in new.edges \ old.edges}
  \cup {Ent("remove_edge", e, <<>>, None) : e \in old.edges \ new.edges}
  \cup {Ent("modify_settings", Settings, <<"settings">>, v) : v \in {new.settings} \ {old.settings}}

(* setNested makes a record where nothing is, and gives up at a scalar; an *)
(* entry for the whole comes before those below it.                        *)
setNested(old, p, entries) ==
  LET whole == {e \in entries : e.path = <<"parameters", p>>}
      under == {e \in entries : Len(e.path) = 3 /\ e.path[2] = p}
      given == IF whole = {} THEN old ELSE (CHOOSE e \in whole : TRUE).new
      record == IF given \in Record THEN given ELSE [k \in Sub |-> None]
  IN  IF under = {} \/ given \in Scalar THEN given
      ELSE [k \in Sub |-> IF \E e \in under : e.path[3] = k
                          THEN (CHOOSE e \in under : e.path[3] = k).new ELSE record[k]]

patched(node, entries) ==
  LET renames == {e \in entries : e.path = <<"name">>}
  IN  [name |-> IF renames = {} THEN node.name ELSE (CHOOSE e \in renames : TRUE).new,
       parameters |-> [p \in Param |-> setNested(node.parameters[p], p, entries)]]

Of(entries, op) == {e.id : e \in {f \in entries : f.operation = op}}

(* applyDiff: node entries first, a removal taking the node's edges along; *)
(* then edges are added, whatever they join, and removed.                  *)
applyDiff(base, entries) ==
  LET added == Of(entries, "add_node")
      removed == Of(entries, "remove_node")
      ids == (DOMAIN base.nodes \cup added) \ removed
      new(n) == (CHOOSE e \in entries : e.operation = "add_node" /\ e.id = n).new
      changes(n) == {e \in entries : e.operation \in {"rename_node", "modify_node"} /\ e.id = n}
  IN  [nodes |-> [n \in ids |-> patched(IF n \in added THEN new(n) ELSE base.nodes[n], changes(n))],
       edges |-> ({e \in base.edges : ~\E n \in removed : At(e, n)} \cup Of(entries, "add_edge"))
                   \ Of(entries, "remove_edge"),
       settings |-> IF Of(entries, "modify_settings") = {} THEN base.settings
                    ELSE (CHOOSE e \in entries : e.operation = "modify_settings").new]

-----------------------------------------------------------------------------
(* The merge.                                                              *)
EdgeOp == {"add_edge", "remove_edge"}

keyOf(e) == IF e.operation \in EdgeOp THEN <<e.id, <<"edge">>>> ELSE <<e.id, e.path>>

sourceDiff == computeDiff(ancestor, source)
targetDiff == computeDiff(ancestor, target)
NonOverlapping(diff, other) == {e \in diff : ~\E f \in other : keyOf(f) = keyOf(e)}

\* Both sides changed the same field, or added the same node, differently.
Collide(e, f) ==
  /\ keyOf(e) = keyOf(f)
  /\ e.operation \notin EdgeOp
  /\ e.new # f.new \/ e.operation # f.operation

nodeIdsModified(diff) == Of(diff, "modify_node") \cup Of(diff, "rename_node")

Conflict(kind, n, path) == [kind |-> kind, node |-> n, path |-> path]

collisions ==
  {Conflict(IF e.operation = "add_node" THEN "add_add" ELSE "field", e.id, e.path) :
     e \in {e \in sourceDiff : \E f \in targetDiff : Collide(e, f)}}

\* Mutant: a node deleted by the source is asked about, one deleted by the target is not.
sourceDeletes ==
  {Conflict("edit_delete", n, <<>>) : n \in Of(sourceDiff, "remove_node") \cap nodeIdsModified(targetDiff)}

editDeletes ==
  {Conflict("edit_delete", n, <<>>) :
     n \in (Of(sourceDiff, "remove_node") \cap nodeIdsModified(targetDiff))
             \cup (Of(targetDiff, "remove_node") \cap nodeIdsModified(sourceDiff))}

cleanMerge == applyDiff(applyDiff(ancestor, targetDiff), NonOverlapping(sourceDiff, targetDiff))

threeWayMerge ==
  /\ merged = None /\ conflicts = {}
  /\ conflicts' = collisions \cup editDeletes
  /\ merged' = IF conflicts' = {} THEN cleanMerge ELSE None
  /\ UNCHANGED <<ancestor, source, target, chosen>>

-----------------------------------------------------------------------------
(* Resolutions.                                                            *)
NodeLevel == {c \in conflicts : c.path = <<>>}
Resettled == {c.node : c \in NodeLevel}

Side(which) == IF which = "source" THEN source ELSE target
EditingSide(n) == IF n \in DOMAIN source.nodes THEN source ELSE target

\* The choices assertLegalChoice lets through, and what is written by hand.
Legal(c) ==
  CASE c.kind = "edit_delete" -> {[by |-> "keep"], [by |-> "delete"]}
    [] c.kind = "add_add" -> {[by |-> "source"], [by |-> "target"]}
                               \cup {[by |-> "custom", value |-> v] : v \in Authored \cap IRNode}
    [] c.kind = "field" -> {[by |-> "source"], [by |-> "target"]}
                             \cup {[by |-> "custom", value |-> v] : v \in Authored \cap Scalar}

entryTouchesNode(e, ids) ==
  IF e.operation \in EdgeOp THEN \E n \in ids : At(e.id, n) ELSE e.id \in ids

excluded(e) ==
  \/ entryTouchesNode(e, Resettled)
  \/ \E c \in conflicts : c.kind = "field" /\ keyOf(e) = <<c.node, c.path>>

baseMerge ==
  applyDiff(applyDiff(ancestor, {e \in targetDiff : ~excluded(e)}),
            {e \in NonOverlapping(sourceDiff, targetDiff) : ~excluded(e)})

\* Mutant: a chosen node comes with the connections of both sides.
wiringOfBoth(c, r) == IF r.by = "delete" THEN {} ELSE source.edges \cup target.edges

(* wiringOf: the chosen side's edges, or those of both for a node written  *)
(* by hand.                                                                *)
wiringOf(c, r) ==
  CASE r.by = "delete" -> {}
    [] r.by = "keep" -> EditingSide(c.node).edges
    [] r.by = "custom" -> source.edges \cup target.edges
    [] r.by \in {"source", "target"} -> Side(r.by).edges

resolvedNode(c, r) ==
  CASE r.by = "keep" -> EditingSide(c.node).nodes[c.node]
    [] r.by = "custom" -> r.value
    [] r.by \in {"source", "target"} -> Side(r.by).nodes[c.node]

\* The entry that makes a field what was chosen for it.
resolvedField(c, r) ==
  LET e == CHOOSE e \in sourceDiff : keyOf(e) = <<c.node, c.path>>
      f == CHOOSE f \in targetDiff : keyOf(f) = <<c.node, c.path>>
  IN  CASE r.by = "source" -> e
        [] r.by = "target" -> f
        [] r.by = "custom" -> [e EXCEPT !.new = r.value]

(* applyResolutions: every resolved node is put in place, then the wiring  *)
(* of each whose other end is there, then the fields are set of the nodes  *)
(* that are there, which the settings never are.                           *)
applyResolutions(base, choice) ==
  LET placed == {c \in NodeLevel : choice[c].by # "delete"}
      nodeAt(n) == LET c == CHOOSE c \in placed : c.node = n IN resolvedNode(c, choice[c])
      nodes == [n \in (DOMAIN base.nodes \ Resettled) \cup {c.node : c \in placed} |->
                  IF n \in Resettled THEN nodeAt(n) ELSE base.nodes[n]]
      wiring == UNION {{e \in wiringOf(c, choice[c]) : At(e, c.node)} : c \in NodeLevel}
      fields == {resolvedField(c, choice[c]) : c \in {c \in conflicts \ NodeLevel : c.node \in DOMAIN nodes}}
  IN  applyDiff([nodes |-> nodes,
                 edges |-> {e \in base.edges : ~\E n \in Resettled : At(e, n)} \cup Closed(wiring, nodes),
                 settings |-> base.settings],
                fields)

resolve(choice) ==
  /\ conflicts # {} /\ merged = None
  /\ chosen' = choice
  /\ merged' = applyResolutions(baseMerge, choice)
  /\ UNCHANGED <<ancestor, source, target, conflicts>>

Choices == {f \in [conflicts -> UNION {Legal(c) : c \in conflicts}] : \A c \in conflicts : f[c] \in Legal(c)}

Init ==
  /\ ancestor \in Docs /\ source \in Docs /\ target \in Docs
  /\ conflicts = {} /\ chosen = None /\ merged = None

Next == threeWayMerge \/ \E choice \in Choices : resolve(choice)

Spec == Init /\ [][Next]_vars

-----------------------------------------------------------------------------
(* What a merge should be, said without a diff: leaf by leaf, what one     *)
(* side changed, and what neither or both did.                             *)
Has(d, n) == n \in DOMAIN d.nodes
Changed(d, n) == Has(ancestor, n) /\ Has(d, n) /\ d.nodes[n] # ancestor.nodes[n]

Pick(a, s, t) == IF s = a THEN t ELSE s
Clash(a, s, t) == s # a /\ t # a /\ s # t

AllRecords(a, s, t) == {a, s, t} \subseteq Record

PickValue(a, s, t) ==
  IF AllRecords(a, s, t) THEN [k \in Sub |-> Pick(a[k], s[k], t[k])] ELSE Pick(a, s, t)

PickNode(a, s, t) ==
  [name |-> Pick(a.name, s.name, t.name),
   parameters |-> [p \in Param |-> PickValue(a.parameters[p], s.parameters[p], t.parameters[p])]]

ClashValue(n, p, a, s, t) ==
  IF AllRecords(a, s, t)
  THEN {Conflict("field", n, <<"parameters", p, k>>) : k \in {k \in Sub : Clash(a[k], s[k], t[k])}}
  ELSE IF Clash(a, s, t) THEN {Conflict("field", n, <<"parameters", p>>)} ELSE {}

Everywhere(n) == Has(ancestor, n) /\ Has(source, n) /\ Has(target, n)

SettingsConflict == Conflict("field", Settings, <<"settings">>)

Clashes ==
  {Conflict("field", n, <<"name">>) :
     n \in {n \in NodeId : Everywhere(n) /\ Clash(ancestor.nodes[n].name, source.nodes[n].name, target.nodes[n].name)}}
  \cup (UNION {ClashValue(n, p, ancestor.nodes[n].parameters[p], source.nodes[n].parameters[p],
                          target.nodes[n].parameters[p]) :
                 n \in {n \in NodeId : Everywhere(n)}, p \in Param})
  \cup {Conflict("add_add", n, <<>>) :
          n \in {n \in NodeId : /\ ~Has(ancestor, n) /\ Has(source, n) /\ Has(target, n)
                                /\ source.nodes[n] # target.nodes[n]}}
  \cup {Conflict("edit_delete", n, <<>>) :
          n \in {n \in NodeId : \/ Changed(source, n) /\ ~Has(target, n)
                                \/ Changed(target, n) /\ ~Has(source, n)}}
  \cup {c \in {SettingsConflict} : Clash(ancestor.settings, source.settings, target.settings)}

MergedNode(n) ==
  IF Everywhere(n) THEN PickNode(ancestor.nodes[n], source.nodes[n], target.nodes[n])
  ELSE IF Has(source, n) THEN source.nodes[n] ELSE target.nodes[n]

MergedEdges ==
  {e \in Edge : Pick(e \in ancestor.edges, e \in source.edges, e \in target.edges)}

Stays(n) == Pick(Has(ancestor, n), Has(source, n), Has(target, n))

(* What the merge is known not to see.  A value changed as a whole on one  *)
(* side and below it on the other is no conflict, and one change is lost.  *)
OverlappingPaths ==
  \E e \in sourceDiff, f \in targetDiff :
    /\ e.id = f.id /\ e.operation = "modify_node" /\ f.operation = "modify_node"
    /\ e.path # f.path /\ e.path[2] = f.path[2] /\ Len(e.path) # Len(f.path)

(* A parameter whose key has a dot is changed where the key splits to, and *)
(* stays as it was itself.                                                 *)
DottedChange ==
  \E d \in {source, target} : \E n \in Kept(ancestor, d), q \in Dotted :
    d.nodes[n].parameters[q] # ancestor.nodes[n].parameters[q]

(* An edge one side added to a node the other removed is left without its  *)
(* end if the source added it, and goes with the node if the target did.   *)
StrandedEdge ==
  \E e \in MergedEdges : \E n \in NodeId : At(e, n) /\ ~Stays(n)

-----------------------------------------------------------------------------
(* Properties.                                                             *)

(* A merge asks about the fields that both sides changed differently, the  *)
(* nodes both added and those one side changed and the other removed, and  *)
(* about nothing else; with nothing to ask it has every change of either   *)
(* side and no other (threeWayMerge; conflicts.md: a conflict happens only *)
(* when both sides changed the same field).                                *)
MergeIsThreeWay ==
  ~OverlappingPaths /\ ~DottedChange =>
    /\ conflicts # {} => conflicts = Clashes
    /\ merged # None /\ conflicts = {} =>
         /\ Clashes = {}
         /\ merged.nodes = [n \in {n \in NodeId : Stays(n)} |-> MergedNode(n)]
         /\ ~StrandedEdge => merged.edges = MergedEdges
         /\ merged.settings = Pick(ancestor.settings, source.settings, target.settings)

FieldAt(node, path) ==
  IF Len(path) = 1 THEN node.name
  ELSE IF Len(path) = 2 THEN node.parameters[path[2]] ELSE node.parameters[path[2]][path[3]]

Chosen(c) ==
  CASE chosen[c].by = "custom" -> chosen[c].value
    [] chosen[c].by = "source" -> FieldAt(source.nodes[c.node], c.path)
    [] chosen[c].by = "target" -> FieldAt(target.nodes[c.node], c.path)

IsUnder(path, p) == Len(path) > 1 /\ path[2] = p
Untouched(n, path) == ~\E c \in conflicts : c.node = n /\ c.path = path

\* The edge is one of those the choice made for a node brings.
Brings(c, e) ==
  /\ At(e, c.node)
  /\ e \in CASE chosen[c].by = "custom" -> source.edges \cup target.edges
             [] chosen[c].by = "keep" -> IF Has(source, c.node) THEN source.edges ELSE target.edges
             [] chosen[c].by = "delete" -> {}
             [] chosen[c].by \in {"source", "target"} -> Side(chosen[c].by).edges

(* A resolved merge is what was chosen where there was a conflict and the  *)
(* three-way merge elsewhere: a field from one side leaves the rest of its *)
(* node merged, a node from one side comes with that side's connections    *)
(* and no other, and no connection is left without its end                 *)
(* (applyResolutions; conflicts.md: pick one side's step entire, with that *)
(* side's connections).  A choice about the settings is applied to nothing *)
(* and is not spoken of here.                                              *)
ResolvedAsChosen ==
  merged # None /\ conflicts # {} /\ ~OverlappingPaths /\ ~DottedChange =>
    /\ \A c \in conflicts \ (NodeLevel \cup {SettingsConflict}) :
         FieldAt(merged.nodes[c.node], c.path) = Chosen(c)
    /\ \A n \in NodeId \ Resettled :
         /\ Has(merged, n) <=> Stays(n)
         /\ Has(merged, n) /\ Untouched(n, <<"name">>) => merged.nodes[n].name = MergedNode(n).name
         /\ \A p \in Param :
              Has(merged, n) /\ (\A c \in conflicts : c.node = n => ~IsUnder(c.path, p))
                => merged.nodes[n].parameters[p] = MergedNode(n).parameters[p]
    /\ \A c \in NodeLevel :
         /\ Has(merged, c.node) <=> chosen[c].by # "delete"
         /\ chosen[c].by \in {"source", "target"} => merged.nodes[c.node] = Side(chosen[c].by).nodes[c.node]
         /\ chosen[c].by = "keep" => merged.nodes[c.node] = EditingSide(c.node).nodes[c.node]
    /\ ~StrandedEdge =>
         merged.edges = {e \in Edge :
           /\ Has(merged, e[1]) /\ Has(merged, e[2])
           /\ IF \E n \in Resettled : At(e, n)
              THEN \E c \in NodeLevel : Brings(c, e)
              ELSE e \in MergedEdges}
    /\ SettingsConflict \notin conflicts =>
         merged.settings = Pick(ancestor.settings, source.settings, target.settings)
=============================================================================

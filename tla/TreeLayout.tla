----------------------------- MODULE TreeLayout -----------------------------
(***************************************************************************)
(* The session tree that format tree draws: format/tree.ts, flat-tree.ts,  *)
(* tree-layout.ts and filter.ts, as functions of the entries in the order  *)
(* of the file and of the current leaf.  The layout that flattenAll makes  *)
(* before the filter is made again after it (recalculateVisibleStructure), *)
(* so only its order is kept.                                              *)
(***************************************************************************)
EXTENDS MessageFormatter, FiniteSets

Ids(entries) == {entries[i].id : i \in 1 .. Len(entries)}
EntryOf(entries, id) == entries[CHOOSE i \in 1 .. Len(entries) : entries[i].id = id]
DuplicateId(entries) == Cardinality(Ids(entries)) < Len(entries)

-----------------------------------------------------------------------------
(* filter.ts.                                                               *)

HasText(m) == \E i \in BlocksOf(m, "text") : m.blocks[i].text \notin {"empty", "blank"}

\* Only tool calls to show, and it ended well; stop is what pi gives as the
\* reason, of which "length" is a failure here and not to the formatter.
ToolOnlySuppressed(entry, leaf) ==
  /\ entry.type = "message" /\ entry.message.role = "assistant"
  /\ entry.id # leaf
  /\ BlocksOf(entry.message, "toolCall") # {} /\ ~HasText(entry.message)
  /\ entry.message.stop \in {"stop", "toolUse"}

IsSettings(entry) ==
  entry.type \in {"label", "context_edit", "custom", "model_change",
                  "thinking_level_change", "session_info"}

InConversation(entry, leaf) ==
  \/ entry.type = "compaction"
  \/ /\ entry.type = "message"
     /\ \/ entry.message.role = "user"
        \/ /\ entry.message.role = "assistant"
           /\ \/ HasText(entry.message) \/ Failed(entry.message)
              \/ entry.id = leaf

PassesFilter(entry, label, leaf, filter) ==
  /\ entry.type # "usage"
  /\ filter # "conversation" => ~ToolOnlySuppressed(entry, leaf)
  /\ CASE filter = "conversation"    -> InConversation(entry, leaf)
       [] filter = "pi-user-only"    -> /\ entry.type = "message"
                                        /\ entry.message.role = "user"
       [] filter = "pi-no-tools"     -> /\ ~IsSettings(entry)
                                        /\ entry.type = "message"
                                             => entry.message.role # "toolResult"
       [] filter = "pi-labeled-only" -> label # None
       [] filter = "pi-default"      -> ~IsSettings(entry)
       [] filter = "pi-all"          -> TRUE

\* resolveLabels: the last label entry of a target counts, one without a label
\* clears it.
LabelOf(entries, id) ==
  LET labels == {i \in 1 .. Len(entries) :
                   entries[i].type = "label" /\ entries[i].target = id}
  IN IF labels = {} THEN None
     ELSE entries[CHOOSE i \in labels : \A j \in labels : j <= i].label

-----------------------------------------------------------------------------
(* flat-tree.ts and flattenAll.                                             *)

\* The parent in the layout tree: an orphan is a root.
ParentOf(entries, id) ==
  IF id \in Ids(entries) /\ EntryOf(entries, id).parentId \in Ids(entries)
  THEN EntryOf(entries, id).parentId ELSE None

\* An entry, its ancestors in turn, and None.
Climb(entries, id) ==
  LET up[k \in 0 .. Len(entries)] == IF k = 0 THEN id ELSE ParentOf(entries, up[k - 1])
  IN up
Above(entries, id) == {Climb(entries, id)[k] : k \in 1 .. Len(entries)} \ {None}

\* toLayoutTree: the children of a node, and the roots, in file order.
ChildrenIn(entries, parent) ==
  Subsequence([i \in 1 .. Len(entries) |-> entries[i].id],
              {i \in 1 .. Len(entries) : ParentOf(entries, entries[i].id) = parent})

\* buildActivePath, and computeContainsActive: a subtree holds the leaf when
\* its root is on the path.
ActivePath(entries, leaf) == ({leaf} \cup Above(entries, leaf)) \ {None}

ActiveFirst(ids, path) ==
  Subsequence(ids, {i \in 1 .. Len(ids) : ids[i] \in path})
  \o Subsequence(ids, {i \in 1 .. Len(ids) : ids[i] \notin path})

\* The loop takes a node from the stack and puts its children there.
Below(entries, leaf, id) == ActiveFirst(ChildrenIn(entries, id), ActivePath(entries, leaf))
Visit(entries, leaf, before) ==
  IF before.stack = <<>> THEN before
  ELSE [flat |-> Append(before.flat, Head(before.stack)),
        stack |-> Below(entries, leaf, Head(before.stack)) \o Tail(before.stack)]
FlattenAll(entries, leaf) ==
  LET loop[k \in 0 .. Len(entries)] ==
        IF k = 0 THEN [flat |-> <<>>, stack |-> Below(entries, leaf, None)]
        ELSE Visit(entries, leaf, loop[k - 1])
  IN loop[Len(entries)].flat

-----------------------------------------------------------------------------
(* recalculateVisibleStructure and treePrefix.                              *)

AtLeastZero(n) == IF n < 0 THEN 0 ELSE n

\* The nearest ancestor that is shown.
VisibleParent(entries, visible, id) ==
  LET up == Climb(entries, id)
      shown == {k \in 1 .. Len(entries) : up[k] \in visible}
  IN IF shown = {} THEN None ELSE up[CHOOSE k \in shown : \A j \in shown : k <= j]

\* A row without a visible parent, and one below the row up; branch is whether
\* it has siblings.
RootRow(branch, isLast) ==
  [indent |-> IF branch THEN 1 ELSE 0, justBranched |-> branch, showConnector |-> branch,
   isLast |-> isLast, gutters |-> <<>>, isVirtualRootChild |-> branch]
Connected(row) == row.showConnector /\ ~row.isVirtualRootChild
Gutter(row, multipleRoots) ==
  [position |-> AtLeastZero((IF multipleRoots THEN AtLeastZero(row.indent - 1)
                             ELSE row.indent) - 1),
   show |-> ~row.isLast]
ChildRow(up, branch, isLast, multipleRoots) ==
  [indent |-> IF branch \/ (up.justBranched /\ up.indent > 0)
              THEN up.indent + 1 ELSE up.indent,
   justBranched |-> branch, showConnector |-> branch, isLast |-> isLast,
   gutters |-> IF Connected(up) THEN Append(up.gutters, Gutter(up, multipleRoots))
               ELSE up.gutters,
   isVirtualRootChild |-> FALSE]

\* The row at i, up that of its visible parent; parent gives these at each
\* position, None for a root.
Siblings(parent, i) == {j \in DOMAIN parent : parent[j] = parent[i]}
MultipleRoots(parent) == \E i \in DOMAIN parent : parent[i] = None /\ Siblings(parent, i) # {i}
RowAt(parent, i, up) ==
  LET branch == Siblings(parent, i) # {i}
      isLast == \A j \in Siblings(parent, i) : j <= i
  IN IF parent[i] = None THEN RootRow(branch, isLast)
     ELSE ChildRow(up, branch, isLast, MultipleRoots(parent))

Layout(entries, shown) ==
  LET at == 1 .. Len(shown)
      parent == [i \in at |-> VisibleParent(entries, {shown[j] : j \in at}, shown[i])]
      row[i \in at] == RowAt(parent, i, row[CHOOSE j \in at : shown[j] = parent[i]])
  IN row

\* The columns before an entry's id, three characters each.
TreePrefix_NoGutters(row) ==
  [k \in 1 .. row.indent |->
     IF row.showConnector /\ k = row.indent THEN (IF row.isLast THEN "corner" ELSE "tee")
     ELSE "blank"]
TreePrefix(row) ==
  LET displayIndent == IF row.isVirtualRootChild THEN AtLeastZero(row.indent - 1)
                       ELSE row.indent
      connector == row.showConnector /\ ~row.isVirtualRootChild
      at(level) == {i \in 1 .. Len(row.gutters) : row.gutters[i].position = level}
  IN [k \in 1 .. displayIndent |->
        LET level == k - 1 IN
        IF at(level) # {}
        THEN IF row.gutters[CHOOSE i \in at(level) : \A j \in at(level) : i <= j].show
             THEN "bar" ELSE "blank"
        ELSE IF connector /\ level = displayIndent - 1
        THEN (IF row.isLast THEN "corner" ELSE "tee")
        ELSE "blank"]

\* formatEntriesTree, of entries whose ids are distinct: the rows, and the
\* leaf in the cursor line.
FormatEntriesTree(entries, leaf, filter) ==
  LET passes(id) == PassesFilter(EntryOf(entries, id), LabelOf(entries, id), leaf, filter)
      flat == FlattenAll(entries, leaf)
      shown == Subsequence(flat, {i \in 1 .. Len(flat) : passes(flat[i])})
      layout == Layout(entries, shown)
      path == ActivePath(entries, leaf)
  IN [rows |-> [i \in 1 .. Len(shown) |->
                  [id |-> shown[i], prefix |-> TreePrefix(layout[i]),
                   marker |-> IF shown[i] = leaf THEN "leaf"
                              ELSE IF shown[i] \in path THEN "active" ELSE None]],
      cursor |-> leaf]
=============================================================================

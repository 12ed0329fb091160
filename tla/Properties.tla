------------------------------ MODULE Properties ------------------------------
(***************************************************************************)
(* The tree of properties (properties.c): filters, outputs, plugins and the *)
(* front end hang theirs into it and take them out again, and commands list *)
(* and set them (cmd_info.c).  The nodes are linked by parent, next and     *)
(* childNodes; the names of a node's children are in order.  Nothing locks   *)
(* the tree: a listing, which prints a name at a time, may be overtaken, and *)
(* between the look-up of a place in a list and the change there another     *)
(* thread may change the tree (two connections with addsf and rmsf).        *)
(*                                                                         *)
(* Names are numbers, their order strcmp's; a path is a sequence of names.  *)
(***************************************************************************)
EXTENDS Integers, Sequences, FiniteSets, SequencesExt

CONSTANTS Changer,        \* threads that add and remove properties
          PropertyName,   \* names of properties, a set of numbers
          MaxDepth,       \* bound: the length of a path
          MaxNodes,       \* bound: the nodes ever made
          MaxBeside       \* bound: those made when two change the tree, or one changes it
                          \* while it is listed

VARIABLES tree,      \* made, name, parent, next, child: the nodes; freed
          wanted,    \* per path how many properties of that path were added and not
                     \* removed, with those above them: what the tree stands for
          change,    \* per thread what it is about to change: the node, the place in a list
          met,       \* history: two changes met, at one place or one below the other
          listing,   \* a command's walk along the children of a node
          setting    \* a property set by text: its type, value, the text, the result

propVars == <<tree, wanted, change, met, listing, setting>>

Root == 0      \* rootProperty
NoNode == 0    \* NULL: the root is nobody's child
Node == 0..MaxNodes

PropertyPath == UNION {[1..n -> PropertyName] : n \in 0..MaxDepth}

-----------------------------------------------------------------------------
\* The children of a node in the order of the list.
Children(T, n) ==
  LET onward(seen, i) ==
        LET last == IF seen = <<>> THEN T.child[n] ELSE T.next[seen[Len(seen)]]
        IN  IF last = NoNode \/ (seen # <<>> /\ seen[Len(seen)] = NoNode) THEN seen
            ELSE Append(seen, last)
  IN  FoldLeft(onward, <<>>, [i \in 1..MaxNodes |-> i])

\* PropertiesFindNode: the node as far as the path leads (the root if nowhere), how
\* many of its names that are, and the child before it.
FindNode(T, path) ==
  LET down(f, name) ==
        LET level == Children(T, f.node)
            i     == SelectInSeq(level, LAMBDA c : T.name[c] = name)
        IN  IF f.lost \/ i = 0 THEN [f EXCEPT !.lost = TRUE]
            ELSE [node |-> level[i], found |-> f.found + 1, lost |-> FALSE,
                  before |-> IF i = 1 THEN NoNode ELSE level[i - 1]]
  IN  FoldLeft(down, [node |-> Root, found |-> 0, lost |-> FALSE, before |-> NoNode], path)

\* PropertiesCreateNode, the scan: before the first child whose name comes later.
Place(T, parent, name) ==
  LET level == Children(T, parent)
      i     == SelectInSeq(level, LAMBDA c : T.name[c] > name)
      j     == IF i = 0 THEN Len(level) + 1 ELSE i
  IN  [before |-> IF j = 1 THEN NoNode ELSE level[j - 1],
       after  |-> IF i = 0 THEN NoNode ELSE level[i]]

\* PropertiesCreateNode, the links, at the place that was found.
CreateNode(T, parent, name, place) ==
  LET n == T.made + 1
      U == [T EXCEPT !.made = n, !.name[n] = name, !.parent[n] = parent, !.next[n] = place.after]
  IN  IF place.before = NoNode THEN [U EXCEPT !.child[parent] = n]
                               ELSE [U EXCEPT !.next[place.before] = n]

Subtree(T, n) ==
  LET wider(S, i) == S \cup {m \in (1..T.made) \ T.freed : T.parent[m] \in S}
  IN  FoldLeft(wider, {n}, [i \in 1..MaxDepth |-> i])

\* Mutant of Unlink: only the first child is taken out of the list.
UnlinkFirst(T, n, before) ==
  [T EXCEPT !.child[T.parent[n]] = IF @ = n THEN T.next[n] ELSE @]

UnlinkNode(T, n, before) ==
  LET U == [T EXCEPT !.child[T.parent[n]] = IF @ = n THEN T.next[n] ELSE @]
  IN  IF before = NoNode THEN U ELSE [U EXCEPT !.next[before] = T.next[n]]

\* What was in a node that is freed is anything.
Freed(T, nodes) ==
  LET Gone(field) == [n \in Node |-> IF n \in nodes THEN 0 ELSE field[n]]
  IN  [made |-> T.made, name |-> Gone(T.name), parent |-> Gone(T.parent), next |-> Gone(T.next),
       child |-> Gone(T.child), freed |-> T.freed \cup nodes]

\* The loop of PropertiesRemoveAllProperties frees what is below the node, leaves
\* first, and then the node itself.
RemoveNode(T, n, before) == Freed(UnlinkNode(T, n, before), Subtree(T, n))

-----------------------------------------------------------------------------
NoPlace == [before |-> NoNode, after |-> NoNode]
NoChange == [kind |-> "none", at |-> Root, path |-> <<>>, n |-> 0, place |-> NoPlace]

Quiet == \A t \in Changer : change[t] = NoChange

Alone == Quiet /\ ~listing.on

\* The nodes that a removal is about to free, or is freeing one by one.
Removing == UNION {Subtree(tree, change[t].at) : t \in {u \in Changer : change[u].kind = "remove"}}

\* The nodes whose names the look-up of a path may read.
Passed(path) ==
  UNION {LET f == FindNode(tree, SubSeq(path, 1, n))
         IN  IF f.lost THEN {} ELSE {f.node} \cup ToSet(Children(tree, f.node)) : n \in 0..Len(path)}

\* Bound: the nodes that are still to be made by the additions under way.
Promised == SumFunction([t \in Changer |-> IF change[t].kind = "add"
                                           THEN Len(change[t].path) - change[t].n + 1 ELSE 0])

-----------------------------------------------------------------------------
\* The first property of that path goes with all that is below it.
Removed(B, path) ==
  [p \in PropertyPath |-> IF p = path THEN B[p] - 1
                          ELSE IF IsStrictPrefix(path, p) THEN 0 ELSE B[p]]

\* The listing is at a node that is gone or going: it reads freed memory.
Overtaken(gone) == [listing EXCEPT !.overtaken = @ \/ listing.at \in gone, !.there = @ \ gone]

Idling == [on |-> FALSE, at |-> NoNode, printed |-> FALSE, shown |-> <<>>,
           overtaken |-> FALSE, there |-> {}]

\* PropertiesAddProperty: the look-up of the path, as far as there is one, and of the
\* place of the first node to be made.
AddProperty(t, path, name) ==
  LET f     == FindNode(tree, path)
      whole == Append(path, name)
      n     == f.found + 1
  IN  /\ change[t] = NoChange
      /\ tree.made + Promised + Len(whole) - f.found <= (IF Alone THEN MaxNodes ELSE MaxBeside)
      /\ change' = [change EXCEPT ![t] =
                      [kind |-> "add", at |-> f.node, path |-> whole, n |-> n,
                       place |-> Place(tree, f.node, whole[n])]]
      /\ met' = (Passed(path) \cap Removing # {})
      /\ UNCHANGED <<tree, wanted, listing, setting>>

\* A node is linked at the place found for it, and those of the rest of the path, one
\* by one, below it.
Link(t) ==
  LET c == change[t]
      U == CreateNode(tree, c.at, c.path[c.n], c.place)
  IN  /\ c.kind = "add"
      /\ tree' = U
      /\ wanted' = [wanted EXCEPT ![SubSeq(c.path, 1, c.n)] = @ + 1]
      /\ change' = [change EXCEPT ![t] =
                      IF c.n = Len(c.path) THEN NoChange
                      ELSE [c EXCEPT !.at = U.made, !.n = @ + 1, !.place = NoPlace]]
      /\ met' = (c.at \in tree.freed \/ c.place # Place(tree, c.at, c.path[c.n]))
      /\ UNCHANGED <<listing, setting>>

\* PropertiesRemoveAllProperties: the look-up of the node and of the one before it; with
\* no such path only the log says so.
RemoveAllProperties(t, path) ==
  LET f    == FindNode(tree, path)
      gone == Subtree(tree, f.node)
  IN  /\ change[t] = NoChange
      /\ path # <<>> /\ ~f.lost
      /\ Alone \/ tree.made + Promised <= MaxBeside
      /\ change' = [change EXCEPT ![t] =
                      [kind |-> "remove", at |-> f.node, path |-> path, n |-> Len(path),
                       place |-> [before |-> f.before, after |-> NoNode]]]
      /\ met' = (Passed(path) \cap Removing # {} \/
                  \E u \in Changer \ {t} : change[u] # NoChange /\ change[u].at \in gone)
      /\ listing' = Overtaken(gone)
      /\ UNCHANGED <<tree, wanted, setting>>

\* What is below the node is freed, and the node is taken out of its list.
Unlink(t) ==
  LET c == change[t]
      f == FindNode(tree, c.path)
  IN  /\ c.kind = "remove"
      /\ tree' = RemoveNode(tree, c.at, c.place.before)
      /\ wanted' = Removed(wanted, c.path)
      /\ change' = [change EXCEPT ![t] = NoChange]
      /\ met' = (f.lost \/ f.node # c.at \/ f.before # c.place.before)
      /\ listing' = Overtaken(tree'.freed)
      /\ UNCHANGED setting

\* PropertiesRemoveProperty: one node that has no children; the first child of its
\* parent cannot be removed, for prevNode is NULL then.  Nothing calls it.
RemoveProperty(path, name) ==
  LET f     == FindNode(tree, path)
      level == Children(tree, f.node)
      i     == SelectInSeq(level, LAMBDA c : tree.name[c] = name)
  IN  /\ Quiet
      /\ path # <<>> /\ ~f.lost
      /\ i > 1 /\ tree.child[level[i]] = NoNode
      /\ tree' = Freed([tree EXCEPT !.next[level[i - 1]] = tree.next[level[i]]], {level[i]})
      /\ wanted' = Removed(wanted, Append(path, name))
      /\ listing' = Overtaken(tree'.freed)
      /\ UNCHANGED <<change, met, setting>>

\* PropertiesDeInit: while the root has a child, its tree is removed; the threads that
\* change the tree have ended.
PropertiesDeInit ==
  /\ Quiet
  /\ tree.child[Root] # NoNode
  /\ tree' = FoldLeft(LAMBDA T, i : IF T.child[Root] = NoNode THEN T
                                    ELSE RemoveNode(T, T.child[Root], NoNode),
                      tree, [i \in 1..MaxNodes |-> i])
  /\ wanted' = [p \in PropertyPath |-> 0]
  /\ listing' = Overtaken(tree'.freed)
  /\ UNCHANGED <<change, met, setting>>

\* CommandListProperties: PropertiesEnumerate gives the first child.
ListProperties(path) ==
  LET f == FindNode(tree, path)
  IN  /\ ~listing.on /\ ~f.lost
      /\ listing' = [Idling EXCEPT !.on = TRUE, !.at = tree.child[f.node],
                                   !.overtaken = tree.child[f.node] \in Removing,
                                   !.there = ToSet(Children(tree, f.node)) \ Removing]
      /\ UNCHANGED <<tree, wanted, change, met, setting>>

\* PropertiesEnumGetInfo gives the name, which is written to the client.
ListShow ==
  /\ listing.on /\ listing.at # NoNode /\ ~listing.printed /\ ~listing.overtaken
  /\ listing' = [listing EXCEPT !.shown = Append(@, tree.name[listing.at]),
                                     !.there = @ \ {listing.at}, !.printed = TRUE]
  /\ UNCHANGED <<tree, wanted, change, met, setting>>

\* PropertiesEnumNext.
ListNext ==
  /\ listing.printed /\ ~listing.overtaken
  /\ listing' = [listing EXCEPT !.at = tree.next[@], !.printed = FALSE,
                                !.overtaken = tree.next[listing.at] \in Removing]
  /\ UNCHANGED <<tree, wanted, change, met, setting>>

ListEnds ==
  /\ listing.on /\ (listing.at = NoNode \/ listing.overtaken)
  /\ listing' = Idling
  /\ UNCHANGED <<tree, wanted, change, met, setting>>

-----------------------------------------------------------------------------
\* Properties set by text.

PropertyType == {"None", "Int", "Float", "Boolean", "String", "Char", "PID", "IPAddress"}

\* What is typed: a number, one with a fraction, a word, or a truth value.
PropertyText == {"12", "1.5", "word", "true"}

\* PropertiesStrToValue: the values a text may give, none if it is refused.  A PID is
\* refused if it is a number; of any other text it is what was in the variable.
StrToValue(type, typed) ==
  CASE type = "Int"     -> CASE typed = "12" -> {"12"} [] typed = "1.5" -> {"1"} [] OTHER -> {}
    [] type = "Float"   -> {typed} \cap {"12", "1.5"}
    [] type = "Boolean" -> {typed} \cap {"true"}
    [] type = "String"  -> {typed}
    [] type = "Char"    -> {IF typed \in {"12", "1.5"} THEN "1" ELSE IF typed = "word" THEN "w" ELSE "t"}
    [] type = "PID"     -> IF typed \in {"12", "1.5"} THEN {} ELSE {"anything"}
    [] OTHER            -> {}

\* PropertiesSimplePropertySet and PropertiesSimplePropertyGet: all but addresses.
Settable(type) == type \notin {"None", "IPAddress"}

\* PropertiesSetStr (PropertiesSet) of a property that may be written, and
\* PropertiesGet after it.
SetProperty(type, typed) ==
  /\ tree.made = 0
  /\ \E value \in StrToValue(type, typed) \cup {"old"} :
       /\ (value = "old") <=> (StrToValue(type, typed) = {} \/ ~Settable(type))
       /\ setting' = [type |-> type, typed |-> typed, result |-> IF value = "old" THEN -1 ELSE 0,
                      value |-> value]
  /\ UNCHANGED <<tree, wanted, change, met, listing>>

PropertiesInit ==
  /\ tree = [made |-> 0, name |-> [n \in Node |-> 0], parent |-> [n \in Node |-> 0],
             next |-> [n \in Node |-> 0], child |-> [n \in Node |-> 0], freed |-> {}]
  /\ wanted = [p \in PropertyPath |-> 0]
  /\ change = [t \in Changer |-> NoChange] /\ met = FALSE
  /\ listing = Idling
  /\ setting = [type |-> "None", typed |-> "", result |-> -1, value |-> "old"]

\* What becomes of lists that two changes met in is not followed any further.
PropertiesNext ==
  /\ ~met
  /\ \/ \E t \in Changer, path \in PropertyPath, name \in PropertyName :
          /\ Len(path) < MaxDepth
          /\ setting.type = "None"
          /\ AddProperty(t, path, name)
     \/ \E t \in Changer : Link(t) \/ Unlink(t)
     \/ \E t \in Changer, path \in PropertyPath : RemoveAllProperties(t, path)
     \/ \E path \in PropertyPath : ListProperties(path)
     \/ \E path \in PropertyPath, name \in PropertyName : RemoveProperty(path, name)
     \/ ListShow \/ ListNext \/ ListEnds
     \/ PropertiesDeInit
     \/ \E type \in PropertyType, typed \in PropertyText : SetProperty(type, typed)

-----------------------------------------------------------------------------
InOrder(names) == \A i \in 1..(Len(names) - 1) : names[i] <= names[i + 1]

\* The lists of nodes hold what was added and not removed, each as often as it was
\* added, in the order of the names, and lead to nothing that is freed; whatever several
\* threads add and remove at once, as long as no two of them meet: neither has the
\* place that the other found changed before it was used, looked up a way past nodes
\* that the other was freeing, nor changed anything below them (no mutex keeps the
\* threads from that, and then nodes are lost or freed memory is linked).
TreeIsKept == ~met =>
  LET Named(path) == LET f == FindNode(tree, SubSeq(path, 1, Len(path) - 1))
                     IN  IF f.lost THEN {}
                         ELSE {c \in ToSet(Children(tree, f.node)) : tree.name[c] = path[Len(path)]}
  IN  /\ \A path \in PropertyPath \ {<<>>} : Cardinality(Named(path)) = wanted[path]
      /\ \A n \in (0..tree.made) \ tree.freed :
           /\ \A c \in ToSet(Children(tree, n)) : c \notin tree.freed /\ tree.parent[c] = n
           /\ InOrder([i \in DOMAIN Children(tree, n) |-> tree.name[Children(tree, n)[i]]])

\* A listing that no removal overtakes shows every child that was there all the time,
\* in the order of the names, whatever is added or removed meanwhile, as long as no
\* two changes meet.
ListingIsWhole ==
  ~met /\ listing.on /\ listing.at = NoNode /\ ~listing.overtaken =>
    listing.there = {} /\ InOrder(listing.shown)

\* A text that a property takes is what it has then; one it refuses changes nothing.
\* Not so a PID, which takes what is no number.
SettingIsRead ==
  setting.type # "PID" =>
    /\ (setting.result = 0) <=> (setting.value # "old")
    /\ setting.type \in {"Float", "Boolean", "String"} /\ setting.result = 0 =>
         setting.value = setting.typed

\* What is in the tree, and what the commands show of it.
PropertiesKept == TreeIsKept /\ ListingIsWhole /\ SettingIsRead

=============================================================================

------------------------------ MODULE ArcBTree ------------------------------
(***************************************************************************)
(* The copy-on-write B-tree (ArcBTreeSet and ArcBTreeMap in                *)
(* stabby-abi/src/alloc/collections/arc_btree.rs).  A node is in an Arc of *)
(* its own, so a clone of a tree shares every node with it; an insert      *)
(* makes the nodes on its way down its own, copying those that are shared, *)
(* and splits the nodes that are full on its way back up.                  *)
(*                                                                         *)
(* Every thread owns one tree, and the inserts and drops of different      *)
(* threads interleave at the accesses to the counts of the nodes they      *)
(* share.  What an insert does to a node it has made its own is one step,  *)
(* and so is the clone of a node.                                          *)
(***************************************************************************)
EXTENDS Integers, SequencesExt, FiniteSetsExt

CONSTANTS
  Thread,        \* each owns a tree
  Key,           \* the keys, ordered: T::cmp, or that of the key of an Entry
  Value,         \* what an Entry holds besides its key
  Addr,          \* the addresses of nodes, as numbers
  Null,          \* None
  SPLIT_LIMIT    \* the number of entries at which a node splits

ASSUME ThreadAssumption == IsFiniteSet(Thread)
ASSUME KeyAssumption == Key \subseteq Nat
ASSUME AddrAssumption == IsFiniteSet(Addr) /\ Addr \subseteq Nat /\ Null \notin Addr \cup Value
ASSUME LimitAssumption == SPLIT_LIMIT \in Nat /\ SPLIT_LIMIT % 2 = 1 /\ SPLIT_LIMIT > 1

VARIABLES
  replace,   \* REPLACE_ON_INSERT
  root,      \* root[t]: the root of the tree of t
  entries,   \* entries[a]: the entries of the node at a, <<key, value>> each
  kids,      \* kids[a]: the smaller of each entry, and greater at the end
  strong,    \* strong[a]: the Arcs of the node at a; it is free when 0
  pc,        \* where the insert of each thread stands
  entry,     \* what it inserts: the argument, then the pivot of a split
  right,     \* the node that goes with entry, split off to its right
  path,      \* the nodes it made its own so far, with the kid it went to
  copy,      \* the copy of a shared node that make_mut has not put in place yet
  dropping   \* the Arcs each thread is about to drop, the next one first

heap == <<entries, kids, strong>>
insert == <<entry, right, path, copy>>
vars == <<replace, root, heap, pc, insert, dropping>>

Pointer == Addr \cup {Null}

\* The allocator: nothing here compares addresses, so any free one will do.
Free == {a \in Addr : strong[a] = 0}
New == CHOOSE a \in Free : TRUE

Goto(t, l) == pc' = [pc EXCEPT ![t] = l]

\* The pointer that the insert of t is about to go through.
Here(t) == IF path[t] = << >> THEN root[t] ELSE kids[Last(path[t])[1]][Last(path[t])[2]]

Init ==
  /\ replace \in BOOLEAN
  /\ root = [t \in Thread |-> Null]
  /\ entries = [a \in Addr |-> << >>]
  /\ kids = [a \in Addr |-> << >>]
  /\ strong = [a \in Addr |-> 0]
  /\ pc = [t \in Thread |-> "idle"]
  /\ entry = [t \in Thread |-> <<>>]
  /\ right = [t \in Thread |-> Null]
  /\ path = [t \in Thread |-> << >>]
  /\ copy = [t \in Thread |-> Null]
  /\ dropping = [t \in Thread |-> << >>]

-----------------------------------------------------------------------------
(* Nodes *)

\* The first entry of a whose key is not less than k, or the place of greater.
Search(a, k) ==
  LET larger == {i \in 1 .. Len(entries[a]) : entries[a][i][1] >= k}
  IN IF larger = {} THEN Len(entries[a]) + 1 ELSE Min(larger)

Holds(a, i, k) == i <= Len(entries[a]) /\ entries[a][i][1] = k

\* The nodes in use.
Nodes == {a \in Addr : strong[a] # 0}

\* What a search for k returns from the node at a; get[q] is what it returns
\* from the node below it at q.
Look(a, k, get) ==
  LET i == Search(a, k)
  IN IF Holds(a, i, k) THEN entries[a][i][2] ELSE get[kids[a][i]]

\* ArcBTreeSetNode::get: the value found for k under the pointer p, or Null.
Get(p, k) ==
  LET get[q \in Nodes \cup {Null}] == IF q = Null THEN Null ELSE Look(q, k, get)
  IN get[p]

-----------------------------------------------------------------------------
(* Drop for Arc *)

\* The next Arc is that of a node, or None; when the last one is dropped, the
\* thread goes on.
Dropping(t) == dropping[t] # << >> /\ Head(dropping[t]) # Null
DropRest(t, rest) ==
  /\ dropping' = [dropping EXCEPT ![t] = rest]
  /\ Goto(t, IF rest # << >> THEN pc[t] ELSE IF pc[t] = "drop_node" THEN "mutate" ELSE "idle")
  /\ UNCHANGED <<replace, root, insert>>

DropNone(t) ==
  /\ dropping[t] # << >> /\ ~Dropping(t)
  /\ DropRest(t, Tail(dropping[t]))
  /\ UNCHANGED heap

DropShared(t) ==
  /\ Dropping(t) /\ strong[Head(dropping[t])] # 1
  /\ strong' = [strong EXCEPT ![Head(dropping[t])] = @ - 1]
  /\ DropRest(t, Tail(dropping[t]))
  /\ UNCHANGED <<entries, kids>>

\* The last owner drops the node, and its Arcs of the nodes below go first.
FreeNode(a) ==
  /\ strong' = [strong EXCEPT ![a] = 0]
  /\ entries' = [entries EXCEPT ![a] = << >>]
  /\ kids' = [kids EXCEPT ![a] = << >>]

DropLastAlone(t) == \* mutant: not those below
  /\ Dropping(t) /\ strong[Head(dropping[t])] = 1
  /\ FreeNode(Head(dropping[t]))
  /\ DropRest(t, Tail(dropping[t]))

DropLast(t) ==
  /\ Dropping(t) /\ strong[Head(dropping[t])] = 1
  /\ FreeNode(Head(dropping[t]))
  /\ DropRest(t, kids[Head(dropping[t])] \o Tail(dropping[t]))

-----------------------------------------------------------------------------
(* Trees *)

\* Clone: another owner of the root.
Clone(t, u) ==
  /\ root[t] = Null /\ pc[t] = "idle"
  /\ root[u] # Null /\ pc[u] = "idle"
  /\ root' = [root EXCEPT ![t] = root[u]]
  /\ strong' = [strong EXCEPT ![root[u]] = @ + 1]
  /\ UNCHANGED <<replace, entries, kids, pc, insert, dropping>>

\* The tree goes out of scope.
Drop(t) ==
  /\ pc[t] = "idle" /\ root[t] # Null
  /\ root' = [root EXCEPT ![t] = Null]
  /\ dropping' = [dropping EXCEPT ![t] = <<root[t]>>]
  /\ Goto(t, "drop_tree")
  /\ UNCHANGED <<replace, heap, insert>>

-----------------------------------------------------------------------------
(* insert *)

\* Into an empty tree: a root with one entry.
InsertFirst(t, e) ==
  LET a == New IN
  /\ pc[t] = "idle" /\ root[t] = Null
  /\ Free # {}
  /\ root' = [root EXCEPT ![t] = a]
  /\ entries' = [entries EXCEPT ![a] = <<e>>]
  /\ kids' = [kids EXCEPT ![a] = <<Null, Null>>]
  /\ strong' = [strong EXCEPT ![a] = 1]
  /\ UNCHANGED <<replace, pc, insert, dropping>>

\* Otherwise, unless the set holds the value and keeps it.
Insert(t, e) ==
  /\ pc[t] = "idle" /\ root[t] # Null
  /\ replace \/ Get(root[t], e[1]) = Null
  /\ entry' = [entry EXCEPT ![t] = e]
  /\ Goto(t, "make_mut")
  /\ UNCHANGED <<replace, root, heap, right, path, copy, dropping>>

\* Arc::make_mut_and_get_alloc: is the node shared?  (It never has a Weak.)
IsUniqueOrPair(t) == \* mutant: one other owner is one too few to copy
  /\ pc[t] = "make_mut"
  /\ Goto(t, IF strong[Here(t)] <= 2 THEN "mutate" ELSE "clone")
  /\ UNCHANGED <<replace, root, heap, insert, dropping>>

IsUnique(t) ==
  /\ pc[t] = "make_mut"
  /\ Goto(t, IF strong[Here(t)] = 1 THEN "mutate" ELSE "clone")
  /\ UNCHANGED <<replace, root, heap, insert, dropping>>

\* The clone of a shared node shares the nodes below.
CloneNode(t) ==
  LET node == Here(t)
      a == New
  IN
  /\ pc[t] = "clone"
  /\ Free # {}
  /\ entries' = [entries EXCEPT ![a] = entries[node]]
  /\ kids' = [kids EXCEPT ![a] = kids[node]]
  /\ strong' = [q \in Addr |->
       IF q = a THEN 1 ELSE strong[q] + Cardinality({i \in DOMAIN kids[node] : kids[node][i] = q})]
  /\ copy' = [copy EXCEPT ![t] = a]
  /\ Goto(t, "assign")
  /\ UNCHANGED <<replace, root, entry, right, path, dropping>>

\* *self = the clone, which takes the place of the shared node; that one is
\* dropped, by what may be its last owner by now.
Assign(t) ==
  /\ pc[t] = "assign"
  /\ IF path[t] = << >>
       THEN root' = [root EXCEPT ![t] = copy[t]] /\ UNCHANGED kids
       ELSE /\ kids' = [kids EXCEPT ![Last(path[t])[1]][Last(path[t])[2]] = copy[t]]
            /\ UNCHANGED root
  /\ dropping' = [dropping EXCEPT ![t] = <<Here(t)>>]
  /\ copy' = [copy EXCEPT ![t] = Null]
  /\ Goto(t, "drop_node")
  /\ UNCHANGED <<replace, entries, strong, entry, right, path>>

\* The place of the entry in the node that the insert reached.
Place(t) == Search(Here(t), entry[t][1])

\* insert_inner goes on to the node between the keys around that of the entry.
DescendShared(t) == \* mutant: the node it goes to is not made its own
  /\ pc[t] = "mutate"
  /\ ~Holds(Here(t), Place(t), entry[t][1])
  /\ kids[Here(t)][Place(t)] # Null
  /\ path' = [path EXCEPT ![t] = Append(@, <<Here(t), Place(t)>>)]
  /\ UNCHANGED <<replace, root, heap, pc, entry, right, copy, dropping>>

Descend(t) ==
  /\ pc[t] = "mutate"
  /\ ~Holds(Here(t), Place(t), entry[t][1])
  /\ kids[Here(t)][Place(t)] # Null
  /\ path' = [path EXCEPT ![t] = Append(@, <<Here(t), Place(t)>>)]
  /\ Goto(t, "make_mut")
  /\ UNCHANGED <<replace, root, heap, entry, right, copy, dropping>>

\* insert returns.
Done(t) ==
  /\ entry' = [entry EXCEPT ![t] = << >>]
  /\ right' = [right EXCEPT ![t] = Null]
  /\ path' = [path EXCEPT ![t] = << >>]
  /\ Goto(t, "idle")

\* The key is there: its value is replaced.
ReplaceValue(t) ==
  /\ pc[t] = "mutate"
  /\ Holds(Here(t), Place(t), entry[t][1])
  /\ entries' = [entries EXCEPT ![Here(t)][Place(t)] = entry[t]]
  /\ Done(t)
  /\ UNCHANGED <<replace, root, kids, strong, copy, dropping>>

\* What is left of the pivot keeps the nodes below, with that of the pivot last.
LeftOfLoses(pivot, below) == SubSeq(below, 1, pivot - 1) \o <<Null>> \* mutant: not that of the pivot
LeftOf(pivot, below) == SubSeq(below, 1, pivot)

\* insert and push of a node, and split: the entry and the node to its right
\* enter node a at place i, below the nodes in above.  A full node keeps what is
\* left of its middle entry, which goes up with a new node for the rest.
PutAndSplit(t, a, i, above) ==
  LET all == InsertAt(entries[a], i, entry[t])
      below == InsertAt(kids[a], i + 1, right[t])
      pivot == SPLIT_LIMIT \div 2 + 1
      b == New
  IN \/ /\ Len(all) < SPLIT_LIMIT
        /\ entries' = [entries EXCEPT ![a] = all]
        /\ kids' = [kids EXCEPT ![a] = below]
        /\ UNCHANGED strong
        /\ Done(t)
     \/ /\ Len(all) = SPLIT_LIMIT /\ Free # {}
        /\ entries' = [entries EXCEPT ![a] = SubSeq(all, 1, pivot - 1),
                                      ![b] = SubSeq(all, pivot + 1, SPLIT_LIMIT)]
        /\ kids' = [kids EXCEPT ![a] = LeftOf(pivot, below),
                                ![b] = SubSeq(below, pivot + 1, SPLIT_LIMIT + 1)]
        /\ strong' = [strong EXCEPT ![b] = 1]
        /\ entry' = [entry EXCEPT ![t] = all[pivot]]
        /\ right' = [right EXCEPT ![t] = b]
        /\ path' = [path EXCEPT ![t] = above]
        /\ Goto(t, "carry")

\* The entry enters the leaf it belongs in.
Put(t) ==
  /\ pc[t] = "mutate"
  /\ ~Holds(Here(t), Place(t), entry[t][1])
  /\ kids[Here(t)][Place(t)] = Null
  /\ PutAndSplit(t, Here(t), Place(t), path[t])
  /\ UNCHANGED <<replace, root, copy, dropping>>

\* The pivot of a split enters the parent, which may split in turn.
Carry(t) ==
  /\ pc[t] = "carry" /\ path[t] # << >>
  /\ PutAndSplit(t, Last(path[t])[1], Last(path[t])[2], Front(path[t]))
  /\ UNCHANGED <<replace, root, copy, dropping>>

\* The pivot of the root enters a new root.
Grow(t) ==
  LET b == New IN
  /\ pc[t] = "carry" /\ path[t] = << >>
  /\ Free # {}
  /\ entries' = [entries EXCEPT ![b] = <<entry[t]>>]
  /\ kids' = [kids EXCEPT ![b] = <<root[t], right[t]>>]
  /\ strong' = [strong EXCEPT ![b] = 1]
  /\ root' = [root EXCEPT ![t] = b]
  /\ Done(t)
  /\ UNCHANGED <<replace, copy, dropping>>

-----------------------------------------------------------------------------

Step(t) ==
  \/ DropNone(t) \/ DropShared(t) \/ DropLast(t)
  \/ IsUnique(t) \/ CloneNode(t) \/ Assign(t)
  \/ Descend(t) \/ ReplaceValue(t) \/ Put(t) \/ Carry(t) \/ Grow(t)

Call(t) ==
  \/ \E e \in Key \X Value : InsertFirst(t, e) \/ Insert(t, e)
  \/ \E u \in Thread : Clone(t, u)
  \/ Drop(t)

Next == \E t \in Thread : Step(t) \/ Call(t)

Spec == Init /\ [][Next]_vars

-----------------------------------------------------------------------------
(* Properties *)

\* The places of a in the sequences of f, and the x for which f[x] is a.
Occurrences(f, a) == {p \in UNION {{x} \X DOMAIN f[x] : x \in DOMAIN f} : f[p[1]][p[2]] = a}
Holders(f, a) == {x \in DOMAIN f : f[x] = a}

\* The Arcs of the node at a: of trees, of nodes above it, in the local variables
\* of inserts, and those that are about to be dropped.
Owners(a) ==
    Cardinality(Occurrences(kids, a)) + Cardinality(Occurrences(dropping, a))
  + Cardinality(Holders(root, a)) + Cardinality(Holders(copy, a)) + Cardinality(Holders(right, a))

\* Every node is counted once for each of its owners and freed with the last
\* one: trees that share nodes leak none and keep none that was freed.
CountsOwners == \A a \in Addr :
  /\ strong[a] = Owners(a)
  /\ strong[a] = 0 <=> kids[a] = << >>

\* What an insert changes belongs to its tree alone: the nodes on its way, which
\* no other tree shares, and every node above the one it is about to change.
ChangesItsOwn == \A t \in Thread :
  /\ \A i \in 1 .. Len(path[t]) : strong[path[t][i][1]] = 1
  /\ pc[t] = "mutate" => strong[Here(t)] = 1

\* The keys in S that belong below the kid at i of a node with the entries es.
Between(es, i, S) == {k \in S : \A j \in DOMAIN es : IF j < i THEN es[j][1] < k ELSE k < es[j][1]}

\* These entries have keys in S, in order.
InOrder(es, S) == \A i, j \in DOMAIN es : es[i][1] \in S /\ (i < j => es[i][1] < es[j][1])

\* The depth of the tree under p, if its keys are in S: -1 if its leaves are not
\* all at the same depth, or a node has too few or too many entries, or they are
\* not in order between those above.
Depth(p) ==
  LET depth[q \in Nodes \cup {Null}] == [S \in SUBSET Key |->
        IF q = Null THEN 0
        ELSE LET below == {depth[kids[q][i]][Between(entries[q], i, S)] : i \in DOMAIN kids[q]}
             IN IF /\ Len(entries[q]) \in 1 .. SPLIT_LIMIT - 1 /\ Len(kids[q]) = Len(entries[q]) + 1
                   /\ InOrder(entries[q], S)
                   /\ \E d \in below : d # -1 /\ below = {d}
                THEN 1 + CHOOSE d \in below : TRUE
                ELSE -1]
  IN depth[p][Key]

\* Between inserts a tree is a B-tree: every search for a key goes down the only
\* path it can be on, and all paths are equally long.
IsBTree == \A t \in Thread : pc[t] = "idle" => Depth(root[t]) # -1

\* The value that the tree of t has for k: the one a search finds, if what a split
\* is about to carry up is taken for a part of the node that was split.
ValueOf(t, k) ==
  LET half == IF pc[t] = "carry" THEN Here(t) ELSE Null
      get[q \in Nodes \cup {Null}] ==
        IF q = Null THEN Null
        ELSE IF q = half /\ k >= entry[t][1]
             THEN IF k = entry[t][1] THEN entry[t][2] ELSE get[right[t]]
             ELSE Look(q, k, get)
  IN get[root[t]]

Promise == INSTANCE OwnMaps WITH
  held <- [t \in Thread |-> [k \in Key |-> ValueOf(t, k)]], None <- Null

\* The maps of the threads are their own: whatever nodes two trees share, and
\* however inserts of both interleave, an insert changes what one tree holds for
\* one key, all at once, and nothing that another tree holds.
ImplementsOwnMaps == Promise!Spec
=============================================================================

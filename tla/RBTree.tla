------------------------------- MODULE RBTree -------------------------------
(***************************************************************************)
(* The red-black tree of src/DSAlgo/RedBlackTree/rbtree.c.  An operation   *)
(* runs step by step: one step is one iteration of a loop or the straight  *)
(* code between loops, so that the tree can be looked at inside the        *)
(* repair loops.  The code treats left and right symmetrically, and so     *)
(* does the model: a child pointer is kid[side][n], and each rotation and  *)
(* each case of a repair has a side as parameter.                          *)
(***************************************************************************)
EXTENDS Integers, Sequences, FiniteSets

CONSTANTS
  Nodes,    \* the nodes malloc can return
  Key(_),   \* the key each node is created with; keys may repeat
  nil,      \* the sentinel T->nil
  Junk      \* the uninitialised pointers of the sentinel

ASSUME TreeAssumption ==
  /\ nil \notin Nodes /\ Junk \notin Nodes \cup {nil} /\ IsFiniteSet(Nodes)
  /\ \A n \in Nodes : Key(n) \in Int

Cells == Nodes \cup {nil}
Sides == {"left", "right"}
Other(s) == IF s = "left" THEN "right" ELSE "left"

VARIABLES
  root, kid, parent, color,  \* the tree
  at,                        \* where the operation in progress is
  goal,                      \* the node being inserted or deleted
  x,                         \* the cursor of the loop that is running
  y,                         \* in a descent: the node above x
  content                    \* history: the nodes in the tree

tree == <<root, kid, parent, color>>
vars == <<tree, at, goal, x, y, content>>

(* rbtree_init: only the colour of the sentinel is set.  A node that is    *)
(* not in the tree has no contents that matter.                            *)
Init ==
  /\ root = nil
  /\ kid = [s \in Sides |-> [n \in Cells |-> IF n = nil THEN Junk ELSE nil]]
  /\ parent = [n \in Cells |-> IF n = nil THEN Junk ELSE nil]
  /\ color = [n \in Cells |-> "BLACK"]
  /\ at = "idle" /\ goal = nil /\ x = nil /\ y = nil
  /\ content = {}

(* The side on which n hangs below its parent.                             *)
SideOf(n) == IF n = kid["left"][parent[n]] THEN "left" ELSE "right"

(* The pointers after p's child (the root, if p is the sentinel) that was  *)
(* u has become v.                                                         *)
NewRoot(u, v) == IF parent[u] = nil THEN v ELSE root
NewKid(k, u, v) == IF parent[u] = nil THEN k ELSE [k EXCEPT ![SideOf(u)][parent[u]] = v]

(* rbtree_left_rotate and rbtree_right_rotate at n, towards side s.        *)
rotate(s, n) ==
  LET m == kid[Other(s)][n]
      c == kid[s][m]
  IN  /\ root' = NewRoot(n, m)
      /\ kid' = [NewKid(kid, n, m) EXCEPT ![Other(s)][n] = c, ![s][m] = n]
      /\ parent' = [q \in Cells |-> IF q = c /\ c # nil THEN n
                                    ELSE IF q = m THEN parent[n]
                                    ELSE IF q = n THEN m ELSE parent[q]]

-----------------------------------------------------------------------------
(* rbtree_create_node and rbtree_insert.                                   *)

insert(n) ==
  /\ at = "idle" /\ n \notin content
  /\ at' = "descend" /\ goal' = n /\ x' = root /\ y' = nil
  /\ UNCHANGED <<tree, content>>

insert_descend(n) ==
  /\ at = "descend" /\ x # nil /\ n = goal
  /\ y' = x
  /\ x' = kid[IF Key(n) < Key(x) THEN "left" ELSE "right"][x]
  /\ UNCHANGED <<tree, at, goal, content>>

insert_link(n) ==
  /\ at = "descend" /\ x = nil /\ n = goal
  /\ root' = IF y = nil THEN n ELSE root
  /\ kid' = [s \in Sides |->
              [q \in Cells |->
                IF q = n THEN nil
                ELSE IF q = y /\ y # nil /\ s = (IF Key(n) < Key(y) THEN "left" ELSE "right")
                THEN n ELSE kid[s][q]]]
  /\ parent' = [parent EXCEPT ![n] = y]
  /\ color' = [color EXCEPT ![n] = "RED"]
  /\ content' = content \cup {n}
  /\ at' = "insert_fixup" /\ x' = n
  /\ UNCHANGED <<goal, y>>

(* rbtree_insert_fixup.  x is the code's z.                                *)
Grand == parent[parent[x]]

insert_fixup_uncle(s) ==
  /\ at = "insert_fixup" /\ color[parent[x]] = "RED"
  /\ s = SideOf(parent[x]) /\ color[kid[Other(s)][Grand]] = "RED"
  /\ color' = [color EXCEPT ![parent[x]] = "BLACK",
                            ![kid[Other(s)][Grand]] = "BLACK", ![Grand] = "RED"]
  /\ x' = Grand
  /\ UNCHANGED <<root, kid, parent, at, goal, y, content>>

(* Case 2.  The code goes straight on to case 3, which is what the loop    *)
(* would come to as well: the parent is still red and the uncle black.     *)
insert_fixup_triangle(s) ==
  /\ at = "insert_fixup" /\ color[parent[x]] = "RED"
  /\ s = SideOf(parent[x]) /\ color[kid[Other(s)][Grand]] # "RED"
  /\ x = kid[Other(s)][parent[x]]
  /\ x' = parent[x]
  /\ rotate(s, parent[x])
  /\ UNCHANGED <<color, at, goal, y, content>>

insert_fixup_line(s) ==
  /\ at = "insert_fixup" /\ color[parent[x]] = "RED"
  /\ s = SideOf(parent[x]) /\ color[kid[Other(s)][Grand]] # "RED"
  /\ x # kid[Other(s)][parent[x]]
  /\ color' = [color EXCEPT ![parent[x]] = "BLACK", ![Grand] = "RED"]
  /\ rotate(Other(s), Grand)
  /\ UNCHANGED <<at, goal, x, y, content>>

insert_done ==
  /\ at = "insert_fixup" /\ color[parent[x]] # "RED"
  /\ color' = [color EXCEPT ![root] = "BLACK"]
  /\ at' = "idle" /\ goal' = nil /\ x' = nil /\ y' = nil
  /\ UNCHANGED <<root, kid, parent, content>>

-----------------------------------------------------------------------------
(* rbtree_search for the key of n, to delete the node it finds.            *)

search(n) ==
  /\ at = "idle"
  /\ at' = "search" /\ goal' = n /\ x' = root
  /\ UNCHANGED <<tree, y, content>>

(* Mutant: the wrong subtree is searched.                                  *)
search_step_swapped ==
  /\ at = "search" /\ x # nil /\ Key(goal) # Key(x)
  /\ x' = kid[IF Key(goal) < Key(x) THEN "right" ELSE "left"][x]
  /\ UNCHANGED <<tree, at, goal, y, content>>

search_step ==
  /\ at = "search" /\ x # nil /\ Key(goal) # Key(x)
  /\ x' = kid[IF Key(goal) < Key(x) THEN "left" ELSE "right"][x]
  /\ UNCHANGED <<tree, at, goal, y, content>>

(* Not found: NULL, and nothing is deleted.                                *)
search_fails ==
  /\ at = "search" /\ x = nil
  /\ at' = "idle" /\ goal' = nil
  /\ UNCHANGED <<tree, x, y, content>>

(* rbtree_delete of the node found.  With two children, rbtree_minimum     *)
(* looks for the successor first.                                          *)
search_finds ==
  /\ at = "search" /\ x # nil /\ Key(goal) = Key(x)
  /\ goal' = x
  /\ IF kid["left"][x] = nil \/ kid["right"][x] = nil
     THEN at' = "unlink" /\ x' = x
     ELSE at' = "minimum" /\ x' = kid["right"][x]
  /\ UNCHANGED <<tree, y, content>>

minimum_step ==
  /\ at = "minimum" /\ kid["left"][x] # nil
  /\ x' = kid["left"][x]
  /\ UNCHANGED <<tree, at, goal, y, content>>

(* What follows the unlinking: the repair loop at c, if the node that left *)
(* its place was black.  free(z) is done at the end in either case.        *)
AfterUnlink(removed, c) ==
  /\ at' = IF removed = "BLACK" THEN "delete_fixup" ELSE "free"
  /\ x' = c
  /\ UNCHANGED <<goal, y, content>>

(* At most one child: rbtree_transplant(z, that child or the sentinel),    *)
(* which sets the sentinel's parent too.                                   *)
delete_unlink ==
  LET c == IF kid["left"][x] = nil THEN kid["right"][x] ELSE kid["left"][x]
  IN  /\ at = "unlink"
      /\ root' = NewRoot(x, c)
      /\ kid' = NewKid(kid, x, c)
      /\ parent' = [parent EXCEPT ![c] = parent[x]]
      /\ AfterUnlink(color[x], c)
      /\ UNCHANGED color

(* Two children: the successor x leaves its place to its right child c and *)
(* takes z's place, z's children and z's colour.                           *)
delete_successor(z) ==
  LET c == kid["right"][x]
      up == IF parent[x] = z THEN x ELSE parent[x]
  IN  /\ at = "minimum" /\ kid["left"][x] = nil /\ z = goal
      /\ root' = NewRoot(z, x)
      /\ kid' = [NewKid(IF up = x THEN kid ELSE [kid EXCEPT !["left"][up] = c], z, x)
                   EXCEPT !["left"][x] = kid["left"][z],
                          !["right"][x] = IF up = x THEN c ELSE kid["right"][z]]
      /\ parent' = [q \in Cells |-> IF q = x THEN parent[z]
                                    ELSE IF q = c THEN up
                                    ELSE IF q \in {kid["left"][z], kid["right"][z]} THEN x
                                    ELSE parent[q]]
      /\ color' = [color EXCEPT ![x] = color[z]]
      /\ AfterUnlink(color[x], c)

(* rbtree_delete_fixup, x on side s of its parent, Sibling its w.  Where   *)
(* the code goes on to the next case of the same iteration, the loop would *)
(* come to that case as well.                                              *)
Sibling(s) == kid[Other(s)][parent[x]]
Near(s) == kid[s][Sibling(s)]
Far(s)  == kid[Other(s)][Sibling(s)]

Repairing(s) == at = "delete_fixup" /\ x # root /\ color[x] = "BLACK" /\ s = SideOf(x)

delete_fixup_red(s) ==
  /\ Repairing(s) /\ color[Sibling(s)] = "RED"
  /\ color' = [color EXCEPT ![Sibling(s)] = "BLACK", ![parent[x]] = "RED"]
  /\ rotate(s, parent[x])
  /\ UNCHANGED <<at, goal, x, y, content>>

(* Mutant: the repair stops instead of going up.                           *)
delete_fixup_up_stops(s) ==
  /\ Repairing(s) /\ color[Sibling(s)] = "BLACK"
  /\ color[Near(s)] = "BLACK" /\ color[Far(s)] = "BLACK"
  /\ color' = [color EXCEPT ![Sibling(s)] = "RED"]
  /\ x' = root
  /\ UNCHANGED <<root, kid, parent, at, goal, y, content>>

(* Mutant: the cursor does not move.                                       *)
delete_fixup_up_stays(s) ==
  /\ Repairing(s) /\ color[Sibling(s)] = "BLACK"
  /\ color[Near(s)] = "BLACK" /\ color[Far(s)] = "BLACK"
  /\ UNCHANGED vars

delete_fixup_up(s) ==
  /\ Repairing(s) /\ color[Sibling(s)] = "BLACK"
  /\ color[Near(s)] = "BLACK" /\ color[Far(s)] = "BLACK"
  /\ color' = [color EXCEPT ![Sibling(s)] = "RED"]
  /\ x' = parent[x]
  /\ UNCHANGED <<root, kid, parent, at, goal, y, content>>

delete_fixup_near(s) ==
  /\ Repairing(s) /\ color[Sibling(s)] = "BLACK"
  /\ color[Near(s)] = "RED" /\ color[Far(s)] = "BLACK"
  /\ color' = [color EXCEPT ![Near(s)] = "BLACK", ![Sibling(s)] = "RED"]
  /\ rotate(Other(s), Sibling(s))
  /\ UNCHANGED <<at, goal, x, y, content>>

delete_fixup_far(s) ==
  /\ Repairing(s) /\ color[Sibling(s)] = "BLACK" /\ color[Far(s)] = "RED"
  /\ color' = [color EXCEPT ![Sibling(s)] = color[parent[x]],
                            ![parent[x]] = "BLACK", ![Far(s)] = "BLACK"]
  /\ rotate(s, parent[x])
  /\ x' = root'
  /\ UNCHANGED <<at, goal, y, content>>

delete_fixup_done ==
  /\ at = "delete_fixup" /\ (x = root \/ color[x] # "BLACK")
  /\ color' = [color EXCEPT ![x] = "BLACK"]
  /\ at' = "free"
  /\ UNCHANGED <<root, kid, parent, goal, x, y, content>>

delete_free ==
  /\ at = "free"
  /\ content' = content \ {goal}
  /\ kid' = [s \in Sides |-> [kid[s] EXCEPT ![goal] = nil]]
  /\ parent' = [parent EXCEPT ![goal] = nil]
  /\ color' = [color EXCEPT ![goal] = "BLACK"]
  /\ at' = "idle" /\ goal' = nil /\ x' = nil
  /\ UNCHANGED <<root, y>>

-----------------------------------------------------------------------------
Step ==
  \/ \E n \in Nodes : insert_descend(n) \/ insert_link(n) \/ delete_successor(n)
  \/ \E s \in Sides :
       \/ insert_fixup_uncle(s) \/ insert_fixup_triangle(s) \/ insert_fixup_line(s)
       \/ delete_fixup_red(s) \/ delete_fixup_up(s)
       \/ delete_fixup_near(s) \/ delete_fixup_far(s)
  \/ insert_done \/ search_step \/ search_fails \/ search_finds \/ minimum_step
  \/ delete_unlink \/ delete_fixup_done \/ delete_free

Next == Step \/ \E n \in Nodes : insert(n) \/ search(n)

(* An operation that was called keeps running.                             *)
Spec == Init /\ [][Next]_vars
FairSpec == Spec /\ WF_vars(Step)

-----------------------------------------------------------------------------
(* The sentinel keeps its colour and never gets children.                  *)
TypeOK ==
  /\ root \in Cells
  /\ kid \in [Sides -> [Cells -> Cells \cup {Junk}]]
  /\ \A s \in Sides : kid[s][nil] = Junk /\ \A n \in Nodes : kid[s][n] # Junk
  /\ parent \in [Cells -> Cells \cup {Junk}] /\ \A n \in Nodes : parent[n] # Junk
  /\ color \in [Cells -> {"RED", "BLACK"}] /\ color[nil] = "BLACK"
  /\ at \in {"idle", "descend", "insert_fixup", "search", "minimum", "unlink",
             "delete_fixup", "free"}
  /\ goal \in Cells /\ x \in Cells /\ y \in Cells
  /\ content \subseteq Nodes

(* The nodes that hang in the tree: a node being deleted is unlinked some  *)
(* steps before it is freed.                                               *)
Live == IF at \in {"delete_fixup", "free"} THEN content \ {goal} ELSE content

(* Child and parent pointers agree after every rotation and transplant,    *)
(* and no pointer of the tree leads to a node that was freed.              *)
Linked ==
  /\ \A n \in Live : \A s \in Sides :
       kid[s][n] # nil => kid[s][n] \in Live /\ parent[kid[s][n]] = n
  /\ \A n \in Live : IF parent[n] = nil THEN root = n
                     ELSE parent[n] \in Live /\ kid[SideOf(n)][parent[n]] = n
  /\ root # nil => root \in Live

(* The nodes below n in order, not more than d levels deep.                *)
Depths == 0 .. Cardinality(Nodes)
InOrder[d \in Depths] ==
  [n \in Cells |-> IF n = nil \/ d = 0 THEN <<>>
                   ELSE InOrder[d - 1][kid["left"][n]] \o <<n>> \o InOrder[d - 1][kid["right"][n]]]

(* In every step of every operation the walk of rbtree_inorder meets       *)
(* exactly the nodes inserted and not yet deleted, each once, with keys    *)
(* that never decrease.                                                    *)
Sorted ==
  LET w == InOrder[Cardinality(Nodes)][root]
  IN  /\ {w[i] : i \in 1 .. Len(w)} = Live /\ Len(w) = Cardinality(Live)
      /\ \A i \in 1 .. Len(w) - 1 : Key(w[i]) <= Key(w[i + 1])

(* The black nodes on the way down from n; -1 if two ways differ.  The     *)
(* cursor of the deletion repair counts once more (it may be the sentinel, *)
(* so it is known by the place where it hangs).                            *)
Weight(n) == IF color[n] = "BLACK" THEN 1 ELSE 0
Extra(n, s) == IF at = "delete_fixup" /\ x # root /\ n = parent[x] /\ s = SideOf(x)
               THEN 1 ELSE 0
BlackHeight[d \in Depths] ==
  [n \in Cells |->
     IF n = nil \/ d = 0 THEN Weight(n)
     ELSE LET l == BlackHeight[d - 1][kid["left"][n]] + Extra(n, "left")
              r == BlackHeight[d - 1][kid["right"][n]] + Extra(n, "right")
          IN  IF l = r /\ l > 0 THEN l + Weight(n) ELSE -1]

(* What verify_rbtree_properties checks between operations holds inside    *)
(* them as well, except at the cursor: all paths have the same number of   *)
(* black nodes, no red node has a red parent and the root is black, where  *)
(* the cursor of the insertion repair may be red regardless, and that of   *)
(* the deletion repair passes for black.                                   *)
RedBlack ==
  LET Repaired(n) == at = "delete_fixup" /\ n = x
      Black(n)    == color[n] = "BLACK" \/ Repaired(n)
  IN  /\ BlackHeight[Cardinality(Nodes)][root] # -1
      /\ \A n \in Live :
           \/ Black(n) \/ (at = "insert_fixup" /\ n = x)
           \/ parent[n] # nil /\ Black(parent[n])

(* In every step of every operation the tree is a red-black tree, but for  *)
(* the cursor of a repair.                                                 *)
IsRedBlackTree == TypeOK /\ Linked /\ Sorted /\ RedBlack

(* A search that ends at the sentinel has missed no node with the key,     *)
(* although rotations may have moved equal keys to either side.            *)
SearchComplete ==
  at = "search" /\ x = nil => \A n \in content : Key(n) # Key(goal)

(* The repair loops end: every operation returns.                          *)
OperationsEnd == at # "idle" ~> at = "idle"

=============================================================================

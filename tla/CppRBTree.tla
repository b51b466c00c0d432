------------------------------ MODULE CppRBTree ------------------------------
(***************************************************************************)
(* The red-black tree of src/DSAlgo/RedBlackTree/RBTree.h, which does      *)
(* without a sentinel: its nil is NULL, no cell of the tree belongs to it, *)
(* and removeFixUp carries the parent of a cursor that may be NULL.  An    *)
(* operation is one step; it is done whenever the same operation of        *)
(* rbtree.c returns, so that the two trees can be compared.                *)
(***************************************************************************)
EXTENDS RBTree

VARIABLE cpp  \* the tree: its root, and kid, parent and color of each node

Null == [n \in Nodes |-> nil]
CppInit == cpp = [root |-> nil, kid |-> [left |-> Null, right |-> Null],
                  parent |-> Null, color |-> [n \in Nodes |-> "BLACK"]]

Paint(t, n, c)     == [t EXCEPT !.color[n] = c]
SetParent(t, n, p) == IF n = nil THEN t ELSE [t EXCEPT !.parent[n] = p]

(* Mutant: a missing node passes for red.                                  *)
NullOrBlack_present(t, n) == n # nil /\ t.color[n] = "BLACK"

NullOrBlack(t, n) == n = nil \/ t.color[n] = "BLACK"

(* v takes the place of u below u's parent, or as the root.                *)
Rehang(t, u, v) ==
  LET p == t.parent[u]
      s == IF t.kid["left"][p] = u THEN "left" ELSE "right"
  IN  IF p = nil THEN [t EXCEPT !.root = v] ELSE [t EXCEPT !.kid[s][p] = v]

(* leftRotate and rightRotate at n, towards side s.                        *)
Rotate(t, s, n) ==
  LET m == t.kid[Other(s)][n]
      c == t.kid[s][m]
      u == SetParent([t EXCEPT !.kid[Other(s)][n] = c], c, n)
  IN  [Rehang(u, n, m) EXCEPT !.parent[m] = t.parent[n], !.kid[s][m] = n, !.parent[n] = m]

-----------------------------------------------------------------------------
(* insert(key), for the node n that new returns.                           *)

RECURSIVE insertFixUp(_, _)
insertFixUp(t, n) ==
  LET p == t.parent[n]
      g == t.parent[p]
      s == IF t.kid["left"][g] = p THEN "left" ELSE "right"
      uncle == t.kid[Other(s)][g]
      bent  == t.kid[Other(s)][p] = n
      u == IF bent THEN Rotate(t, s, p) ELSE t
      top == IF bent THEN n ELSE p
  IN  IF p = nil \/ t.color[p] # "RED" THEN Paint(t, t.root, "BLACK")
      ELSE IF ~NullOrBlack(t, uncle)
      THEN insertFixUp(Paint(Paint(Paint(t, uncle, "BLACK"), p, "BLACK"), g, "RED"), g)
      ELSE insertFixUp(Rotate(Paint(Paint(u, top, "BLACK"), g, "RED"), Other(s), g),
                       IF bent THEN p ELSE n)

Way(n, m) == IF Key(n) < Key(m) THEN "left" ELSE "right"

RECURSIVE Above(_, _, _)
Above(t, n, m) == LET c == t.kid[Way(n, m)][m] IN IF c = nil THEN m ELSE Above(t, n, c)

Insert(t, n) ==
  LET m == IF t.root = nil THEN nil ELSE Above(t, n, t.root)
      u == IF m = nil THEN [t EXCEPT !.root = n] ELSE [t EXCEPT !.kid[Way(n, m)][m] = n]
  IN  insertFixUp([u EXCEPT !.parent[n] = m, !.color[n] = "RED"], n)

-----------------------------------------------------------------------------
(* remove(key).                                                            *)

(* minimum and maximum of the nodes from n on: the last one on side s.     *)
RECURSIVE Extreme(_, _, _)
Extreme(t, s, n) == IF t.kid[s][n] = nil THEN n ELSE Extreme(t, s, t.kid[s][n])

RECURSIVE removeFixUp(_, _, _)
removeFixUp(t, n, p) ==
  LET s == IF t.kid["left"][p] = n THEN "left" ELSE "right"
      w == t.kid[Other(s)][p]
      \* case 1, then the cases of a black sibling o
      u == IF t.color[w] = "RED" THEN Rotate(Paint(Paint(t, w, "BLACK"), p, "RED"), s, p) ELSE t
      o == u.kid[Other(s)][p]
      v == IF NullOrBlack(u, u.kid[Other(s)][o])
           THEN Rotate(Paint(Paint(u, u.kid[s][o], "BLACK"), o, "RED"), Other(s), o) ELSE u
      q == v.kid[Other(s)][p]
      last == Rotate([v EXCEPT !.color[q] = v.color[p], !.color[p] = "BLACK",
                               !.color[v.kid[Other(s)][q]] = "BLACK"], s, p)
  IN  IF ~NullOrBlack(t, n) \/ n = t.root THEN IF n = nil THEN t ELSE Paint(t, n, "BLACK")
      ELSE IF \A d \in Sides : NullOrBlack(u, u.kid[d][o])
      THEN removeFixUp(Paint(u, o, "RED"), p, u.parent[p])
      ELSE Paint(last, last.root, "BLACK")

Repaired(t, removed, n, p) == IF removed = "BLACK" THEN removeFixUp(t, n, p) ELSE t

(* A node with two children: replace, its successor, takes its place.      *)
UnlinkInner(t, n) ==
  LET replace == Extreme(t, "left", t.kid["right"][n])
      child   == t.kid["right"][replace]
      p == IF t.parent[replace] = n THEN replace ELSE t.parent[replace]
      u == Rehang(t, n, replace)
      v == IF p = replace THEN u
           ELSE [SetParent(u, child, p) EXCEPT
                   !.kid["left"][p] = child, !.kid["right"][replace] = t.kid["right"][n],
                   !.parent[t.kid["right"][n]] = replace]
      w == [v EXCEPT !.parent[replace] = t.parent[n], !.color[replace] = t.color[n],
                     !.kid["left"][replace] = t.kid["left"][n],
                     !.parent[t.kid["left"][n]] = replace]
  IN  Repaired(w, t.color[replace], child, p)

UnlinkOuter(t, n) ==
  LET child == IF t.kid["left"][n] # nil THEN t.kid["left"][n] ELSE t.kid["right"][n]
      p == t.parent[n]
  IN  Repaired(Rehang(SetParent(t, child, p), n, child), t.color[n], child, p)

Unlink(t, n) == IF \A s \in Sides : t.kid[s][n] # nil THEN UnlinkInner(t, n) ELSE UnlinkOuter(t, n)

RECURSIVE Search(_, _, _)
Search(t, n, k) == IF n = nil \/ Key(n) = k THEN n
                   ELSE Search(t, t.kid[IF k < Key(n) THEN "left" ELSE "right"][n], k)

Delete(t, n) == [t EXCEPT !.kid["left"][n] = nil, !.kid["right"][n] = nil,
                          !.parent[n] = nil, !.color[n] = "BLACK"]

Remove(t, k) == LET n == Search(t, t.root, k) IN IF n = nil THEN t ELSE Delete(Unlink(t, n), n)

-----------------------------------------------------------------------------

RECURSIVE Climb(_, _, _)
Climb(t, s, n) == LET p == t.parent[n]
                  IN  IF p # nil /\ t.kid[s][p] = n THEN Climb(t, s, p) ELSE p

Neighbour(t, s, n) == IF t.kid[s][n] # nil THEN Extreme(t, Other(s), t.kid[s][n])
                      ELSE Climb(t, s, n)

(* The operation that rbtree.c has just finished.                          *)
CppStep == cpp' = IF at' # "idle" THEN cpp
                  ELSE IF at = "insert_fixup" THEN Insert(cpp, goal)
                  ELSE IF at \in {"free", "search"} THEN Remove(cpp, Key(goal))
                  ELSE cpp

-----------------------------------------------------------------------------
(* RBTree.h and rbtree.c build the same trees, node for node and colour    *)
(* for colour, from the same operations: NULL with a parent carried along  *)
(* does what the sentinel does, and what holds of one tree between         *)
(* operations holds of the other.  No step of RBTree.h looks into NULL.    *)
SameTree ==
  at = "idle" =>
    /\ cpp.root = root
    /\ \A n \in Nodes : /\ \A s \in Sides : cpp.kid[s][n] = kid[s][n]
                        /\ cpp.parent[n] = parent[n] /\ cpp.color[n] = color[n]


=============================================================================

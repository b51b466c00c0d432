---------------------------- MODULE RBTree_proof ----------------------------
(***************************************************************************)
(* rbtree.c for any number of nodes and any keys: a red-black tree at      *)
(* every step of every operation, and a search that misses nothing.        *)
(***************************************************************************)
EXTENDS RBTree, FiniteSetTheorems, SequenceTheorems, WellFoundedInduction, TLAPS

(* A nonempty set of natural numbers has a smallest one: what stands in    *)
(* for induction over the depth of the tree.                               *)
LEMMA Smallest ==
  ASSUME NEW T, T \subseteq Nat, T # {}
  PROVE  \E m \in T : \A k \in T : m <= k
<1>1. PICK R : R = OpToRel(<, Nat)
  OBVIOUS
<1>2. IsWellFoundedOn(R, Nat)
  BY <1>1, NatLessThanWellFounded
<1>3. PICK m \in T : \A k \in T : ~(<<k, m>> \in R)
  BY <1>2, WFMin
<1>4. \A k \in Nat : k < m => <<k, m>> \in R
  BY <1>1 DEF OpToRel
<1>5. \A k \in T : ~(k < m)
  BY <1>3, <1>4
<1>6. \A k \in T : m <= k
  BY <1>5, m \in Nat
<1> QED
  BY <1>6

LEMMA SideFacts ==
  ASSUME NEW s \in Sides
  PROVE  /\ Other(s) \in Sides /\ Other(s) # s /\ Other(Other(s)) = s
         /\ \A t \in Sides : t = s \/ t = Other(s)
BY DEF Sides, Other

-----------------------------------------------------------------------------
(* The shape of a tree, whatever its colours: L are its nodes, rt its      *)
(* root, k and par its pointers, and D[n] is the set of the nodes from n   *)
(* down.                                                                   *)

KidType == [Sides -> [Cells -> Cells \cup {Junk}]]
ParentType == [Cells -> Cells \cup {Junk}]

(* Key(m) is on side s of Key(n), or equal to it.                          *)
Keyed(s, m, n) == IF s = "left" THEN Key(m) <= Key(n) ELSE Key(n) <= Key(m)

LEMMA KeyedFacts ==
  ASSUME NEW s \in Sides, NEW m \in Nodes, NEW n \in Nodes
  PROVE  /\ Keyed(Other(s), m, n) <=> Keyed(s, n, m)
         /\ \A q \in Nodes : Keyed(s, m, n) /\ Keyed(s, n, q) => Keyed(s, m, q)
BY TreeAssumption DEF Sides, Other, Keyed

Links(L, rt, k, par) ==
  /\ \A n \in L : \A s \in Sides :
       k[s][n] # nil => k[s][n] \in L /\ par[k[s][n]] = n
  /\ \A n \in L : IF par[n] = nil THEN rt = n
                  ELSE par[n] \in L /\ \E s \in Sides : k[s][par[n]] = n
  /\ rt # nil => rt \in L

SpanAt(k, D, n, s) ==
  /\ D[n] = D[k[s][n]] \cup {n} \cup D[k[Other(s)][n]]
  /\ D[k[s][n]] \cap D[k[Other(s)][n]] = {}
  /\ n \notin D[k[s][n]] /\ \A m \in D[k[s][n]] : Keyed(s, m, n)

Shape(L, rt, k, par, D) ==
  /\ L \subseteq Nodes /\ rt \in Cells /\ k \in KidType /\ par \in ParentType
  /\ Links(L, rt, k, par)
  /\ D \in [Cells -> SUBSET L] /\ D[nil] = {} /\ D[rt] = L
  /\ \A n \in L : \A s \in Sides : SpanAt(k, D, n, s)

(* A kid is a node of the tree or the sentinel; one side's kids are not    *)
(* the other's.                                                            *)
LEMMA ShapeKids ==
  ASSUME NEW L, NEW rt, NEW k, NEW par, NEW D, Shape(L, rt, k, par, D),
         NEW n \in L, NEW s \in Sides
  PROVE  /\ k[s][n] \in L \cup {nil} /\ n \in Nodes /\ n # nil /\ n \in D[n]
         /\ D[k[s][n]] \subseteq D[n] /\ n \notin D[k[s][n]]
         /\ k[s][n] # nil => /\ k[s][n] \in D[k[s][n]] /\ par[k[s][n]] = n
                             /\ k[s][n] # n /\ k[s][n] # k[Other(s)][n]
<1>1. /\ SpanAt(k, D, n, s) /\ L \subseteq Nodes /\ n \in Nodes /\ n # nil
      /\ k[s][n] # nil => k[s][n] \in L /\ par[k[s][n]] = n
  BY TreeAssumption DEF Shape, Links
<1>2. /\ D[n] = D[k[s][n]] \cup {n} \cup D[k[Other(s)][n]] /\ n \notin D[k[s][n]]
      /\ D[k[s][n]] \cap D[k[Other(s)][n]] = {}
  BY <1>1 DEF SpanAt
<1>3. \A q \in L : q \in D[q]
  BY DEF Shape, SpanAt
<1> QED
  BY <1>1, <1>2, <1>3

(* A node hangs below its parent on one side only.                         *)
LEMMA ShapeParent ==
  ASSUME NEW L, NEW rt, NEW k, NEW par, NEW D, Shape(L, rt, k, par, D),
         NEW n \in L, NEW q \in L, NEW s \in Sides, k[s][q] = n
  PROVE  par[n] = q /\ q # n /\ q \notin D[n] /\ \A t \in Sides : k[t][q] = n => t = s
<1>1. n # nil /\ n \in D[n]
  BY ShapeKids
<1>2. par[n] = q /\ n # k[Other(s)][q] /\ q # n /\ q \notin D[n]
  BY <1>1, ShapeKids
<1> QED
  BY <1>2, SideFacts

LEMMA ShapeRoot ==
  ASSUME NEW L, NEW rt, NEW k, NEW par, NEW D, Shape(L, rt, k, par, D)
  PROVE  /\ rt = nil <=> L = {}
         /\ rt \in L => par[rt] = nil
<1>1. rt # nil => rt \in L
  BY DEF Shape, Links
<1>2. rt = nil => L = {}
  BY DEF Shape
<1>3. ASSUME rt \in L, par[rt] # nil PROVE FALSE
  <2>1. par[rt] \in L /\ \E s \in Sides : k[s][par[rt]] = rt
    BY <1>3 DEF Shape, Links
  <2>2. par[rt] \notin D[rt]
    BY <2>1, <1>3, ShapeParent
  <2> QED
    BY <2>1, <2>2 DEF Shape
<1> QED
  BY <1>1, <1>2, <1>3

-----------------------------------------------------------------------------
(* A rotation at n towards side s: its other kid m comes up, and m's kid c *)
(* on side s goes over to n.  p is n's parent, of which n was the kid on   *)
(* side e.                                                                 *)

Rotated(rt, k, par, s, e, p, n, m, c, rt2, k2, par2) ==
  /\ rt2 = IF p = nil THEN m ELSE rt
  /\ k2 \in KidType /\ par2 \in ParentType
  /\ \A q \in Cells : \A t \in Sides :
       k2[t][q] = IF q = n /\ t = Other(s) THEN c
                  ELSE IF q = m /\ t = s THEN n
                  ELSE IF p # nil /\ q = p /\ t = e THEN m ELSE k[t][q]
  /\ \A q \in Cells :
       par2[q] = IF q = c /\ c # nil THEN n
                 ELSE IF q = m THEN p ELSE IF q = n THEN m ELSE par[q]

(* The five places of a rotation are different.                            *)
Spot(L, rt, k, par, D, s, e, p, n, m, c) ==
  /\ n \in L /\ m \in L /\ c \in L \cup {nil} /\ p \in L \cup {nil}
  /\ m = k[Other(s)][n] /\ c = k[s][m] /\ p = par[n]
  /\ IF p = nil THEN rt = n ELSE k[e][p] = n /\ n # rt
  /\ m # n /\ p # n /\ p # m /\ c # n /\ c # m /\ (c # nil => c # p)

LEMMA RotationSpot ==
  ASSUME NEW L, NEW rt, NEW k, NEW par, NEW D, Shape(L, rt, k, par, D),
         NEW s \in Sides, NEW e \in Sides, NEW n \in L, NEW m, NEW c, NEW p,
         m = k[Other(s)][n], m # nil, c = k[s][m], p = par[n],
         p # nil => k[e][p] = n
  PROVE  Spot(L, rt, k, par, D, s, e, p, n, m, c)
<1>1. Other(s) \in Sides
  BY SideFacts
<1>2. /\ m \in L /\ m # n /\ m \in D[m] /\ D[m] \subseteq D[n] /\ n \notin D[m] /\ n \in D[n]
  BY <1>1, ShapeKids
<1>3. c \in L \cup {nil} /\ D[c] \subseteq D[m] /\ m \notin D[c] /\ (c # nil => c \in D[c])
  BY <1>2, ShapeKids
<1>4. p \in L \cup {nil} /\ (p = nil => rt = n)
  BY DEF Shape, Links
<1>5. p # nil => p # n /\ p \notin D[n]
  BY <1>4, ShapeParent
<1>6. p # nil => n # rt
  BY ShapeRoot
<1>7. n # nil
  BY ShapeKids
<1> QED
  BY <1>2, <1>3, <1>4, <1>5, <1>6, <1>7 DEF Spot

LEMMA RotationLinks ==
  ASSUME NEW L, NEW rt, NEW k, NEW par, NEW D, Shape(L, rt, k, par, D),
         NEW s \in Sides, NEW e \in Sides, NEW n, NEW m, NEW c, NEW p,
         Spot(L, rt, k, par, D, s, e, p, n, m, c),
         NEW rt2, NEW k2, NEW par2, Rotated(rt, k, par, s, e, p, n, m, c, rt2, k2, par2)
  PROVE  Links(L, rt2, k2, par2)
<1>1. /\ n \in L /\ m \in L /\ c \in L \cup {nil} /\ p \in L \cup {nil}
      /\ m = k[Other(s)][n] /\ c = k[s][m] /\ p = par[n]
      /\ IF p = nil THEN rt = n ELSE k[e][p] = n /\ n # rt
      /\ m # n /\ p # n /\ p # m /\ c # n /\ c # m /\ (c # nil => c # p)
  BY DEF Spot
<1>2. /\ rt2 = IF p = nil THEN m ELSE rt
      /\ \A q \in Cells : \A t \in Sides :
           k2[t][q] = IF q = n /\ t = Other(s) THEN c
                      ELSE IF q = m /\ t = s THEN n
                      ELSE IF p # nil /\ q = p /\ t = e THEN m ELSE k[t][q]
      /\ \A q \in Cells :
           par2[q] = IF q = c /\ c # nil THEN n
                     ELSE IF q = m THEN p ELSE IF q = n THEN m ELSE par[q]
  BY DEF Rotated
<1>3. /\ L \subseteq Cells /\ nil \notin L /\ Other(s) \in Sides /\ Other(s) # s
      /\ \A t \in Sides : t = s \/ t = Other(s)
  BY TreeAssumption, SideFacts DEF Shape, Cells
<1>4. /\ \A q \in L : \A t \in Sides : k[t][q] # nil => k[t][q] \in L /\ par[k[t][q]] = q
      /\ \A q \in L : IF par[q] = nil THEN rt = q
                      ELSE par[q] \in L /\ \E t \in Sides : k[t][par[q]] = q
      /\ rt # nil => rt \in L
  BY DEF Shape, Links
<1>5. /\ \A t \in Sides : k[t][n] = m => t = Other(s)
      /\ c # nil => \A t \in Sides : k[t][m] = c => t = s
      /\ p # nil => \A t \in Sides : k[t][p] = n => t = e
  BY <1>1, <1>3, ShapeParent
<1>6. par[m] = n /\ (c # nil => par[c] = m)
  BY <1>1, <1>3, <1>4
<1>7. ASSUME NEW q \in L, NEW t \in Sides, k2[t][q] # nil
      PROVE  k2[t][q] \in L /\ par2[k2[t][q]] = q
  <2>1. CASE q = n /\ t = Other(s)
    BY <2>1, <1>1, <1>2, <1>3, <1>7
  <2>2. CASE q = m /\ t = s
    BY <2>2, <1>1, <1>2, <1>3
  <2>3. CASE p # nil /\ q = p /\ t = e
    BY <2>3, <1>1, <1>2, <1>3
  <2>4. CASE ~(q = n /\ t = Other(s)) /\ ~(q = m /\ t = s) /\ ~(p # nil /\ q = p /\ t = e)
    <3>1. k2[t][q] = k[t][q] /\ k[t][q] \in L /\ par[k[t][q]] = q
      BY <2>4, <1>2, <1>3, <1>4, <1>7
    <3>2. k[t][q] # n /\ k[t][q] # m /\ k[t][q] # c
      BY <2>4, <3>1, <1>1, <1>3, <1>5, <1>6
    <3> QED
      BY <3>1, <3>2, <1>2, <1>3
  <2> QED
    BY <2>1, <2>2, <2>3, <2>4
<1>8. ASSUME NEW q \in L
      PROVE  IF par2[q] = nil THEN rt2 = q
             ELSE par2[q] \in L /\ \E t \in Sides : k2[t][par2[q]] = q
  <2>1. CASE q = c
    BY <2>1, <1>1, <1>2, <1>3
  <2>2. CASE q = m
    BY <2>2, <1>1, <1>2, <1>3
  <2>3. CASE q = n
    BY <2>3, <1>1, <1>2, <1>3
  <2>4. CASE q # c /\ q # m /\ q # n
    <3>1. par2[q] = par[q]
      BY <2>4, <1>2, <1>3
    <3>2. CASE par[q] = nil
      <4>1. rt = q
        BY <3>2, <1>4
      <4> QED
        BY <4>1, <3>1, <3>2, <2>4, <1>1, <1>2
    <3>3. CASE par[q] # nil
      <4>1. PICK t \in Sides : par[q] \in L /\ k[t][par[q]] = q
        BY <3>3, <1>4
      <4>2. k2[t][par[q]] = q
        BY <4>1, <2>4, <1>1, <1>2, <1>3
      <4> QED
        BY <4>1, <4>2, <3>1, <3>3
    <3> QED
      BY <3>2, <3>3
  <2> QED
    BY <2>1, <2>2, <2>3, <2>4
<1>9. rt2 # nil => rt2 \in L
  BY <1>1, <1>2, <1>4
<1> QED
  BY <1>7, <1>8, <1>9 DEF Links

(* What is below n and below m after the rotation.                         *)
RotatedSpan(k, D, s, n, m, c) ==
  [q \in Cells |-> IF q = n THEN D[k[s][n]] \cup {n} \cup D[c]
                   ELSE IF q = m THEN D[n] ELSE D[q]]

LEMMA RotationShape ==
  ASSUME NEW L, NEW rt, NEW k, NEW par, NEW D, Shape(L, rt, k, par, D),
         NEW s \in Sides, NEW e \in Sides, NEW n, NEW m, NEW c, NEW p,
         Spot(L, rt, k, par, D, s, e, p, n, m, c),
         NEW rt2, NEW k2, NEW par2, Rotated(rt, k, par, s, e, p, n, m, c, rt2, k2, par2)
  PROVE  \E D2 : Shape(L, rt2, k2, par2, D2)
<1>1. /\ n \in L /\ m \in L /\ c \in L \cup {nil} /\ p \in L \cup {nil}
      /\ m = k[Other(s)][n] /\ c = k[s][m] /\ p = par[n]
      /\ IF p = nil THEN rt = n ELSE k[e][p] = n /\ n # rt
      /\ m # n /\ p # n /\ p # m /\ c # n /\ c # m /\ (c # nil => c # p)
  BY DEF Spot
<1>2. /\ rt2 = IF p = nil THEN m ELSE rt
      /\ \A q \in Cells : \A t \in Sides :
           k2[t][q] = IF q = n /\ t = Other(s) THEN c
                      ELSE IF q = m /\ t = s THEN n
                      ELSE IF p # nil /\ q = p /\ t = e THEN m ELSE k[t][q]
      /\ k2 \in KidType /\ par2 \in ParentType
  BY DEF Rotated
<1>3. /\ L \subseteq Cells /\ L \subseteq Nodes /\ nil \notin L /\ nil \in Cells
      /\ Other(s) \in Sides /\ Other(s) # s
      /\ \A t \in Sides : t = s \/ t = Other(s)
  BY TreeAssumption, SideFacts DEF Shape, Cells
<1>4. /\ D \in [Cells -> SUBSET L] /\ D[nil] = {} /\ D[rt] = L
      /\ \A q \in L : \A t \in Sides : SpanAt(k, D, q, t)
      /\ \A q \in L : \A t \in Sides : k[t][q] # nil => k[t][q] \in L /\ par[k[t][q]] = q
  BY DEF Shape, Links
<1>5. /\ \A t \in Sides : k[t][n] = m => t = Other(s)
      /\ p # nil => \A t \in Sides : k[t][p] = n => t = e
  BY <1>1, <1>3, ShapeParent
<1>6. par[m] = n
  BY <1>1, <1>3, <1>4
<1>7. PICK a, d : a = k[s][n] /\ d = k[Other(s)][m]
  OBVIOUS
<1>8. /\ a \in L \cup {nil} /\ d \in L \cup {nil}
      /\ a # n /\ a # m /\ d # n /\ d # m
  <2>1. a \in L \cup {nil} /\ (a # nil => a # n /\ a # m)
    BY <1>1, <1>3, <1>7, ShapeKids
  <2>2. d \in L \cup {nil} /\ D[d] \subseteq D[m] /\ (d # nil => d # m /\ d \in D[d])
    BY <1>1, <1>3, <1>7, ShapeKids
  <2>3. n \notin D[m]
    BY <1>1, <1>3, ShapeKids
  <2> QED
    BY <2>1, <2>2, <2>3, <1>1, <1>3
<1>9. PICK E : E = RotatedSpan(k, D, s, n, m, c)
  OBVIOUS
<1>10. /\ E \in [Cells -> SUBSET L] /\ E[n] = D[a] \cup {n} \cup D[c] /\ E[m] = D[n]
       /\ \A q \in Cells : q # n /\ q # m => E[q] = D[q]
  <2>1. D[a] \subseteq L /\ D[c] \subseteq L
    BY <1>1, <1>3, <1>4, <1>8
  <2> QED
    BY <2>1, <1>1, <1>3, <1>4, <1>7, <1>9 DEF RotatedSpan
<1>11. /\ D[n] = D[a] \cup {n} \cup D[m] /\ D[a] \cap D[m] = {} /\ n \notin D[a] /\ n \notin D[m]
       /\ D[m] = D[c] \cup {m} \cup D[d] /\ D[c] \cap D[d] = {} /\ m \notin D[c] /\ m \notin D[d]
       /\ \A q \in D[a] : Keyed(s, q, n)
       /\ \A q \in D[m] : Keyed(Other(s), q, n)
       /\ \A q \in D[c] : Keyed(s, q, m)
       /\ \A q \in D[d] : Keyed(Other(s), q, m)
  <2>1. SpanAt(k, D, n, s) /\ SpanAt(k, D, n, Other(s)) /\ SpanAt(k, D, m, s)
        /\ SpanAt(k, D, m, Other(s))
    BY <1>1, <1>3, <1>4
  <2> QED
    BY <2>1, <1>1, <1>7 DEF SpanAt
<1>12. /\ k2[s][n] = a /\ k2[Other(s)][n] = c /\ k2[s][m] = n /\ k2[Other(s)][m] = d
  BY <1>1, <1>2, <1>3, <1>7
<1>13. E[a] = D[a] /\ E[c] = D[c] /\ E[d] = D[d]
  BY <1>1, <1>3, <1>8, <1>10
<1>14. ASSUME NEW t \in Sides PROVE SpanAt(k2, E, n, t)
  <2>1. D[c] \subseteq D[m]
    BY <1>11
  <2>2. SpanAt(k2, E, n, s)
    BY <2>1, <1>10, <1>11, <1>12, <1>13 DEF SpanAt
  <2>3. SpanAt(k2, E, n, Other(s))
    <3>1. Other(Other(s)) = s
      BY SideFacts
    <3> QED
      BY <3>1, <2>1, <1>10, <1>11, <1>12, <1>13 DEF SpanAt
  <2> QED
    BY <2>2, <2>3, <1>3
<1>15. ASSUME NEW q \in E[n] PROVE Keyed(s, q, m)
  <2>1. Keyed(s, n, m)
    BY <1>1, <1>3, <1>11, KeyedFacts
  <2>2. CASE q \in D[a]
    <3>1. q \in Nodes /\ Keyed(s, q, n)
      BY <2>2, <1>3, <1>4, <1>8, <1>11
    <3> QED
      BY <3>1, <2>1, <1>1, <1>3, KeyedFacts
  <2> QED
    BY <2>1, <2>2, <1>10, <1>11, <1>15
<1>16. ASSUME NEW t \in Sides PROVE SpanAt(k2, E, m, t)
  <2>1. E[m] = E[n] \cup {m} \cup E[d] /\ E[n] \cap E[d] = {} /\ m \notin E[n] /\ m \notin E[d]
    <3>1. E[m] = E[n] \cup {m} \cup E[d]
      BY <1>10, <1>11, <1>13
    <3>2. E[n] \cap E[d] = {}
      BY <1>10, <1>11, <1>13
    <3>3. m \notin E[n] /\ m \notin E[d]
      BY <1>1, <1>10, <1>11, <1>13
    <3> QED
      BY <3>1, <3>2, <3>3
  <2>2. SpanAt(k2, E, m, s)
    BY <2>1, <1>12, <1>15 DEF SpanAt
  <2>3. SpanAt(k2, E, m, Other(s))
    <3>1. Other(Other(s)) = s
      BY SideFacts
    <3> QED
      BY <3>1, <2>1, <1>11, <1>12, <1>13 DEF SpanAt
  <2> QED
    BY <2>2, <2>3, <1>3
<1>17. ASSUME NEW q \in L, q # n, q # m, NEW t \in Sides PROVE E[k2[t][q]] = D[k[t][q]]
  <2>1. CASE p # nil /\ q = p /\ t = e
    BY <2>1, <1>1, <1>2, <1>3, <1>10, <1>17
  <2>2. CASE ~(p # nil /\ q = p /\ t = e)
    <3>1. k2[t][q] = k[t][q]
      BY <2>2, <1>2, <1>3, <1>17
    <3>2. k[t][q] \in Cells
      BY <1>3, <1>4, <1>17
    <3>3. k[t][q] # n
      BY <2>2, <1>1, <1>3, <1>4, <1>5
    <3>4. k[t][q] # m
      BY <1>1, <1>3, <1>4, <1>6, <1>17
    <3> QED
      BY <3>1, <3>2, <3>3, <3>4, <1>10
  <2> QED
    BY <2>1, <2>2
<1>18. ASSUME NEW q \in L, q # n, q # m, NEW t \in Sides PROVE SpanAt(k2, E, q, t)
  <2>1. E[k2[t][q]] = D[k[t][q]] /\ E[k2[Other(t)][q]] = D[k[Other(t)][q]] /\ E[q] = D[q]
    BY <1>3, <1>10, <1>17, <1>18, SideFacts
  <2>2. SpanAt(k, D, q, t)
    BY <1>4
  <2> QED
    BY <2>1, <2>2 DEF SpanAt
<1>19. E[nil] = {} /\ E[rt2] = L
  <2>1. nil # n /\ nil # m
    BY <1>1, <1>3
  <2>2. rt \in Cells /\ rt # m
    <3>1. rt = m => par[m] = nil
      BY <1>1, ShapeRoot
    <3> QED
      BY <3>1, <1>1, <1>3, <1>6 DEF Shape
  <2> QED
    BY <2>1, <2>2, <1>1, <1>2, <1>3, <1>4, <1>10
<1>20. Links(L, rt2, k2, par2)
  BY RotationLinks
<1>21. rt2 \in Cells
  BY <1>1, <1>2, <1>3 DEF Shape
<1> QED
  BY <1>2, <1>3, <1>10, <1>14, <1>16, <1>18, <1>19, <1>20, <1>21 DEF Shape

(* rotate is such a rotation.                                              *)
LEMMA RotateRotates ==
  ASSUME NEW s \in Sides, NEW n \in Nodes, NEW m \in Nodes, NEW c \in Cells,
         root \in Cells, kid \in KidType, parent \in ParentType, parent[n] \in Cells,
         m = kid[Other(s)][n], c = kid[s][m], m # n, rotate(s, n)
  PROVE  Rotated(root, kid, parent, s, SideOf(n), parent[n], n, m, c, root', kid', parent')
<1>1. PICK p, e : p = parent[n] /\ e = SideOf(n)
  OBVIOUS
<1>2. /\ p \in Cells /\ e \in Sides /\ Other(s) \in Sides /\ Other(s) # s
      /\ Nodes \subseteq Cells
  BY <1>1, SideFacts DEF SideOf, Sides, Cells
<1>3. PICK k1 : k1 = NewKid(kid, n, m)
  OBVIOUS
<1>4. k1 = IF p = nil THEN kid ELSE [kid EXCEPT ![e][p] = m]
  BY <1>1, <1>3 DEF NewKid
<1>5. /\ k1 \in KidType
      /\ \A q \in Cells : \A t \in Sides :
           k1[t][q] = IF p # nil /\ q = p /\ t = e THEN m ELSE kid[t][q]
  BY <1>2, <1>4 DEF KidType
<1>6. /\ root' = IF p = nil THEN m ELSE root
      /\ kid' = [k1 EXCEPT ![Other(s)][n] = c, ![s][m] = n]
      /\ parent' = [q \in Cells |-> IF q = c /\ c # nil THEN n
                                    ELSE IF q = m THEN p
                                    ELSE IF q = n THEN m ELSE parent[q]]
  BY <1>1, <1>3 DEF rotate, NewRoot
<1>7. /\ kid' \in KidType
      /\ \A q \in Cells : \A t \in Sides :
           kid'[t][q] = IF q = n /\ t = Other(s) THEN c
                        ELSE IF q = m /\ t = s THEN n ELSE k1[t][q]
  <2>1. PICK k2 : k2 = [k1 EXCEPT ![Other(s)][n] = c]
    OBVIOUS
  <2>2. /\ k2 \in KidType
        /\ \A q \in Cells : \A t \in Sides :
             k2[t][q] = IF q = n /\ t = Other(s) THEN c ELSE k1[t][q]
    BY <2>1, <1>2, <1>5 DEF KidType
  <2>3. kid' = [k2 EXCEPT ![s][m] = n]
    BY <2>1, <1>6
  <2> QED
    BY <2>2, <2>3, <1>2 DEF KidType
<1>8. parent' \in ParentType
  BY <1>2, <1>6 DEF ParentType
<1>9. \A q \in Cells : \A t \in Sides :
        kid'[t][q] = IF q = n /\ t = Other(s) THEN c
                     ELSE IF q = m /\ t = s THEN n
                     ELSE IF p # nil /\ q = p /\ t = e THEN m ELSE kid[t][q]
  BY <1>5, <1>7
<1>10. \A q \in Cells :
         parent'[q] = IF q = c /\ c # nil THEN n
                      ELSE IF q = m THEN p ELSE IF q = n THEN m ELSE parent[q]
  BY <1>6
<1>11. Rotated(root, kid, parent, s, e, p, n, m, c, root', kid', parent')
  BY <1>6, <1>7, <1>8, <1>9, <1>10 DEF Rotated
<1> QED
  BY <1>1, <1>11

-----------------------------------------------------------------------------
(* A kid's nodes are fewer than its parent's.                              *)
LEMMA SpanSize ==
  ASSUME NEW L, NEW rt, NEW k, NEW par, NEW D, Shape(L, rt, k, par, D),
         NEW n \in L, NEW s \in Sides
  PROVE  /\ IsFiniteSet(D[n]) /\ Cardinality(D[n]) \in Nat
         /\ Cardinality(D[k[s][n]]) \in Nat /\ IsFiniteSet(D[k[s][n]])
         /\ Cardinality(D[k[s][n]]) < Cardinality(D[n])
<1>1. /\ D[n] \subseteq Nodes /\ D[k[s][n]] \subseteq D[n] /\ n \in D[n] /\ n \notin D[k[s][n]]
  <2>1. D[n] \subseteq L /\ L \subseteq Nodes
    BY TreeAssumption DEF Shape, Cells
  <2> QED
    BY <2>1, ShapeKids
<1>2. IsFiniteSet(D[n])
  BY <1>1, TreeAssumption, FS_Subset
<1>3. /\ IsFiniteSet(D[k[s][n]]) /\ Cardinality(D[k[s][n]]) <= Cardinality(D[n])
      /\ Cardinality(D[k[s][n]]) = Cardinality(D[n]) => D[k[s][n]] = D[n]
  BY <1>1, <1>2, FS_Subset
<1>4. Cardinality(D[n]) \in Nat /\ Cardinality(D[k[s][n]]) \in Nat
  BY <1>2, <1>3, FS_CardinalityType
<1> QED
  BY <1>1, <1>2, <1>3, <1>4

(* What is below a node below n is below n, and so is its parent.          *)
Nested(par, D, n) ==
  \A m \in D[n] : D[m] \subseteq D[n] /\ (m # n => par[m] \in D[n])

LEMMA SpanNested ==
  ASSUME NEW L, NEW rt, NEW k, NEW par, NEW D, Shape(L, rt, k, par, D), NEW n \in L
  PROVE  Nested(par, D, n)
<1> DEFINE T == {Cardinality(D[q]) : q \in {r \in L : ~Nested(par, D, r)}}
<1>1. SUFFICES ASSUME ~Nested(par, D, n) PROVE FALSE
  OBVIOUS
<1>2. T \subseteq Nat
  <2>1. \A q \in L : Cardinality(D[q]) \in Nat
    BY SpanSize, SideFacts DEF Sides
  <2> QED
    BY <2>1
<1>3. T # {}
  BY <1>1
<1>4. PICK i \in T : \A j \in T : i <= j
  BY <1>2, <1>3, Smallest
<1>5. PICK q \in L : ~Nested(par, D, q) /\ i = Cardinality(D[q])
  BY <1>4
<1>6. ASSUME NEW s \in Sides PROVE k[s][q] # nil => Nested(par, D, k[s][q])
  <2>1. SUFFICES ASSUME k[s][q] # nil, ~Nested(par, D, k[s][q]) PROVE FALSE
    OBVIOUS
  <2>2. k[s][q] \in L
    BY <2>1, ShapeKids
  <2>3. Cardinality(D[k[s][q]]) \in T
    BY <2>1, <2>2
  <2>4. /\ Cardinality(D[k[s][q]]) < Cardinality(D[q])
        /\ Cardinality(D[k[s][q]]) \in Nat /\ Cardinality(D[q]) \in Nat
    BY SpanSize
  <2>5. i <= Cardinality(D[k[s][q]])
    BY <2>3, <1>4
  <2> QED
    BY <2>4, <2>5, <1>5
<1>7. ASSUME NEW s \in Sides, NEW m \in D[k[s][q]]
      PROVE  D[m] \subseteq D[q] /\ par[m] \in D[q]
  <2>1. k[s][q] # nil
    BY <1>7 DEF Shape
  <2>2. Nested(par, D, k[s][q]) /\ D[k[s][q]] \subseteq D[q] /\ par[k[s][q]] = q /\ q \in D[q]
    BY <2>1, <1>6, ShapeKids
  <2> QED
    BY <2>2 DEF Nested
<1>8. /\ D[q] = D[k["left"][q]] \cup {q} \cup D[k["right"][q]]
      /\ "left" \in Sides /\ "right" \in Sides
  BY DEF Shape, SpanAt, Sides, Other
<1>9. Nested(par, D, q)
  BY <1>7, <1>8 DEF Nested
<1> QED
  BY <1>5, <1>9

(* A node hangs on its parent's side towards it: seen from a node a above  *)
(* its parent the two are on the same side.                                *)
LEMMA SpanSide ==
  ASSUME NEW L, NEW rt, NEW k, NEW par, NEW D, Shape(L, rt, k, par, D),
         NEW n \in L, NEW a \in L, NEW s \in Sides, n \in D[k[s][a]]
  PROVE  /\ D[n] \subseteq D[k[s][a]] /\ par[n] # nil
         /\ k[s][a] = n \/ par[n] \in D[k[s][a]]
<1>1. k[s][a] # nil
  BY DEF Shape
<1>2. k[s][a] \in L /\ par[k[s][a]] = a /\ a # nil
  BY <1>1, ShapeKids
<1>3. Nested(par, D, k[s][a])
  BY <1>2, SpanNested
<1>4. D[n] \subseteq D[k[s][a]] /\ (n # k[s][a] => par[n] \in D[k[s][a]])
  BY <1>3 DEF Nested
<1>5. nil \notin D[k[s][a]]
  <2>1. D[k[s][a]] \subseteq L /\ nil \notin L
    BY <1>2, TreeAssumption DEF Shape, Cells
  <2> QED
    BY <2>1
<1> QED
  BY <1>2, <1>4, <1>5

-----------------------------------------------------------------------------
(* A new leaf n below y, on the side where its key belongs.                *)

Way(n, m) == IF Key(n) < Key(m) THEN "left" ELSE "right"

LEMMA WayKeyed ==
  ASSUME NEW n \in Nodes, NEW m \in Nodes
  PROVE  Way(n, m) \in Sides /\ Keyed(Way(n, m), n, m)
BY TreeAssumption DEF Way, Keyed, Sides

(* The side of every node on the way from the root to u is the one for n's *)
(* key.                                                                    *)
OnWay(L, k, D, n, u) ==
  \A a \in L : \A s \in Sides : u \in D[k[s][a]] => s = Way(n, a)

Grafted(rt, k, par, n, u, rt2, k2, par2) ==
  /\ rt2 = IF u = nil THEN n ELSE rt
  /\ k2 \in KidType /\ par2 \in ParentType
  /\ \A q \in Cells : \A t \in Sides :
       k2[t][q] = IF q = n THEN nil
                  ELSE IF q = u /\ u # nil /\ t = Way(n, u) THEN n ELSE k[t][q]
  /\ \A q \in Cells : par2[q] = IF q = n THEN u ELSE par[q]

LEMMA GraftLinks ==
  ASSUME NEW L, NEW rt, NEW k, NEW par, NEW D, Shape(L, rt, k, par, D),
         NEW n \in Nodes, n \notin L, NEW u, IF u = nil THEN rt = nil ELSE u \in L,
         u # nil => k[Way(n, u)][u] = nil,
         NEW rt2, NEW k2, NEW par2, Grafted(rt, k, par, n, u, rt2, k2, par2)
  PROVE  Links(L \cup {n}, rt2, k2, par2)
<1>1. /\ L \subseteq Nodes /\ Nodes \subseteq Cells /\ nil \notin Nodes
      /\ \A q \in L : \A t \in Sides : k[t][q] # nil => k[t][q] \in L /\ par[k[t][q]] = q
      /\ \A q \in L : IF par[q] = nil THEN rt = q
                      ELSE par[q] \in L /\ \E t \in Sides : k[t][par[q]] = q
      /\ rt # nil => rt \in L
  BY TreeAssumption DEF Shape, Links, Cells
<1>2. /\ rt2 = IF u = nil THEN n ELSE rt
      /\ \A q \in Cells : \A t \in Sides :
           k2[t][q] = IF q = n THEN nil
                      ELSE IF q = u /\ u # nil /\ t = Way(n, u) THEN n ELSE k[t][q]
      /\ \A q \in Cells : par2[q] = IF q = n THEN u ELSE par[q]
  BY DEF Grafted
<1>3. u # nil => Way(n, u) \in Sides
  BY DEF Way, Sides
<1>4. ASSUME NEW q \in L \cup {n}, NEW t \in Sides, k2[t][q] # nil
      PROVE  k2[t][q] \in L \cup {n} /\ par2[k2[t][q]] = q
  <2>1. CASE q = u /\ u # nil /\ t = Way(n, u)
    BY <2>1, <1>1, <1>2, <1>4
  <2>2. CASE ~(q = u /\ u # nil /\ t = Way(n, u))
    <3>1. q # n /\ k2[t][q] = k[t][q]
      BY <2>2, <1>1, <1>2, <1>4
    <3>2. k[t][q] \in L /\ par[k[t][q]] = q
      BY <3>1, <1>1, <1>4
    <3> QED
      BY <3>1, <3>2, <1>1, <1>2
  <2> QED
    BY <2>1, <2>2
<1>5. ASSUME NEW q \in L \cup {n}
      PROVE  IF par2[q] = nil THEN rt2 = q
             ELSE par2[q] \in L \cup {n} /\ \E t \in Sides : k2[t][par2[q]] = q
  <2>1. CASE q = n
    <3>1. par2[q] = u /\ (u # nil => u # n)
      BY <2>1, <1>1, <1>2
    <3>2. u # nil => k2[Way(n, u)][u] = n
      BY <3>1, <1>1, <1>2, <1>3
    <3> QED
      BY <2>1, <3>1, <3>2, <1>2, <1>3
  <2>2. CASE q # n
    <3>1. q \in L /\ par2[q] = par[q]
      BY <2>2, <1>1, <1>2
    <3>2. CASE par[q] = nil
      BY <3>1, <3>2, <1>1, <1>2
    <3>3. CASE par[q] # nil
      <4>1. PICK t \in Sides : par[q] \in L /\ k[t][par[q]] = q
        BY <3>1, <3>3, <1>1
      <4>2. k2[t][par[q]] = q
        BY <4>1, <3>1, <1>1, <1>2
      <4> QED
        BY <3>1, <3>3, <4>1, <4>2
    <3> QED
      BY <3>2, <3>3
  <2> QED
    BY <2>1, <2>2
<1>6. rt2 # nil => rt2 \in L \cup {n}
  BY <1>1, <1>2
<1> QED
  BY <1>4, <1>5, <1>6 DEF Links

GraftedSpan(D, n, u) ==
  [q \in Cells |-> IF q = n THEN {n} ELSE IF u \in D[q] THEN D[q] \cup {n} ELSE D[q]]

LEMMA GraftShape ==
  ASSUME NEW L, NEW rt, NEW k, NEW par, NEW D, Shape(L, rt, k, par, D),
         NEW n \in Nodes, n \notin L, NEW u, IF u = nil THEN rt = nil ELSE u \in L,
         u # nil => k[Way(n, u)][u] = nil, OnWay(L, k, D, n, u),
         NEW rt2, NEW k2, NEW par2, Grafted(rt, k, par, n, u, rt2, k2, par2)
  PROVE  \E D2 : Shape(L \cup {n}, rt2, k2, par2, D2)
<1>1. /\ L \subseteq Nodes /\ Nodes \subseteq Cells /\ nil \notin Nodes /\ nil \in Cells
      /\ D \in [Cells -> SUBSET L] /\ D[nil] = {} /\ D[rt] = L /\ rt \in Cells
      /\ \A q \in L : \A t \in Sides : SpanAt(k, D, q, t)
  BY TreeAssumption DEF Shape, Cells
<1>2. /\ rt2 = IF u = nil THEN n ELSE rt
      /\ k2 \in KidType /\ par2 \in ParentType
      /\ \A q \in Cells : \A t \in Sides :
           k2[t][q] = IF q = n THEN nil
                      ELSE IF q = u /\ u # nil /\ t = Way(n, u) THEN n ELSE k[t][q]
  BY DEF Grafted
<1>3. PICK E : E = GraftedSpan(D, n, u)
  OBVIOUS
<1>4. /\ E \in [Cells -> SUBSET (L \cup {n})] /\ E[n] = {n}
      /\ \A q \in Cells : q # n => E[q] = IF u \in D[q] THEN D[q] \cup {n} ELSE D[q]
  BY <1>1, <1>3 DEF GraftedSpan
<1>5. E[nil] = {} /\ E[rt2] = L \cup {n}
  <2>1. E[nil] = {}
    BY <1>1, <1>4
  <2>2. u = nil => L = {}
    BY <1>1
  <2>3. u # nil => rt2 = rt /\ u \in D[rt] /\ rt # n
    <3>1. u # nil => rt # nil /\ (rt # nil => rt \in L)
      BY <1>1, ShapeRoot DEF Shape, Links
    <3> QED
      BY <3>1, <1>1, <1>2
  <2> QED
    BY <2>1, <2>2, <2>3, <1>1, <1>2, <1>4
<1>6. ASSUME NEW t \in Sides PROVE SpanAt(k2, E, n, t)
  <2>1. k2[t][n] = nil /\ k2[Other(t)][n] = nil
    BY <1>1, <1>2, SideFacts
  <2> QED
    BY <2>1, <1>4, <1>5 DEF SpanAt
<1>7. ASSUME NEW q \in L, NEW t \in Sides
      PROVE  /\ k[t][q] \in L \cup {nil} /\ D[k[t][q]] \subseteq L
             /\ E[k2[t][q]] = IF u \in D[k[t][q]] \/ (q = u /\ u # nil /\ t = Way(n, u))
                              THEN D[k[t][q]] \cup {n} ELSE D[k[t][q]]
  <2>1. k[t][q] \in L \cup {nil}
    BY ShapeKids
  <2>2. D[k[t][q]] \subseteq L
    BY <2>1, <1>1
  <2>3. CASE q = u /\ u # nil /\ t = Way(n, u)
    <3>1. k[t][q] = nil /\ k2[t][q] = n
      BY <2>3, <1>1, <1>2
    <3> QED
      BY <3>1, <2>1, <2>2, <2>3, <1>1, <1>4
  <2>4. CASE ~(q = u /\ u # nil /\ t = Way(n, u))
    <3>1. k2[t][q] = k[t][q] /\ k[t][q] # n /\ k[t][q] \in Cells
      BY <2>1, <2>4, <1>1, <1>2
    <3> QED
      BY <3>1, <2>1, <2>2, <2>4, <1>4
  <2> QED
    BY <2>3, <2>4
<1>8. ASSUME NEW q \in L, NEW t \in Sides PROVE SpanAt(k2, E, q, t)
  <2>1. PICK a, d : a = k[t][q] /\ d = k[Other(t)][q]
    OBVIOUS
  <2>2. Other(t) \in Sides /\ Other(t) # t
    BY SideFacts
  <2>3. /\ D[q] = D[a] \cup {q} \cup D[d] /\ D[a] \cap D[d] = {} /\ q \notin D[a]
        /\ \A m \in D[a] : Keyed(t, m, q)
    BY <2>1, <1>1 DEF SpanAt
  <2>4. q \notin D[d]
    BY <2>1, <2>2, ShapeKids
  <2>5. /\ D[a] \subseteq L /\ D[d] \subseteq L
        /\ E[k2[t][q]] = IF u \in D[a] \/ (q = u /\ u # nil /\ t = Way(n, u))
                         THEN D[a] \cup {n} ELSE D[a]
        /\ E[k2[Other(t)][q]] = IF u \in D[d] \/ (q = u /\ u # nil /\ Other(t) = Way(n, u))
                                THEN D[d] \cup {n} ELSE D[d]
    BY <2>1, <2>2, <1>7
  <2>6. E[q] = IF u \in D[q] THEN D[q] \cup {n} ELSE D[q]
    BY <1>1, <1>4
  <2>7. Way(n, q) \in Sides /\ Keyed(Way(n, q), n, q) /\ n # q /\ q # nil
    BY <1>1, WayKeyed
  <2>8. u \in D[a] => t = Way(n, q)
    BY <2>1 DEF OnWay
  <2>9. ~(u \in D[a] /\ q = u) /\ ~(u \in D[d] /\ q = u) /\ ~(u \in D[a] /\ u \in D[d])
    BY <2>3, <2>4
  <2>10. u = q => (Way(n, u) = t \/ Way(n, u) = Other(t))
    BY <2>7, SideFacts
  <2>11. E[q] = E[k2[t][q]] \cup {q} \cup E[k2[Other(t)][q]]
    <3>1. CASE u = q
      <4>1. u \in D[q] /\ u # nil /\ u \notin D[a] /\ u \notin D[d]
        BY <3>1, <2>3, <2>7, <2>9
      <4> QED
        BY <4>1, <3>1, <2>3, <2>5, <2>6, <2>10
    <3>2. CASE u # q
      <4>1. u \in D[q] <=> u \in D[a] \/ u \in D[d]
        BY <3>2, <2>3
      <4> QED
        BY <4>1, <3>2, <2>3, <2>5, <2>6
    <3> QED
      BY <3>1, <3>2
  <2>12. E[k2[t][q]] \cap E[k2[Other(t)][q]] = {}
    BY <2>2, <2>3, <2>5, <2>9
  <2>13. q \notin E[k2[t][q]] /\ \A m \in E[k2[t][q]] : Keyed(t, m, q)
    BY <2>3, <2>5, <2>7, <2>8
  <2> QED
    BY <2>11, <2>12, <2>13 DEF SpanAt
<1>9. Links(L \cup {n}, rt2, k2, par2)
  BY GraftLinks
<1>10. rt2 \in Cells
  BY <1>1, <1>2
<1> QED
  BY <1>1, <1>2, <1>4, <1>5, <1>6, <1>8, <1>9, <1>10 DEF Shape

-----------------------------------------------------------------------------
(* Taking out a node n of which one kid is the sentinel: the other, c,     *)
(* takes its place.  p is n's parent, of which n was the kid on side e.    *)

Cut(L, rt, k, par, e, p, n, c, rt2, k2, par2) ==
  /\ rt2 = IF p = nil THEN c ELSE rt
  /\ k2 \in KidType /\ par2 \in ParentType
  /\ \A q \in L \ {n} : \A t \in Sides :
       k2[t][q] = IF p # nil /\ q = p /\ t = e THEN c ELSE k[t][q]
  /\ \A q \in L \ {n} : par2[q] = IF q = c THEN p ELSE par[q]

CutSpot(L, rt, k, par, e, p, n, c) ==
  /\ n \in L /\ p = par[n] /\ e \in Sides /\ (p # nil => k[e][p] = n)
  /\ \E s \in Sides : k[s][n] = nil /\ c = k[Other(s)][n]

(* The places of a cut are different.                                      *)
LEMMA CutFacts ==
  ASSUME NEW L, NEW rt, NEW k, NEW par, NEW D, Shape(L, rt, k, par, D),
         NEW e, NEW p, NEW n, NEW c, CutSpot(L, rt, k, par, e, p, n, c)
  PROVE  /\ c \in (L \ {n}) \cup {nil} /\ p \in (L \ {n}) \cup {nil}
         /\ IF p = nil THEN rt = n ELSE k[e][p] = n /\ rt # n
         /\ c # nil => par[c] = n /\ c # p /\ c # rt
         /\ D[n] = D[c] \cup {n} /\ n \notin D[c]
         /\ \A t \in Sides : k[t][n] = nil \/ k[t][n] = c
<1>1. /\ n \in L /\ p = par[n] /\ e \in Sides /\ (p # nil => k[e][p] = n)
  BY DEF CutSpot
<1>2. PICK s \in Sides : k[s][n] = nil /\ c = k[Other(s)][n]
  BY DEF CutSpot
<1>3. Other(s) \in Sides /\ \A t \in Sides : t = s \/ t = Other(s)
  BY SideFacts
<1>4. /\ c \in L \cup {nil} /\ n # nil /\ n \notin D[c] /\ D[c] \subseteq D[n]
      /\ c # nil => c \in D[c] /\ par[c] = n /\ c # n
  BY <1>1, <1>2, <1>3, ShapeKids
<1>5. p \in L \cup {nil} /\ (p = nil => rt = n)
  BY <1>1 DEF Shape, Links
<1>6. p # nil => p # n /\ p \notin D[n]
  BY <1>1, <1>5, ShapeParent
<1>7. (p # nil => rt # n) /\ (c # nil => c # rt)
  BY <1>1, <1>4, ShapeRoot
<1>8. D[n] = D[c] \cup {n}
  BY <1>1, <1>2 DEF Shape, SpanAt
<1> QED
  BY <1>1, <1>2, <1>3, <1>4, <1>5, <1>6, <1>7, <1>8

LEMMA CutLinks ==
  ASSUME NEW L, NEW rt, NEW k, NEW par, NEW D, Shape(L, rt, k, par, D),
         NEW e, NEW p, NEW n, NEW c, CutSpot(L, rt, k, par, e, p, n, c),
         NEW rt2, NEW k2, NEW par2, Cut(L, rt, k, par, e, p, n, c, rt2, k2, par2)
  PROVE  Links(L \ {n}, rt2, k2, par2)
<1>1. /\ c \in (L \ {n}) \cup {nil} /\ p \in (L \ {n}) \cup {nil}
      /\ IF p = nil THEN rt = n ELSE k[e][p] = n /\ rt # n
      /\ c # nil => par[c] = n /\ c # p /\ c # rt
      /\ \A t \in Sides : k[t][n] = nil \/ k[t][n] = c
  BY CutFacts
<1>2. /\ rt2 = IF p = nil THEN c ELSE rt
      /\ \A q \in L \ {n} : \A t \in Sides :
           k2[t][q] = IF p # nil /\ q = p /\ t = e THEN c ELSE k[t][q]
      /\ \A q \in L \ {n} : par2[q] = IF q = c THEN p ELSE par[q]
  BY DEF Cut
<1>3. /\ \A q \in L : \A t \in Sides : k[t][q] # nil => k[t][q] \in L /\ par[k[t][q]] = q
      /\ \A q \in L : IF par[q] = nil THEN rt = q
                      ELSE par[q] \in L /\ \E t \in Sides : k[t][par[q]] = q
      /\ rt # nil => rt \in L
      /\ n \in L /\ p = par[n] /\ e \in Sides /\ nil \notin L
  BY TreeAssumption DEF Shape, Links, CutSpot
<1>4. p # nil => \A t \in Sides : k[t][p] = n => t = e
  BY <1>1, <1>3, ShapeParent
<1>5. ASSUME NEW q \in L \ {n}, NEW t \in Sides, k2[t][q] # nil
      PROVE  k2[t][q] \in L \ {n} /\ par2[k2[t][q]] = q
  <2>1. CASE p # nil /\ q = p /\ t = e
    BY <2>1, <1>1, <1>2, <1>5
  <2>2. CASE ~(p # nil /\ q = p /\ t = e)
    <3>1. k2[t][q] = k[t][q] /\ k[t][q] \in L /\ par[k[t][q]] = q
      BY <2>2, <1>2, <1>3, <1>5
    <3>2. k[t][q] # n
      BY <2>2, <3>1, <1>3, <1>4, <1>5
    <3>3. k[t][q] # c
      BY <3>1, <1>1, <1>3, <1>5
    <3> QED
      BY <3>1, <3>2, <3>3, <1>2
  <2> QED
    BY <2>1, <2>2
<1>6. ASSUME NEW q \in L \ {n}
      PROVE  IF par2[q] = nil THEN rt2 = q
             ELSE par2[q] \in L \ {n} /\ \E t \in Sides : k2[t][par2[q]] = q
  <2>1. CASE q = c
    BY <2>1, <1>1, <1>2, <1>3
  <2>2. CASE q # c
    <3>1. par2[q] = par[q]
      BY <2>2, <1>2
    <3>2. CASE par[q] = nil
      <4>1. rt = q
        BY <3>2, <1>3
      <4>2. p # nil
        BY <4>1, <1>1
      <4> QED
        BY <3>1, <3>2, <4>1, <4>2, <1>2
    <3>3. CASE par[q] # nil
      <4>1. PICK t \in Sides : par[q] \in L /\ k[t][par[q]] = q
        BY <3>3, <1>3
      <4>2. par[q] # n
        BY <4>1, <2>2, <1>1, <1>3
      <4>3. ~(p # nil /\ par[q] = p /\ t = e)
        BY <4>1, <1>1
      <4>4. k2[t][par[q]] = q
        BY <4>1, <4>2, <4>3, <1>2
      <4> QED
        BY <3>1, <3>3, <4>1, <4>2, <4>4
    <3> QED
      BY <3>2, <3>3
  <2> QED
    BY <2>1, <2>2
<1>7. rt2 # nil => rt2 \in L \ {n}
  BY <1>1, <1>2, <1>3
<1> QED
  BY <1>5, <1>6, <1>7 DEF Links

CutSpan(D, n) == [q \in Cells |-> D[q] \ {n}]

LEMMA CutShape ==
  ASSUME NEW L, NEW rt, NEW k, NEW par, NEW D, Shape(L, rt, k, par, D),
         NEW e, NEW p, NEW n, NEW c, CutSpot(L, rt, k, par, e, p, n, c),
         NEW rt2, NEW k2, NEW par2, Cut(L, rt, k, par, e, p, n, c, rt2, k2, par2)
  PROVE  Shape(L \ {n}, rt2, k2, par2, CutSpan(D, n))
<1>1. /\ c \in (L \ {n}) \cup {nil} /\ p \in (L \ {n}) \cup {nil}
      /\ IF p = nil THEN rt = n ELSE k[e][p] = n /\ rt # n
      /\ D[n] = D[c] \cup {n} /\ n \notin D[c]
  BY CutFacts
<1>2. /\ rt2 = IF p = nil THEN c ELSE rt
      /\ k2 \in KidType /\ par2 \in ParentType
      /\ \A q \in L \ {n} : \A t \in Sides :
           k2[t][q] = IF p # nil /\ q = p /\ t = e THEN c ELSE k[t][q]
  BY DEF Cut
<1>3. /\ L \subseteq Nodes /\ L \subseteq Cells /\ nil \notin L /\ nil \in Cells /\ n \in L
      /\ D \in [Cells -> SUBSET L] /\ D[nil] = {} /\ D[rt] = L /\ rt \in Cells
      /\ \A q \in L : \A t \in Sides : SpanAt(k, D, q, t)
  BY TreeAssumption DEF Shape, Cells, CutSpot
<1>4. PICK E : E = CutSpan(D, n)
  OBVIOUS
<1>5. /\ E \in [Cells -> SUBSET (L \ {n})]
      /\ \A q \in Cells : E[q] = D[q] \ {n}
  BY <1>3, <1>4 DEF CutSpan
<1>6. E[nil] = {} /\ E[rt2] = L \ {n}
  BY <1>1, <1>2, <1>3, <1>5
<1>7. ASSUME NEW q \in L \ {n}, NEW t \in Sides PROVE E[k2[t][q]] = D[k[t][q]] \ {n}
  <2>1. CASE p # nil /\ q = p /\ t = e
    BY <2>1, <1>1, <1>2, <1>3, <1>5
  <2>2. CASE ~(p # nil /\ q = p /\ t = e)
    <3>1. k2[t][q] = k[t][q] /\ k[t][q] \in L \cup {nil}
      BY <2>2, <1>2, ShapeKids
    <3> QED
      BY <3>1, <1>3, <1>5
  <2> QED
    BY <2>1, <2>2
<1>8. ASSUME NEW q \in L \ {n}, NEW t \in Sides PROVE SpanAt(k2, E, q, t)
  <2>1. E[k2[t][q]] = D[k[t][q]] \ {n} /\ E[k2[Other(t)][q]] = D[k[Other(t)][q]] \ {n}
    BY <1>7, SideFacts
  <2>2. E[q] = D[q] \ {n} /\ SpanAt(k, D, q, t)
    BY <1>3, <1>5
  <2> QED
    BY <2>1, <2>2 DEF SpanAt
<1>9. Links(L \ {n}, rt2, k2, par2)
  BY CutLinks
<1>10. rt2 \in Cells
  BY <1>1, <1>2, <1>3
<1> QED
  BY <1>2, <1>3, <1>4, <1>5, <1>6, <1>8, <1>9, <1>10 DEF Shape

-----------------------------------------------------------------------------
(* A node n from outside the tree takes the place of z.                    *)

Replaced(L, rt, k, par, z, n, rt2, k2, par2) ==
  /\ rt2 = IF rt = z THEN n ELSE rt
  /\ k2 \in KidType /\ par2 \in ParentType
  /\ \A t \in Sides : k2[t][n] = k[t][z] /\ par2[n] = par[z]
  /\ \A q \in L \ {z} : \A t \in Sides : k2[t][q] = IF k[t][q] = z THEN n ELSE k[t][q]
  /\ \A q \in L \ {z} : par2[q] = IF par[q] = z THEN n ELSE par[q]

LEMMA ReplaceLinks ==
  ASSUME NEW L, NEW rt, NEW k, NEW par, NEW D, Shape(L, rt, k, par, D),
         NEW z \in L, NEW n \in Nodes \ L, NEW rt2, NEW k2, NEW par2,
         Replaced(L, rt, k, par, z, n, rt2, k2, par2)
  PROVE  Links((L \ {z}) \cup {n}, rt2, k2, par2)
<1>1. /\ \A q \in L : \A t \in Sides : k[t][q] # nil => k[t][q] \in L /\ par[k[t][q]] = q
      /\ \A q \in L : IF par[q] = nil THEN rt = q
                      ELSE par[q] \in L /\ \E t \in Sides : k[t][par[q]] = q
      /\ rt # nil => rt \in L
      /\ nil \notin L /\ n # nil
  BY TreeAssumption DEF Shape, Links
<1>2. /\ rt2 = IF rt = z THEN n ELSE rt
      /\ \A t \in Sides : k2[t][n] = k[t][z] /\ par2[n] = par[z]
      /\ \A q \in L \ {z} : \A t \in Sides : k2[t][q] = IF k[t][q] = z THEN n ELSE k[t][q]
      /\ \A q \in L \ {z} : par2[q] = IF par[q] = z THEN n ELSE par[q]
  BY DEF Replaced
<1>3. \A t \in Sides : k[t][z] # z
  BY ShapeKids, <1>1
<1>4. par[z] # z
  BY <1>1, <1>3
<1>5. ASSUME NEW q \in (L \ {z}) \cup {n}, NEW t \in Sides, k2[t][q] # nil
      PROVE  k2[t][q] \in (L \ {z}) \cup {n} /\ par2[k2[t][q]] = q
  <2>1. CASE q = n
    BY <2>1, <1>1, <1>2, <1>3, <1>5
  <2>2. CASE q # n /\ k[t][q] = z
    BY <2>2, <1>1, <1>2, <1>5
  <2>3. CASE q # n /\ k[t][q] # z
    BY <2>3, <1>1, <1>2, <1>5
  <2> QED
    BY <2>1, <2>2, <2>3
<1>6. ASSUME NEW q \in (L \ {z}) \cup {n}
      PROVE  IF par2[q] = nil THEN rt2 = q
             ELSE par2[q] \in (L \ {z}) \cup {n} /\ \E t \in Sides : k2[t][par2[q]] = q
  <2>1. "left" \in Sides
    BY DEF Sides
  <2>2. CASE q = n
    <3>1. par2[n] = par[z]
      BY <1>2, <2>1
    <3>2. CASE par[z] = nil
      BY <2>2, <3>1, <3>2, <1>1, <1>2
    <3>3. CASE par[z] # nil
      <4>1. PICK t \in Sides : par[z] \in L /\ k[t][par[z]] = z
        BY <3>3, <1>1
      <4> QED
        BY <2>2, <3>1, <3>3, <4>1, <1>2, <1>4
    <3> QED
      BY <3>2, <3>3
  <2>3. CASE q # n /\ par[q] = z
    <3>1. q \in L \ {z} /\ par2[q] = n
      BY <2>3, <1>2
    <3>2. PICK t \in Sides : k[t][z] = q
      BY <2>3, <3>1, <1>1
    <3> QED
      BY <3>1, <3>2, <1>1, <1>2
  <2>4. CASE q # n /\ par[q] # z
    <3>1. q \in L \ {z} /\ par2[q] = par[q]
      BY <2>4, <1>2
    <3>2. CASE par[q] = nil
      BY <3>1, <3>2, <1>1, <1>2
    <3>3. CASE par[q] # nil
      <4>1. PICK t \in Sides : par[q] \in L /\ k[t][par[q]] = q
        BY <3>1, <3>3, <1>1
      <4> QED
        BY <2>4, <3>1, <3>3, <4>1, <1>2
    <3> QED
      BY <3>2, <3>3
  <2> QED
    BY <2>2, <2>3, <2>4
<1>7. rt2 # nil => rt2 \in (L \ {z}) \cup {n}
  BY <1>1, <1>2
<1> QED
  BY <1>5, <1>6, <1>7 DEF Links

(* n's key fits where z is.                                                *)
Fits(L, k, D, z, n) ==
  /\ \A t \in Sides : \A m \in D[k[t][z]] : Keyed(t, m, n)
  /\ \A a \in L \ {z} : \A t \in Sides : z \in D[k[t][a]] => Keyed(t, n, a)

ReplacedSpan(D, z, n) ==
  [q \in Cells |-> IF q = n THEN (D[z] \ {z}) \cup {n}
                   ELSE IF z \in D[q] THEN (D[q] \ {z}) \cup {n} ELSE D[q]]

LEMMA ReplaceShape ==
  ASSUME NEW L, NEW rt, NEW k, NEW par, NEW D, Shape(L, rt, k, par, D),
         NEW z \in L, NEW n \in Nodes \ L, NEW rt2, NEW k2, NEW par2,
         Replaced(L, rt, k, par, z, n, rt2, k2, par2), Fits(L, k, D, z, n)
  PROVE  \E D2 : Shape((L \ {z}) \cup {n}, rt2, k2, par2, D2)
<1>1. /\ L \subseteq Nodes /\ L \subseteq Cells /\ nil \notin Nodes /\ nil \in Cells /\ n \in Cells
      /\ D \in [Cells -> SUBSET L] /\ D[nil] = {} /\ D[rt] = L /\ rt \in Cells
      /\ \A q \in L : \A t \in Sides : SpanAt(k, D, q, t)
      /\ rt # nil => rt \in L
  BY TreeAssumption DEF Shape, Cells, Links
<1>2. /\ rt2 = IF rt = z THEN n ELSE rt
      /\ k2 \in KidType /\ par2 \in ParentType
      /\ \A t \in Sides : k2[t][n] = k[t][z]
      /\ \A q \in L \ {z} : \A t \in Sides : k2[t][q] = IF k[t][q] = z THEN n ELSE k[t][q]
  BY DEF Replaced
<1>3. PICK E : E = ReplacedSpan(D, z, n)
  OBVIOUS
<1>4. /\ E \in [Cells -> SUBSET ((L \ {z}) \cup {n})] /\ E[n] = (D[z] \ {z}) \cup {n}
      /\ \A q \in Cells : q # n => E[q] = IF z \in D[q] THEN (D[q] \ {z}) \cup {n} ELSE D[q]
  <2>1. \A q \in Cells : D[q] \subseteq L
    BY <1>1
  <2> QED
    BY <2>1, <1>1, <1>3 DEF ReplacedSpan
<1>5. z \in D[z] /\ z # nil
  BY "left" \in Sides, ShapeKids DEF Sides
<1>6. E[nil] = {} /\ E[rt2] = (L \ {z}) \cup {n}
  <2>1. E[nil] = {}
    BY <1>1, <1>4
  <2>2. rt # n
    BY <1>1
  <2> QED
    BY <2>1, <2>2, <1>1, <1>2, <1>4
<1>7. ASSUME NEW q \in L \ {z}, NEW t \in Sides
      PROVE  E[k2[t][q]] = IF z \in D[k[t][q]] THEN (D[k[t][q]] \ {z}) \cup {n} ELSE D[k[t][q]]
  <2>1. k[t][q] \in L \cup {nil}
    BY ShapeKids
  <2>2. CASE k[t][q] = z
    BY <2>2, <1>2, <1>4, <1>5
  <2>3. CASE k[t][q] # z
    BY <2>1, <2>3, <1>1, <1>2, <1>4
  <2> QED
    BY <2>2, <2>3
<1>8. ASSUME NEW q \in L \ {z}, NEW t \in Sides PROVE SpanAt(k2, E, q, t)
  <2>1. PICK a, d : a = k[t][q] /\ d = k[Other(t)][q]
    OBVIOUS
  <2>2. Other(t) \in Sides
    BY SideFacts
  <2>3. /\ D[q] = D[a] \cup {q} \cup D[d] /\ D[a] \cap D[d] = {} /\ q \notin D[a]
        /\ \A m \in D[a] : Keyed(t, m, q)
    BY <2>1, <1>1 DEF SpanAt
  <2>4. /\ E[k2[t][q]] = IF z \in D[a] THEN (D[a] \ {z}) \cup {n} ELSE D[a]
        /\ E[k2[Other(t)][q]] = IF z \in D[d] THEN (D[d] \ {z}) \cup {n} ELSE D[d]
    BY <2>1, <2>2, <1>7
  <2>5. E[q] = IF z \in D[q] THEN (D[q] \ {z}) \cup {n} ELSE D[q]
    BY <1>1, <1>4
  <2>6. n \notin D[q] /\ q # n
    BY <1>1
  <2>7. E[q] = E[k2[t][q]] \cup {q} \cup E[k2[Other(t)][q]]
    BY <2>3, <2>4, <2>5
  <2>8. E[k2[t][q]] \cap E[k2[Other(t)][q]] = {}
    BY <2>3, <2>4, <2>6
  <2>9. z \in D[a] => Keyed(t, n, q)
    BY <2>1 DEF Fits
  <2>10. q \notin E[k2[t][q]] /\ \A m \in E[k2[t][q]] : Keyed(t, m, q)
    BY <2>3, <2>4, <2>6, <2>9
  <2> QED
    BY <2>7, <2>8, <2>10 DEF SpanAt
<1>9. ASSUME NEW t \in Sides PROVE SpanAt(k2, E, n, t)
  <2>1. PICK a, d : a = k[t][z] /\ d = k[Other(t)][z]
    OBVIOUS
  <2>2. Other(t) \in Sides
    BY SideFacts
  <2>3. D[z] = D[a] \cup {z} \cup D[d] /\ D[a] \cap D[d] = {} /\ z \notin D[a]
    BY <2>1, <1>1 DEF SpanAt
  <2>4. z \notin D[d] /\ a \in L \cup {nil} /\ d \in L \cup {nil}
    BY <2>1, <2>2, ShapeKids
  <2>5. E[k2[t][n]] = D[a] /\ E[k2[Other(t)][n]] = D[d]
    BY <2>1, <2>2, <2>3, <2>4, <1>1, <1>2, <1>4
  <2>6. n \notin D[a] /\ \A m \in D[a] : Keyed(t, m, n)
    BY <2>1, <2>4, <1>1 DEF Fits
  <2> QED
    BY <2>3, <2>4, <2>5, <2>6, <1>4 DEF SpanAt
<1>10. Links((L \ {z}) \cup {n}, rt2, k2, par2)
  BY ReplaceLinks
<1>11. rt2 \in Cells
  BY <1>1, <1>2
<1> QED
  BY <1>1, <1>2, <1>4, <1>6, <1>8, <1>9, <1>10, <1>11 DEF Shape

-----------------------------------------------------------------------------
(* The number b[n] of black nodes on every way down from n, the sentinel   *)
(* included, where the place on side hs below hp counts once more.         *)

Heights == [Cells -> Nat \ {0}]
Blacks(c) == IF c = "BLACK" THEN 1 ELSE 0
HoleAt(n, s, hp, hs) == IF n = hp /\ s = hs THEN 1 ELSE 0

Even(L, k, col, b, hp, hs) ==
  /\ b \in Heights /\ b[nil] = 1
  /\ \A n \in L : \A s \in Sides :
       b[n] = b[k[s][n]] + HoleAt(n, s, hp, hs) + Blacks(col[n])

(* Where kids hang after a rotation.                                       *)
LEMMA RotationKids ==
  ASSUME NEW L, NEW rt, NEW k, NEW par, NEW D, Shape(L, rt, k, par, D),
         NEW s \in Sides, NEW e \in Sides, NEW n, NEW m, NEW c, NEW p,
         Spot(L, rt, k, par, D, s, e, p, n, m, c),
         NEW rt2, NEW k2, NEW par2, Rotated(rt, k, par, s, e, p, n, m, c, rt2, k2, par2)
  PROVE  /\ k2[s][n] = k[s][n] /\ k2[Other(s)][n] = c
         /\ k2[s][m] = n /\ k2[Other(s)][m] = k[Other(s)][m]
         /\ k[s][n] \in (L \ {n, m}) \cup {nil} /\ c \in (L \ {n, m}) \cup {nil}
         /\ k[Other(s)][m] \in (L \ {n, m}) \cup {nil}
         /\ \A q \in L \ {n, m} : \A t \in Sides :
              /\ k[t][q] \in (L \ {m}) \cup {nil}
              /\ k2[t][q] = IF k[t][q] = n THEN m ELSE k[t][q]
<1>1. /\ n \in L /\ m \in L /\ c \in L \cup {nil} /\ p \in L \cup {nil}
      /\ m = k[Other(s)][n] /\ c = k[s][m] /\ p = par[n]
      /\ IF p = nil THEN rt = n ELSE k[e][p] = n /\ n # rt
      /\ m # n /\ p # n /\ p # m /\ c # n /\ c # m /\ (c # nil => c # p)
  BY DEF Spot
<1>2. /\ L \subseteq Cells /\ nil \notin L /\ Other(s) \in Sides /\ Other(s) # s
      /\ \A t \in Sides : t = s \/ t = Other(s)
  BY TreeAssumption, SideFacts DEF Shape, Cells
<1>3. \A q \in Cells : \A t \in Sides :
        k2[t][q] = IF q = n /\ t = Other(s) THEN c
                   ELSE IF q = m /\ t = s THEN n
                   ELSE IF p # nil /\ q = p /\ t = e THEN m ELSE k[t][q]
  BY DEF Rotated
<1>4. \A q \in L : \A t \in Sides : k[t][q] # nil => k[t][q] \in L /\ par[k[t][q]] = q
  BY DEF Shape, Links
<1>5. k2[s][n] = k[s][n] /\ k2[Other(s)][n] = c /\ k2[s][m] = n
      /\ k2[Other(s)][m] = k[Other(s)][m]
  BY <1>1, <1>2, <1>3
<1>6. k[s][n] \in (L \ {n, m}) \cup {nil}
  <2>1. k[s][n] \in L \cup {nil} /\ (k[s][n] # nil => k[s][n] # n /\ k[s][n] # m)
    BY <1>1, <1>2, ShapeKids
  <2> QED
    BY <2>1
<1>7. par[m] = n
  BY <1>1, <1>2, <1>4
<1>8. k[Other(s)][m] \in (L \ {n, m}) \cup {nil}
  <2>1. /\ k[Other(s)][m] \in L \cup {nil}
        /\ D[k[Other(s)][m]] \subseteq D[m]
        /\ k[Other(s)][m] # nil => k[Other(s)][m] \in D[k[Other(s)][m]] /\ k[Other(s)][m] # m
    BY <1>1, <1>2, ShapeKids
  <2>2. n \notin D[m]
    BY <1>1, <1>2, ShapeKids
  <2> QED
    BY <2>1, <2>2
<1>9. p # nil => \A t \in Sides : k[t][p] = n => t = e
  BY <1>1, <1>2, ShapeParent
<1>10. ASSUME NEW q \in L \ {n, m}, NEW t \in Sides
       PROVE  /\ k[t][q] \in (L \ {m}) \cup {nil}
              /\ k2[t][q] = IF k[t][q] = n THEN m ELSE k[t][q]
  <2>1. k[t][q] \in L \cup {nil}
    BY <1>4
  <2>2. k[t][q] # m
    BY <1>1, <1>2, <1>4, <1>7
  <2>3. k2[t][q] = IF p # nil /\ q = p /\ t = e THEN m ELSE k[t][q]
    BY <1>2, <1>3
  <2>4. k[t][q] = n <=> (p # nil /\ q = p /\ t = e)
    BY <1>1, <1>2, <1>4, <1>9
  <2> QED
    BY <2>1, <2>2, <2>3, <2>4
<1> QED
  BY <1>1, <1>5, <1>6, <1>8, <1>10

(* Rotating a red kid up while it trades its colour with n.                *)
LEMMA RotationEven ==
  ASSUME NEW L, NEW rt, NEW k, NEW par, NEW D, Shape(L, rt, k, par, D),
         NEW s \in Sides, NEW e \in Sides, NEW n, NEW m, NEW c, NEW p,
         Spot(L, rt, k, par, D, s, e, p, n, m, c),
         NEW rt2, NEW k2, NEW par2, Rotated(rt, k, par, s, e, p, n, m, c, rt2, k2, par2),
         NEW col, NEW col2, NEW b, NEW hp, NEW hs, Even(L, k, col, b, hp, hs),
         col[m] = "RED", hp # m, ~(hp = n /\ hs = Other(s)),
         col2[n] = col[m], col2[m] = col[n], \A q \in L \ {n, m} : col2[q] = col[q]
  PROVE  \E b2 : Even(L, k2, col2, b2, hp, hs)
<1>1. /\ k2[s][n] = k[s][n] /\ k2[Other(s)][n] = c
      /\ k2[s][m] = n /\ k2[Other(s)][m] = k[Other(s)][m]
      /\ k[s][n] \in (L \ {n, m}) \cup {nil} /\ c \in (L \ {n, m}) \cup {nil}
      /\ k[Other(s)][m] \in (L \ {n, m}) \cup {nil}
      /\ \A q \in L \ {n, m} : \A t \in Sides :
           /\ k[t][q] \in (L \ {m}) \cup {nil}
           /\ k2[t][q] = IF k[t][q] = n THEN m ELSE k[t][q]
  BY RotationKids
<1>2. /\ n \in L /\ m \in L /\ m # n /\ m = k[Other(s)][n] /\ c = k[s][m]
      /\ L \subseteq Cells /\ nil \notin L /\ nil \in Cells /\ Other(s) \in Sides /\ Other(s) # s
      /\ \A t \in Sides : t = s \/ t = Other(s)
  BY TreeAssumption, SideFacts DEF Spot, Shape, Cells
<1>3. /\ b \in Heights /\ b[nil] = 1
      /\ \A q \in L : \A t \in Sides :
           b[q] = b[k[t][q]] + HoleAt(q, t, hp, hs) + Blacks(col[q])
  BY DEF Even
<1>4. PICK b2 : b2 = [b EXCEPT ![n] = b[m], ![m] = b[n]]
  OBVIOUS
<1>5. /\ b2 \in Heights /\ b2[n] = b[m] /\ b2[m] = b[n]
      /\ \A q \in Cells : q # n /\ q # m => b2[q] = b[q]
  BY <1>2, <1>3, <1>4 DEF Heights
<1>6. PICK a, d : a = k[s][n] /\ d = k[Other(s)][m]
  OBVIOUS
<1>7. b2[a] = b[a] /\ b2[c] = b[c] /\ b2[d] = b[d] /\ b2[nil] = 1
  BY <1>1, <1>2, <1>3, <1>5, <1>6
<1>8. PICK wn \in {0, 1}, h \in {0, 1} : wn = Blacks(col[n]) /\ h = HoleAt(n, s, hp, hs)
  BY DEF Blacks, HoleAt
<1>9. /\ Blacks(col2[n]) = 0 /\ Blacks(col[m]) = 0 /\ Blacks(col2[m]) = wn
      /\ HoleAt(n, Other(s), hp, hs) = 0 /\ HoleAt(m, s, hp, hs) = 0
      /\ HoleAt(m, Other(s), hp, hs) = 0
  BY <1>8 DEF Blacks, HoleAt
<1>10. /\ b[n] \in Nat /\ b[m] \in Nat /\ b[a] \in Nat /\ b[c] \in Nat /\ b[d] \in Nat
  BY <1>1, <1>2, <1>3, <1>6 DEF Heights
<1>11. /\ b[n] = b[a] + h + wn /\ b[n] = b[m] + 0 + wn
       /\ b[m] = b[c] + 0 + 0 /\ b[m] = b[d] + 0 + 0
  BY <1>2, <1>3, <1>6, <1>8, <1>9
<1>12. b[m] = b[a] + h /\ b[n] = b[m] + wn /\ b[m] = b[c] /\ b[m] = b[d]
  BY <1>10, <1>11
<1>13. ASSUME NEW t \in Sides
       PROVE  b2[n] = b2[k2[t][n]] + HoleAt(n, t, hp, hs) + Blacks(col2[n])
  <2>1. CASE t = s
    BY <2>1, <1>1, <1>5, <1>6, <1>7, <1>8, <1>9, <1>10, <1>12
  <2>2. CASE t = Other(s)
    BY <2>2, <1>1, <1>5, <1>6, <1>7, <1>8, <1>9, <1>10, <1>12
  <2> QED
    BY <2>1, <2>2, <1>2
<1>14. ASSUME NEW t \in Sides
       PROVE  b2[m] = b2[k2[t][m]] + HoleAt(m, t, hp, hs) + Blacks(col2[m])
  <2>1. CASE t = s
    BY <2>1, <1>1, <1>5, <1>6, <1>7, <1>8, <1>9, <1>10, <1>12
  <2>2. CASE t = Other(s)
    BY <2>2, <1>1, <1>5, <1>6, <1>7, <1>8, <1>9, <1>10, <1>12
  <2> QED
    BY <2>1, <2>2, <1>2
<1>15. ASSUME NEW q \in L \ {n, m}, NEW t \in Sides
       PROVE  b2[q] = b2[k2[t][q]] + HoleAt(q, t, hp, hs) + Blacks(col2[q])
  <2>1. b2[k2[t][q]] = b[k[t][q]]
    <3>1. k[t][q] \in (L \ {m}) \cup {nil} /\ k2[t][q] = IF k[t][q] = n THEN m ELSE k[t][q]
      BY <1>1
    <3> QED
      BY <3>1, <1>2, <1>5
  <2>2. b2[q] = b[q] /\ col2[q] = col[q]
    BY <1>2, <1>5
  <2> QED
    BY <2>1, <2>2, <1>3
<1> QED
  BY <1>5, <1>7, <1>13, <1>14, <1>15 DEF Even

(* The last case of the deletion repair: the black sibling m takes n's     *)
(* colour, n and m's far kid d become black and the place below n no       *)
(* longer counts twice.                                                    *)
LEMMA RotationFar ==
  ASSUME NEW L, NEW rt, NEW k, NEW par, NEW D, Shape(L, rt, k, par, D),
         NEW s \in Sides, NEW e \in Sides, NEW n, NEW m, NEW c, NEW p,
         Spot(L, rt, k, par, D, s, e, p, n, m, c),
         NEW rt2, NEW k2, NEW par2, Rotated(rt, k, par, s, e, p, n, m, c, rt2, k2, par2),
         NEW col, NEW col2, NEW b, Even(L, k, col, b, n, s), NEW d \in L, d = k[Other(s)][m],
         col[m] = "BLACK", col[d] = "RED",
         col2[n] = "BLACK", col2[m] = col[n], col2[d] = "BLACK",
         \A q \in L \ {n, m, d} : col2[q] = col[q], NEW hs
  PROVE  \E b2 : Even(L, k2, col2, b2, nil, hs)
<1>1. /\ k2[s][n] = k[s][n] /\ k2[Other(s)][n] = c
      /\ k2[s][m] = n /\ k2[Other(s)][m] = d
      /\ k[s][n] \in (L \ {n, m}) \cup {nil} /\ c \in (L \ {n, m}) \cup {nil}
      /\ d \in L \ {n, m}
      /\ \A q \in L \ {n, m} : \A t \in Sides :
           /\ k[t][q] \in (L \ {m}) \cup {nil}
           /\ k2[t][q] = IF k[t][q] = n THEN m ELSE k[t][q]
  <2>1. nil \notin L
    BY TreeAssumption DEF Shape
  <2> QED
    BY <2>1, RotationKids
<1>2. /\ n \in L /\ m \in L /\ m # n /\ m = k[Other(s)][n] /\ c = k[s][m]
      /\ L \subseteq Cells /\ nil \notin L /\ nil \in Cells /\ Other(s) \in Sides /\ Other(s) # s
      /\ \A t \in Sides : t = s \/ t = Other(s)
  BY TreeAssumption, SideFacts DEF Spot, Shape, Cells
<1>3. /\ b \in Heights /\ b[nil] = 1
      /\ \A q \in L : \A t \in Sides :
           b[q] = b[k[t][q]] + HoleAt(q, t, n, s) + Blacks(col[q])
  BY DEF Even
<1>4. PICK b2 : b2 = [q \in Cells |-> IF q = n THEN b[m] ELSE IF q = m THEN b[n]
                                      ELSE IF q = d THEN b[d] + 1 ELSE b[q]]
  OBVIOUS
<1>5. /\ b2 \in Heights /\ b2[n] = b[m] /\ b2[m] = b[n] /\ b2[d] = b[d] + 1
      /\ \A q \in Cells : q # n /\ q # m /\ q # d => b2[q] = b[q]
  BY <1>1, <1>2, <1>3, <1>4 DEF Heights
<1>6. PICK a : a = k[s][n]
  OBVIOUS
<1>7. par[d] = m /\ \A q \in L : \A t \in Sides : k[t][q] = d => q = m /\ t = Other(s)
  BY <1>2, ShapeParent
<1>8. a # d /\ c # d
  BY <1>2, <1>6, <1>7
<1>9. b2[a] = b[a] /\ b2[c] = b[c] /\ b2[nil] = 1
  BY <1>1, <1>2, <1>3, <1>5, <1>6, <1>8
<1>10. PICK wn \in {0, 1} : wn = Blacks(col[n])
  BY DEF Blacks
<1>11. /\ Blacks(col2[n]) = 1 /\ Blacks(col[m]) = 1 /\ Blacks(col2[m]) = wn
       /\ Blacks(col[d]) = 0 /\ Blacks(col2[d]) = 1
       /\ HoleAt(n, s, n, s) = 1 /\ HoleAt(n, Other(s), n, s) = 0
       /\ \A q \in L : \A t \in Sides : HoleAt(q, t, nil, hs) = 0
       /\ \A q \in L : \A t \in Sides : q # n => HoleAt(q, t, n, s) = 0
  BY <1>2, <1>10 DEF Blacks, HoleAt
<1>12. /\ b[n] \in Nat /\ b[m] \in Nat /\ b[a] \in Nat /\ b[c] \in Nat /\ b[d] \in Nat
  BY <1>1, <1>2, <1>3, <1>6 DEF Heights
<1>13. /\ b[n] = b[a] + 1 + wn /\ b[n] = b[m] + 0 + wn
       /\ b[m] = b[c] + 0 + 1 /\ b[m] = b[d] + 0 + 1
  BY <1>2, <1>3, <1>6, <1>10, <1>11
<1>14. b[m] = b[a] + 1 /\ b[n] = b[m] + wn /\ b[m] = b[c] + 1 /\ b[m] = b[d] + 1
  BY <1>12, <1>13
<1>15. ASSUME NEW t \in Sides
       PROVE  b2[n] = b2[k2[t][n]] + HoleAt(n, t, nil, hs) + Blacks(col2[n])
  <2>1. CASE t = s
    BY <2>1, <1>1, <1>2, <1>5, <1>6, <1>9, <1>11, <1>12, <1>14
  <2>2. CASE t = Other(s)
    BY <2>2, <1>1, <1>2, <1>5, <1>9, <1>11, <1>12, <1>14
  <2> QED
    BY <2>1, <2>2, <1>2
<1>16. ASSUME NEW t \in Sides
       PROVE  b2[m] = b2[k2[t][m]] + HoleAt(m, t, nil, hs) + Blacks(col2[m])
  <2>1. CASE t = s
    BY <2>1, <1>1, <1>2, <1>5, <1>10, <1>11, <1>12, <1>14
  <2>2. CASE t = Other(s)
    BY <2>2, <1>1, <1>2, <1>5, <1>10, <1>11, <1>12, <1>14
  <2> QED
    BY <2>1, <2>2, <1>2
<1>17. ASSUME NEW q \in L \ {n, m}, NEW t \in Sides
       PROVE  b2[q] = b2[k2[t][q]] + HoleAt(q, t, nil, hs) + Blacks(col2[q])
  <2>1. b2[k2[t][q]] = b[k[t][q]]
    <3>1. k[t][q] \in (L \ {m}) \cup {nil} /\ k2[t][q] = IF k[t][q] = n THEN m ELSE k[t][q]
      BY <1>1
    <3>2. k[t][q] # d
      BY <1>7
    <3> QED
      BY <3>1, <3>2, <1>2, <1>5
  <2>2. b[q] = b[k[t][q]] + 0 + Blacks(col[q]) /\ b[k[t][q]] \in Nat /\ HoleAt(q, t, nil, hs) = 0
    <3>1. k[t][q] \in Cells
      BY <1>1, <1>2
    <3> QED
      BY <3>1, <1>3, <1>11 DEF Heights
  <2>3. CASE q = d
    BY <2>1, <2>2, <2>3, <1>5, <1>11
  <2>4. CASE q # d
    <3>1. b2[q] = b[q] /\ col2[q] = col[q]
      BY <2>4, <1>2, <1>5
    <3> QED
      BY <3>1, <2>1, <2>2
  <2> QED
    BY <2>3, <2>4
<1> QED
  BY <1>5, <1>9, <1>15, <1>16, <1>17 DEF Even

-----------------------------------------------------------------------------
(* The heights when only colours change.                                   *)

(* A place that counts twice has a sibling.                                *)
LEMMA EvenSibling ==
  ASSUME NEW L, NEW rt, NEW k, NEW par, NEW D, Shape(L, rt, k, par, D),
         NEW col, NEW b, NEW p \in L, NEW s \in Sides, Even(L, k, col, b, p, s)
  PROVE  /\ k[Other(s)][p] \in L /\ k[Other(s)][p] # k[s][p]
         /\ b[k[Other(s)][p]] = b[k[s][p]] + 1
         /\ b[k[s][p]] \in Nat \ {0} /\ b[k[Other(s)][p]] \in Nat \ {0}
<1>1. PICK w, z : w = k[Other(s)][p] /\ z = k[s][p]
  OBVIOUS
<1>2. Other(s) \in Sides /\ Other(s) # s
  BY SideFacts
<1>3. w \in L \cup {nil} /\ z \in L \cup {nil} /\ (z # nil => z # w)
  BY <1>1, <1>2, ShapeKids
<1>4. /\ b \in Heights /\ b[nil] = 1
      /\ b[p] = b[w] + HoleAt(p, Other(s), p, s) + Blacks(col[p])
      /\ b[p] = b[z] + HoleAt(p, s, p, s) + Blacks(col[p])
  BY <1>1, <1>2 DEF Even
<1>5. HoleAt(p, Other(s), p, s) = 0 /\ HoleAt(p, s, p, s) = 1 /\ Blacks(col[p]) \in Nat
  BY <1>2 DEF HoleAt, Blacks
<1>6. b[w] \in Nat \ {0} /\ b[z] \in Nat \ {0}
  <2>1. w \in Cells /\ z \in Cells
    BY <1>3 DEF Shape, Cells
  <2> QED
    BY <2>1, <1>4 DEF Heights
<1>7. b[w] = b[z] + 1
  BY <1>4, <1>5, <1>6
<1>8. w # nil
  BY <1>4, <1>6, <1>7
<1> QED
  BY <1>1, <1>3, <1>6, <1>7, <1>8

(* Both red kids of a black node become black and it becomes red.          *)
LEMMA EvenUncle ==
  ASSUME NEW L, NEW rt, NEW k, NEW par, NEW D, Shape(L, rt, k, par, D),
         NEW col, NEW col2, NEW b, NEW hs, Even(L, k, col, b, nil, hs), NEW g \in L,
         NEW s \in Sides, NEW p \in L, NEW u \in L, p = k[s][g], u = k[Other(s)][g],
         col[g] = "BLACK", col[p] = "RED", col[u] = "RED",
         col2[g] = "RED", col2[p] = "BLACK", col2[u] = "BLACK",
         \A q \in L \ {g, p, u} : col2[q] = col[q]
  PROVE  \E b2 : Even(L, k, col2, b2, nil, hs)
<1>1. /\ L \subseteq Cells /\ nil \notin L /\ nil \in Cells /\ Other(s) \in Sides
      /\ \A t \in Sides : t = s \/ t = Other(s)
  BY TreeAssumption, SideFacts DEF Shape, Cells
<1>2. /\ \A q \in L : \A t \in Sides : k[t][q] = p => q = g /\ t = s
      /\ \A q \in L : \A t \in Sides : k[t][q] = u => q = g /\ t = Other(s)
  BY <1>1, ShapeParent
<1>3. g # p /\ g # u
  BY <1>1, ShapeParent
<1>4. /\ b \in Heights /\ b[nil] = 1
      /\ \A q \in L : \A t \in Sides :
           b[q] = b[k[t][q]] + HoleAt(q, t, nil, hs) + Blacks(col[q])
  BY DEF Even
<1>5. PICK b2 : b2 = [q \in Cells |-> IF q \in {p, u} THEN b[q] + 1 ELSE b[q]]
  OBVIOUS
<1>6. b2 \in Heights /\ b2[nil] = 1 /\ b2[p] = b[p] + 1 /\ b2[u] = b[u] + 1
      /\ \A q \in Cells : q # p /\ q # u => b2[q] = b[q]
  BY <1>1, <1>4, <1>5 DEF Heights
<1>7. ASSUME NEW q \in L, NEW t \in Sides
      PROVE  b2[q] = b2[k[t][q]] + HoleAt(q, t, nil, hs) + Blacks(col2[q])
  <2>1. HoleAt(q, t, nil, hs) = 0
    BY <1>1 DEF HoleAt
  <2>2. k[t][q] \in Cells
    BY <1>1, ShapeKids
  <2>3. b[k[t][q]] \in Nat /\ b[q] \in Nat
    BY <2>2, <1>1, <1>4 DEF Heights
  <2>4. b[q] = b[k[t][q]] + Blacks(col[q]) /\ Blacks(col[q]) \in {0, 1}
    BY <2>1, <2>3, <1>4 DEF Blacks
  <2>5. CASE q = g
    <3>1. b2[k[t][q]] = b[k[t][q]] + 1
      BY <2>5, <1>1, <1>6
    <3>2. b2[q] = b[q]
      BY <2>5, <1>1, <1>3, <1>6
    <3>3. Blacks(col[q]) = 1 /\ Blacks(col2[q]) = 0
      BY <2>5 DEF Blacks
    <3> QED
      BY <2>1, <2>3, <2>4, <3>1, <3>2, <3>3
  <2>6. CASE q \in {p, u}
    <3>1. b2[k[t][q]] = b[k[t][q]]
      BY <2>2, <2>6, <1>2, <1>3, <1>6
    <3>2. b2[q] = b[q] + 1
      BY <2>6, <1>6
    <3>3. Blacks(col[q]) = 0 /\ Blacks(col2[q]) = 1
      BY <2>6 DEF Blacks
    <3> QED
      BY <2>1, <2>3, <2>4, <3>1, <3>2, <3>3
  <2>7. CASE q \notin {g, p, u}
    <3>1. b2[k[t][q]] = b[k[t][q]] /\ b2[q] = b[q] /\ col2[q] = col[q]
      BY <2>2, <2>7, <1>1, <1>2, <1>6
    <3> QED
      BY <3>1, <1>4
  <2> QED
    BY <2>5, <2>6, <2>7
<1> QED
  BY <1>6, <1>7 DEF Even

(* A red node becomes black: the root, or the one that counts once more.   *)
LEMMA EvenBlacken ==
  ASSUME NEW L, NEW rt, NEW k, NEW par, NEW D, Shape(L, rt, k, par, D),
         NEW col, NEW col2, NEW b, NEW hp, NEW hs, Even(L, k, col, b, hp, hs), NEW n \in L,
         IF n = rt THEN hp = nil ELSE hp \in L /\ hs \in Sides /\ k[hs][hp] = n,
         col[n] = "RED", col2[n] = "BLACK", \A q \in L \ {n} : col2[q] = col[q]
  PROVE  \E b2 : Even(L, k, col2, b2, nil, hs)
<1>1. L \subseteq Cells /\ nil \notin L /\ nil \in Cells
  BY TreeAssumption DEF Shape, Cells
<1>2. ASSUME NEW q \in L, NEW t \in Sides PROVE k[t][q] = n <=> (q = hp /\ t = hs)
  <2>1. CASE n = rt
    <3>1. par[n] = nil
      BY <2>1, ShapeRoot
    <3>2. k[t][q] # n
      BY <3>1, <1>1, ShapeParent
    <3> QED
      BY <2>1, <3>2, <1>1
  <2>2. CASE n # rt
    BY <2>2, ShapeParent
  <2> QED
    BY <2>1, <2>2
<1>3. /\ b \in Heights /\ b[nil] = 1
      /\ \A q \in L : \A t \in Sides :
           b[q] = b[k[t][q]] + HoleAt(q, t, hp, hs) + Blacks(col[q])
  BY DEF Even
<1>4. PICK b2 : b2 = [b EXCEPT ![n] = b[n] + 1]
  OBVIOUS
<1>5. b2 \in Heights /\ b2[nil] = 1 /\ b2[n] = b[n] + 1
      /\ \A q \in Cells : q # n => b2[q] = b[q]
  BY <1>1, <1>3, <1>4 DEF Heights
<1>6. ASSUME NEW q \in L, NEW t \in Sides
      PROVE  b2[q] = b2[k[t][q]] + HoleAt(q, t, nil, hs) + Blacks(col2[q])
  <2>1. HoleAt(q, t, nil, hs) = 0 /\ HoleAt(q, t, hp, hs) = IF k[t][q] = n THEN 1 ELSE 0
    BY <1>1, <1>2 DEF HoleAt
  <2>2. k[t][q] \in Cells
    BY <1>1, ShapeKids
  <2>3. b[k[t][q]] \in Nat /\ b[q] \in Nat
    BY <2>2, <1>1, <1>3 DEF Heights
  <2>4. b2[k[t][q]] = b[k[t][q]] + HoleAt(q, t, hp, hs)
    BY <2>1, <2>2, <2>3, <1>5
  <2>5. b2[q] = b[q] + (IF q = n THEN 1 ELSE 0)
    BY <2>3, <1>1, <1>5
  <2>6. Blacks(col2[q]) = Blacks(col[q]) + (IF q = n THEN 1 ELSE 0) /\ Blacks(col[q]) \in {0, 1}
    BY DEF Blacks
  <2>7. b[q] = b[k[t][q]] + HoleAt(q, t, hp, hs) + Blacks(col[q])
    BY <1>3
  <2>8. PICK h \in {0, 1} : h = HoleAt(q, t, hp, hs)
    BY <2>1
  <2> QED
    BY <2>1, <2>3, <2>4, <2>5, <2>6, <2>7, <2>8
<1> QED
  BY <1>5, <1>6 DEF Even

(* The sibling becomes red, and the parent p counts once more instead.     *)
LEMMA EvenUp ==
  ASSUME NEW L, NEW rt, NEW k, NEW par, NEW D, Shape(L, rt, k, par, D),
         NEW col, NEW col2, NEW b, NEW p \in L, NEW s \in Sides, Even(L, k, col, b, p, s),
         NEW w, w = k[Other(s)][p], NEW hp, NEW hs,
         IF p = rt THEN hp = nil ELSE hp \in L /\ hs \in Sides /\ k[hs][hp] = p,
         col[w] = "BLACK", col2[w] = "RED", \A q \in L \ {w} : col2[q] = col[q]
  PROVE  \E b2 : Even(L, k, col2, b2, hp, hs)
<1>1. /\ L \subseteq Cells /\ nil \notin L /\ nil \in Cells /\ Other(s) \in Sides /\ Other(s) # s
      /\ \A t \in Sides : t = s \/ t = Other(s)
  BY TreeAssumption, SideFacts DEF Shape, Cells
<1>2. ASSUME NEW q \in L, NEW t \in Sides PROVE k[t][q] = p <=> (q = hp /\ t = hs)
  <2>1. CASE p = rt
    <3>1. par[p] = nil
      BY <2>1, ShapeRoot
    <3>2. k[t][q] # p
      BY <3>1, <1>1, ShapeParent
    <3> QED
      BY <2>1, <3>2, <1>1
  <2>2. CASE p # rt
    BY <2>2, ShapeParent
  <2> QED
    BY <2>1, <2>2
<1>3. /\ b \in Heights /\ b[nil] = 1
      /\ \A q \in L : \A t \in Sides :
           b[q] = b[k[t][q]] + HoleAt(q, t, p, s) + Blacks(col[q])
  BY DEF Even
<1>4. /\ w \in L /\ w # k[s][p] /\ b[w] = b[k[s][p]] + 1
      /\ b[k[s][p]] \in Nat \ {0} /\ b[w] \in Nat \ {0}
  BY EvenSibling
<1>5. w # p /\ \A q \in L : \A t \in Sides : k[t][q] = w <=> (q = p /\ t = Other(s))
  BY <1>1, <1>4, ShapeParent
<1>6. PICK b2 : b2 = [q \in Cells |-> IF q \in {w, p} THEN b[q] - 1 ELSE b[q]]
  OBVIOUS
<1>7. b[p] \in Nat /\ b[p] - 1 \in Nat \ {0} /\ b[w] - 1 \in Nat \ {0}
  <2>1. b[p] = b[k[s][p]] + HoleAt(p, s, p, s) + Blacks(col[p])
    BY <1>3
  <2>2. HoleAt(p, s, p, s) = 1 /\ Blacks(col[p]) \in {0, 1}
    BY DEF HoleAt, Blacks
  <2> QED
    BY <2>1, <2>2, <1>4
<1>8. b2 \in Heights /\ b2[nil] = 1 /\ b2[w] = b[w] - 1 /\ b2[p] = b[p] - 1
      /\ \A q \in Cells : q # w /\ q # p => b2[q] = b[q]
  BY <1>1, <1>3, <1>4, <1>6, <1>7 DEF Heights
<1>9. ASSUME NEW q \in L, NEW t \in Sides
      PROVE  b2[q] = b2[k[t][q]] + HoleAt(q, t, hp, hs) + Blacks(col2[q])
  <2>1. /\ HoleAt(q, t, hp, hs) = IF k[t][q] = p THEN 1 ELSE 0
        /\ HoleAt(q, t, p, s) = IF q = p /\ t = s THEN 1 ELSE 0
    BY <1>2 DEF HoleAt
  <2>2. k[t][q] \in Cells
    BY <1>1, ShapeKids
  <2>3. b[k[t][q]] \in Nat /\ b[q] \in Nat
    BY <2>2, <1>1, <1>3 DEF Heights
  <2>4. PICK h, i, j : /\ h = HoleAt(q, t, hp, hs)
                       /\ i = (IF k[t][q] = w THEN 1 ELSE 0)
                       /\ j = (IF q = p /\ t = s THEN 1 ELSE 0)
    OBVIOUS
  <2>5. h \in {0, 1} /\ i \in {0, 1} /\ j \in {0, 1} /\ ~(h = 1 /\ i = 1)
    BY <2>1, <2>4, <1>5
  <2>6. b2[k[t][q]] = b[k[t][q]] - h - i
    BY <2>1, <2>2, <2>3, <2>4, <1>5, <1>8
  <2>7. q = p => i + j = 1
    BY <2>4, <2>5, <1>1, <1>5
  <2>8. q # p => i = 0 /\ j = 0
    BY <2>4, <1>5
  <2>9. b[q] = b[k[t][q]] + j + Blacks(col[q])
    BY <2>1, <2>4, <1>3
  <2>10. PICK v \in {0, 1} : v = Blacks(col[q])
    BY DEF Blacks
  <2>11. CASE q = w
    <3>1. b2[q] = b[q] - 1 /\ v = 1 /\ Blacks(col2[q]) = 0
      BY <2>10, <2>11, <1>8 DEF Blacks
    <3> QED
      BY <3>1, <2>3, <2>4, <2>5, <2>6, <2>8, <2>9, <2>10, <2>11, <1>5
  <2>12. CASE q = p
    <3>1. b2[q] = b[q] - 1 /\ Blacks(col2[q]) = v
      BY <2>10, <2>12, <1>5, <1>8
    <3> QED
      BY <3>1, <2>3, <2>4, <2>5, <2>6, <2>7, <2>9, <2>10, <2>12
  <2>13. CASE q # w /\ q # p
    <3>1. b2[q] = b[q] /\ Blacks(col2[q]) = v
      BY <2>10, <2>13, <1>1, <1>8
    <3> QED
      BY <3>1, <2>3, <2>4, <2>5, <2>6, <2>8, <2>9, <2>10, <2>13
  <2> QED
    BY <2>11, <2>12, <2>13
<1> QED
  BY <1>8, <1>9 DEF Even

-----------------------------------------------------------------------------
(* The heights when nodes come and go.                                     *)

LEMMA EvenGraft ==
  ASSUME NEW L, NEW rt, NEW k, NEW par, NEW D, Shape(L, rt, k, par, D),
         NEW n \in Nodes, n \notin L, NEW u, IF u = nil THEN rt = nil ELSE u \in L,
         u # nil => k[Way(n, u)][u] = nil,
         NEW rt2, NEW k2, NEW par2, Grafted(rt, k, par, n, u, rt2, k2, par2),
         NEW col, NEW col2, NEW b, NEW hs, Even(L, k, col, b, nil, hs),
         col2[n] = "RED", \A q \in L : col2[q] = col[q]
  PROVE  \E b2 : Even(L \cup {n}, k2, col2, b2, nil, hs)
<1>1. L \subseteq Cells /\ nil \notin L /\ nil \in Cells /\ n \in Cells /\ n # nil
  BY TreeAssumption DEF Shape, Cells
<1>2. \A q \in Cells : \A t \in Sides :
        k2[t][q] = IF q = n THEN nil
                   ELSE IF q = u /\ u # nil /\ t = Way(n, u) THEN n ELSE k[t][q]
  BY DEF Grafted
<1>3. /\ b \in Heights /\ b[nil] = 1
      /\ \A q \in L : \A t \in Sides :
           b[q] = b[k[t][q]] + HoleAt(q, t, nil, hs) + Blacks(col[q])
  BY DEF Even
<1>4. PICK b2 : b2 = [b EXCEPT ![n] = 1]
  OBVIOUS
<1>5. b2 \in Heights /\ b2[nil] = 1 /\ b2[n] = 1
      /\ \A q \in Cells : q # n => b2[q] = b[q]
  BY <1>1, <1>3, <1>4 DEF Heights
<1>6. ASSUME NEW t \in Sides
      PROVE  b2[n] = b2[k2[t][n]] + HoleAt(n, t, nil, hs) + Blacks(col2[n])
  <2>1. HoleAt(n, t, nil, hs) = 0 /\ Blacks(col2[n]) = 0 /\ k2[t][n] = nil
    BY <1>1, <1>2 DEF HoleAt, Blacks
  <2> QED
    BY <2>1, <1>5
<1>7. ASSUME NEW q \in L, NEW t \in Sides
      PROVE  b2[q] = b2[k2[t][q]] + HoleAt(q, t, nil, hs) + Blacks(col2[q])
  <2>1. k[t][q] \in L \cup {nil}
    BY ShapeKids
  <2>2. b2[k2[t][q]] = b[k[t][q]]
    BY <2>1, <1>1, <1>2, <1>3, <1>5
  <2>3. b2[q] = b[q] /\ col2[q] = col[q]
    BY <1>1, <1>5
  <2> QED
    BY <2>2, <2>3, <1>3
<1> QED
  BY <1>5, <1>6, <1>7 DEF Even

LEMMA EvenCut ==
  ASSUME NEW L, NEW rt, NEW k, NEW par, NEW D, Shape(L, rt, k, par, D),
         NEW e, NEW p, NEW n, NEW c, CutSpot(L, rt, k, par, e, p, n, c),
         NEW rt2, NEW k2, NEW par2, Cut(L, rt, k, par, e, p, n, c, rt2, k2, par2),
         NEW col, NEW b, NEW hs, Even(L, k, col, b, nil, hs)
  PROVE  Even(L \ {n}, k2, col, b, IF col[n] = "BLACK" THEN p ELSE nil, e)
<1>1. /\ c \in (L \ {n}) \cup {nil} /\ p \in (L \ {n}) \cup {nil}
      /\ p # nil => k[e][p] = n
      /\ \A t \in Sides : k[t][n] = nil \/ k[t][n] = c
  BY CutFacts
<1>2. \A q \in L \ {n} : \A t \in Sides :
        k2[t][q] = IF p # nil /\ q = p /\ t = e THEN c ELSE k[t][q]
  BY DEF Cut
<1>3. L \subseteq Cells /\ nil \notin L /\ nil \in Cells /\ n \in L /\ e \in Sides
  BY TreeAssumption DEF Shape, Cells, CutSpot
<1>4. /\ b \in Heights /\ b[nil] = 1
      /\ \A q \in L : \A t \in Sides :
           b[q] = b[k[t][q]] + HoleAt(q, t, nil, hs) + Blacks(col[q])
  BY DEF Even
<1>5. PICK hp : hp = IF col[n] = "BLACK" THEN p ELSE nil
  OBVIOUS
<1>6. b[n] = b[c] + Blacks(col[n])
  <2>1. PICK s \in Sides : c = k[s][n]
    BY SideFacts DEF CutSpot
  <2>2. HoleAt(n, s, nil, hs) = 0
    BY <1>3 DEF HoleAt
  <2>3. b[c] \in Nat
    BY <1>1, <1>3, <1>4 DEF Heights
  <2>4. b[n] = b[c] + HoleAt(n, s, nil, hs) + Blacks(col[n])
    BY <2>1, <1>3, <1>4
  <2> QED
    BY <2>2, <2>3, <2>4 DEF Blacks
<1>7. ASSUME NEW q \in L \ {n}, NEW t \in Sides
      PROVE  b[q] = b[k2[t][q]] + HoleAt(q, t, hp, e) + Blacks(col[q])
  <2>1. HoleAt(q, t, nil, hs) = 0
    BY <1>3 DEF HoleAt
  <2>2. CASE p # nil /\ q = p /\ t = e
    <3>1. k[t][q] = n /\ k2[t][q] = c
      BY <2>2, <1>1, <1>2
    <3>2. HoleAt(q, t, hp, e) = Blacks(col[n])
      BY <2>2, <1>5 DEF HoleAt, Blacks
    <3>3. b[q] = b[n] + 0 + Blacks(col[q])
      BY <3>1, <2>1, <1>4
    <3>4. b[c] \in Nat /\ Blacks(col[n]) \in Nat /\ Blacks(col[q]) \in Nat
      BY <1>1, <1>3, <1>4 DEF Heights, Blacks
    <3> QED
      BY <3>1, <3>2, <3>3, <3>4, <1>6
  <2>3. CASE ~(p # nil /\ q = p /\ t = e)
    <3>1. k2[t][q] = k[t][q] /\ HoleAt(q, t, hp, e) = 0
      BY <2>3, <1>2, <1>3, <1>5 DEF HoleAt
    <3> QED
      BY <3>1, <2>1, <1>4
  <2> QED
    BY <2>2, <2>3
<1> QED
  BY <1>4, <1>5, <1>7 DEF Even

LEMMA EvenReplace ==
  ASSUME NEW L, NEW rt, NEW k, NEW par, NEW D, Shape(L, rt, k, par, D),
         NEW z \in L, NEW n \in Nodes \ L, NEW rt2, NEW k2, NEW par2,
         Replaced(L, rt, k, par, z, n, rt2, k2, par2),
         NEW col, NEW col2, NEW b, NEW hp, NEW hs, Even(L, k, col, b, hp, hs), hp # n,
         col2[n] = col[z], \A q \in L \ {z} : col2[q] = col[q]
  PROVE  \E b2 : Even((L \ {z}) \cup {n}, k2, col2, b2, IF hp = z THEN n ELSE hp, hs)
<1>1. L \subseteq Cells /\ nil \notin L /\ nil \in Cells /\ n \in Cells /\ n # nil
  BY TreeAssumption DEF Shape, Cells
<1>2. /\ \A t \in Sides : k2[t][n] = k[t][z]
      /\ \A q \in L \ {z} : \A t \in Sides : k2[t][q] = IF k[t][q] = z THEN n ELSE k[t][q]
  BY DEF Replaced
<1>3. /\ b \in Heights /\ b[nil] = 1
      /\ \A q \in L : \A t \in Sides :
           b[q] = b[k[t][q]] + HoleAt(q, t, hp, hs) + Blacks(col[q])
  BY DEF Even
<1>4. PICK b2 : b2 = [b EXCEPT ![n] = b[z]]
  OBVIOUS
<1>5. b2 \in Heights /\ b2[nil] = 1 /\ b2[n] = b[z]
      /\ \A q \in Cells : q # n => b2[q] = b[q]
  BY <1>1, <1>3, <1>4 DEF Heights
<1>6. PICK h2 : h2 = IF hp = z THEN n ELSE hp
  OBVIOUS
<1>7. ASSUME NEW t \in Sides
      PROVE  b2[n] = b2[k2[t][n]] + HoleAt(n, t, h2, hs) + Blacks(col2[n])
  <2>1. HoleAt(n, t, h2, hs) = HoleAt(z, t, hp, hs)
    BY <1>6 DEF HoleAt
  <2>2. k[t][z] \in L \cup {nil}
    BY ShapeKids
  <2>3. b2[k2[t][n]] = b[k[t][z]]
    BY <2>2, <1>1, <1>2, <1>5
  <2> QED
    BY <2>1, <2>3, <1>3, <1>5
<1>8. ASSUME NEW q \in L \ {z}, NEW t \in Sides
      PROVE  b2[q] = b2[k2[t][q]] + HoleAt(q, t, h2, hs) + Blacks(col2[q])
  <2>1. HoleAt(q, t, h2, hs) = HoleAt(q, t, hp, hs)
    BY <1>6 DEF HoleAt
  <2>2. k[t][q] \in L \cup {nil}
    BY ShapeKids
  <2>3. b2[k2[t][q]] = b[k[t][q]]
    BY <2>2, <1>1, <1>2, <1>5
  <2>4. b2[q] = b[q] /\ col2[q] = col[q]
    BY <1>1, <1>5
  <2> QED
    BY <2>1, <2>3, <2>4, <1>3
<1> QED
  BY <1>5, <1>6, <1>7, <1>8 DEF Even

-----------------------------------------------------------------------------
(* The inductive invariant.  HoleP is the node below which a place counts  *)
(* once more, the sentinel if there is none.                               *)

HoleP == IF at = "delete_fixup" /\ x # root THEN parent[x] ELSE nil

(* n is black, or the cursor of the deletion repair.                       *)
Passes(n) == color[n] = "BLACK" \/ (at = "delete_fixup" /\ n = x)

Coloured ==
  \A n \in Live : \/ Passes(n) \/ (at = "insert_fixup" /\ n = x)
                  \/ parent[n] # nil /\ Passes(parent[n])

(* Where the cursors of an operation in progress are.                      *)
DescendCursor(D) ==
  /\ goal \in Nodes \ content
  /\ IF y = nil THEN x = root
     ELSE y \in Live /\ x = kid[Way(goal, y)][y] /\ OnWay(Live, kid, D, goal, y)

SearchCursor(D) ==
  /\ x \in Live \cup {nil} /\ goal \in Nodes
  /\ \A n \in Live : Key(n) = Key(goal) => n \in D[x]

MinimumCursor(D) ==
  /\ goal \in Live /\ x \in Live /\ \A s \in Sides : kid[s][goal] # nil
  /\ x \in D[kid["right"][goal]]
  /\ \A n \in D[x] : \A m \in D[kid["right"][goal]] \ D[x] : Key(n) <= Key(m)
  /\ parent[x] # goal => kid["left"][parent[x]] = x

RepairCursor ==
  /\ x \in Live \cup {nil}
  /\ x # root => parent[x] \in Live /\ kid[SideOf(x)][parent[x]] = x

Cursor(D) ==
  /\ at = "descend" => DescendCursor(D)
  /\ at = "insert_fixup" => x \in Live /\ color[x] = "RED"
  /\ at = "search" => SearchCursor(D)
  /\ at = "unlink" => x = goal /\ x \in Live /\ \E s \in Sides : kid[s][x] = nil
  /\ at = "minimum" => MinimumCursor(D)
  /\ at \in {"delete_fixup", "free"} => goal \in content
  /\ at = "delete_fixup" => RepairCursor

TreeInv ==
  /\ TypeOK
  /\ \E D : Shape(Live, root, kid, parent, D) /\ Cursor(D)
  /\ \E b : Even(Live, kid, color, b, HoleP, SideOf(x))
  /\ Coloured

LEMMA TypeFacts ==
  ASSUME TypeOK
  PROVE  /\ Live \subseteq Nodes /\ Live \subseteq Cells /\ nil \notin Nodes /\ nil \in Cells
         /\ Nodes \subseteq Cells
         /\ root \in Cells /\ kid \in KidType /\ parent \in ParentType
         /\ \A s \in Sides : kid[s][nil] = Junk /\ \A n \in Nodes : kid[s][n] \in Cells
         /\ \A n \in Nodes : parent[n] \in Cells
         /\ color \in [Cells -> {"RED", "BLACK"}] /\ color[nil] = "BLACK"
         /\ \A n : SideOf(n) \in Sides
         /\ "left" \in Sides /\ "right" \in Sides
BY TreeAssumption DEF TypeOK, Live, Cells, KidType, ParentType, SideOf, Sides

(* Which side is called the hole's does not matter if there is none.       *)
LEMMA EvenNoHole ==
  ASSUME NEW L, nil \notin L, NEW k, NEW col, NEW b, NEW hs, NEW hs2,
         Even(L, k, col, b, nil, hs)
  PROVE  Even(L, k, col, b, nil, hs2)
<1>1. \A n \in L : \A s \in Sides : HoleAt(n, s, nil, hs) = HoleAt(n, s, nil, hs2)
  BY DEF HoleAt
<1> QED
  BY <1>1 DEF Even

LEMMA InitHolds ==
  ASSUME Init
  PROVE  TreeInv
<1>1. TypeOK
  BY TreeAssumption DEF Init, TypeOK, Cells, Sides
<1>2. Live = {}
  BY DEF Init, Live
<1>3. PICK D : D = [n \in Cells |-> {}]
  OBVIOUS
<1>4. Shape(Live, root, kid, parent, D)
  <2>1. D \in [Cells -> SUBSET Live] /\ D[nil] = {} /\ D[root] = Live /\ root = nil
    BY <1>2, <1>3 DEF Init, Cells
  <2>2. Links(Live, root, kid, parent)
    BY <1>2, <2>1 DEF Links
  <2> QED
    BY <2>1, <2>2, <1>1, <1>2, TypeFacts DEF Shape
<1>5. Cursor(D)
  BY DEF Init, Cursor
<1>6. PICK b : b = [n \in Cells |-> 1]
  OBVIOUS
<1>7. Even(Live, kid, color, b, HoleP, SideOf(x))
  BY <1>2, <1>6 DEF Even, Heights, Cells
<1>8. Coloured
  BY <1>2 DEF Coloured
<1> QED
  BY <1>1, <1>4, <1>5, <1>7, <1>8 DEF TreeInv

-----------------------------------------------------------------------------
(* Steps that leave the tree alone.                                        *)

Calm == {"idle", "descend", "search", "minimum", "unlink"}

LEMMA CalmStep ==
  ASSUME TreeInv, at \in Calm, at' \in Calm, UNCHANGED <<tree, content>>,
         goal' \in Cells, x' \in Cells, y' \in Cells,
         NEW D, Shape(Live, root, kid, parent, D), Cursor(D)'
  PROVE  TreeInv'
<1>1. /\ TypeOK /\ Coloured /\ at \in Calm /\ at' \in Calm
      /\ root' = root /\ kid' = kid /\ parent' = parent /\ color' = color /\ content' = content
  BY DEF TreeInv, tree
<1>2. PICK b : Even(Live, kid, color, b, HoleP, SideOf(x))
  BY DEF TreeInv
<1>3. TypeOK'
  BY <1>1 DEF TypeOK, Calm
<1>4. Live' = Live /\ HoleP = nil /\ HoleP' = nil
  BY <1>1 DEF Live, HoleP, Calm
<1>5. nil \notin Live
  BY <1>1, TypeFacts
<1>6. Even(Live', kid', color', b, HoleP', SideOf(x)')
  <2>1. Even(Live, kid, color, b, nil, SideOf(x)')
    BY <1>2, <1>4, <1>5, EvenNoHole
  <2> QED
    BY <2>1, <1>1, <1>4
<1>7. Coloured'
  BY <1>1, <1>4 DEF Coloured, Passes, Calm
<1>8. Shape(Live', root', kid', parent', D)
  BY <1>1, <1>4
<1> QED
  BY <1>3, <1>6, <1>7, <1>8 DEF TreeInv

LEMMA InsertStep ==
  ASSUME TreeInv, NEW n \in Nodes, insert(n)
  PROVE  TreeInv'
<1>1. /\ at = "idle" /\ n \notin content /\ at' = "descend" /\ goal' = n /\ x' = root /\ y' = nil
      /\ UNCHANGED <<tree, content>>
  BY DEF insert
<1>2. PICK D : Shape(Live, root, kid, parent, D)
  BY DEF TreeInv
<1>3. Cursor(D)'
  BY <1>1 DEF Cursor, DescendCursor, tree
<1>4. n \in Cells /\ root \in Cells /\ nil \in Cells
  BY TypeFacts DEF TreeInv
<1> QED
  BY <1>1, <1>2, <1>3, <1>4, CalmStep DEF Calm

LEMMA DescendStep ==
  ASSUME TreeInv, NEW n \in Nodes, insert_descend(n)
  PROVE  TreeInv'
<1>1. /\ at = "descend" /\ x # nil /\ n = goal /\ y' = x /\ x' = kid[Way(n, x)][x]
      /\ UNCHANGED <<root, kid, parent, color, at, goal, content>> /\ TypeOK
  BY DEF insert_descend, tree, Way, TreeInv
<1>2. PICK D : Shape(Live, root, kid, parent, D) /\ Cursor(D)
  BY DEF TreeInv
<1>3. /\ goal \in Nodes \ content
      /\ IF y = nil THEN x = root
         ELSE y \in Live /\ x = kid[Way(goal, y)][y] /\ OnWay(Live, kid, D, goal, y)
  BY <1>1, <1>2 DEF Cursor, DescendCursor
<1>4. x \in Live
  <2>1. CASE y = nil
    BY <2>1, <1>1, <1>2, <1>3 DEF Shape, Links
  <2>2. CASE y # nil
    <3>1. Way(goal, y) \in Sides
      BY DEF Way, Sides
    <3> QED
      BY <2>2, <3>1, <1>1, <1>2, <1>3, ShapeKids
  <2> QED
    BY <2>1, <2>2
<1>5. ASSUME NEW a \in Live, NEW s \in Sides, x \in D[kid[s][a]] PROVE s = Way(goal, a)
  <2>1. parent[x] # nil /\ (kid[s][a] = x \/ parent[x] \in D[kid[s][a]])
    BY <1>2, <1>4, <1>5, SpanSide
  <2>2. y # nil
    BY <2>1, <1>2, <1>3, <1>4, ShapeRoot
  <2>3. /\ y \in Live /\ x = kid[Way(goal, y)][y] /\ OnWay(Live, kid, D, goal, y)
        /\ Way(goal, y) \in Sides
    BY <2>2, <1>3 DEF Way, Sides
  <2>4. parent[x] = y
    BY <2>3, <1>2, <1>4, ShapeParent
  <2>5. CASE kid[s][a] = x
    BY <2>3, <2>4, <2>5, <1>2, <1>4, ShapeParent
  <2>6. CASE parent[x] \in D[kid[s][a]]
    BY <2>3, <2>4, <2>6 DEF OnWay
  <2> QED
    BY <2>1, <2>5, <2>6
<1>6. Live' = Live
  BY <1>1 DEF Live
<1>7. OnWay(Live', kid', D, goal', y')
  BY <1>1, <1>5, <1>6 DEF OnWay
<1>8. x # nil /\ y' \in Live' /\ x' = kid'[Way(goal', y')][y']
  BY <1>1, <1>4, <1>6
<1>9. Cursor(D)'
  BY <1>1, <1>3, <1>7, <1>8 DEF Cursor, DescendCursor
<1>10. x' \in Cells
  <2>1. Way(n, x) \in Sides /\ x \in Nodes
    BY <1>1, <1>4, TypeFacts DEF Way, Sides
  <2> QED
    BY <2>1, <1>1, TypeFacts
<1>11. goal \in Cells /\ x \in Cells
  BY <1>1 DEF TypeOK
<1> QED
  BY <1>1, <1>2, <1>9, <1>10, <1>11, CalmStep DEF Calm, tree

LEMMA SearchStarts ==
  ASSUME TreeInv, NEW n \in Nodes, search(n)
  PROVE  TreeInv'
<1>1. /\ at = "idle" /\ at' = "search" /\ goal' = n /\ x' = root
      /\ UNCHANGED <<root, kid, parent, color, y, content>> /\ TypeOK
  BY DEF search, tree, TreeInv
<1>2. PICK D : Shape(Live, root, kid, parent, D)
  BY DEF TreeInv
<1>3. Live' = Live
  BY <1>1 DEF Live
<1>4. root \in Live \cup {nil} /\ D[root] = Live
  BY <1>2 DEF Shape, Links
<1>5. Cursor(D)'
  BY <1>1, <1>3, <1>4 DEF Cursor, SearchCursor
<1>6. n \in Cells /\ root \in Cells /\ y \in Cells
  BY <1>1, TypeFacts DEF TypeOK
<1> QED
  BY <1>1, <1>2, <1>5, <1>6, CalmStep DEF Calm, tree

LEMMA SearchStep ==
  ASSUME TreeInv, search_step
  PROVE  TreeInv'
<1>1. /\ at = "search" /\ x # nil /\ Key(goal) # Key(x) /\ x' = kid[Way(goal, x)][x]
      /\ UNCHANGED <<root, kid, parent, color, at, goal, y, content>> /\ TypeOK
  BY DEF search_step, tree, Way, TreeInv
<1>2. PICK D : Shape(Live, root, kid, parent, D) /\ Cursor(D)
  BY DEF TreeInv
<1>3. x \in Live /\ goal \in Nodes /\ \A n \in Live : Key(n) = Key(goal) => n \in D[x]
  BY <1>1, <1>2 DEF Cursor, SearchCursor
<1>4. PICK s \in Sides : s = Way(goal, x)
  BY DEF Way, Sides
<1>5. Live' = Live /\ Live \subseteq Nodes
  BY <1>1, TypeFacts DEF Live
<1>6. kid[s][x] \in Live \cup {nil}
  BY <1>2, <1>3, ShapeKids
<1>7. ASSUME NEW n \in Live, Key(n) = Key(goal) PROVE n \in D[kid[s][x]]
  <2>1. Other(s) \in Sides /\ Other(Other(s)) = s
    BY SideFacts
  <2>2. SpanAt(kid, D, x, s) /\ SpanAt(kid, D, x, Other(s))
    BY <2>1, <1>2, <1>3 DEF Shape
  <2>3. n \in D[x] /\ n # x
    BY <1>1, <1>3, <1>7
  <2>4. n \in D[kid[s][x]] \/ n \in D[kid[Other(s)][x]]
    BY <2>2, <2>3 DEF SpanAt
  <2>5. n \in D[kid[Other(s)][x]] => Keyed(Other(s), n, x)
    BY <2>2 DEF SpanAt
  <2>6. ~Keyed(Other(s), n, x)
    <3>1. Key(n) \in Int /\ Key(x) \in Int /\ Key(goal) \in Int
      BY <1>3, <1>5, TreeAssumption
    <3> QED
      BY <3>1, <1>1, <1>4, <1>7 DEF Keyed, Way, Other
  <2> QED
    BY <2>4, <2>5, <2>6
<1>8. Cursor(D)'
  BY <1>1, <1>3, <1>4, <1>5, <1>6, <1>7 DEF Cursor, SearchCursor
<1>9. x' \in Cells /\ goal \in Cells /\ y \in Cells
  BY <1>1, <1>4, <1>6, TypeFacts DEF TypeOK
<1> QED
  BY <1>1, <1>2, <1>8, <1>9, CalmStep DEF Calm, tree

LEMMA SearchFails ==
  ASSUME TreeInv, search_fails
  PROVE  TreeInv'
<1>1. /\ at = "search" /\ at' = "idle" /\ goal' = nil
      /\ UNCHANGED <<root, kid, parent, color, x, y, content>> /\ TypeOK
  BY DEF search_fails, tree, TreeInv
<1>2. PICK D : Shape(Live, root, kid, parent, D)
  BY DEF TreeInv
<1>3. Cursor(D)'
  BY <1>1 DEF Cursor
<1>4. x \in Cells /\ y \in Cells /\ nil \in Cells
  BY <1>1, TypeFacts DEF TypeOK
<1> QED
  BY <1>1, <1>2, <1>3, <1>4, CalmStep DEF Calm, tree

LEMMA SearchFinds ==
  ASSUME TreeInv, search_finds
  PROVE  TreeInv'
<1>1. /\ at = "search" /\ x # nil /\ goal' = x
      /\ IF kid["left"][x] = nil \/ kid["right"][x] = nil
         THEN at' = "unlink" /\ x' = x
         ELSE at' = "minimum" /\ x' = kid["right"][x]
      /\ UNCHANGED <<root, kid, parent, color, y, content>> /\ TypeOK
  BY DEF search_finds, tree, TreeInv
<1>2. PICK D : Shape(Live, root, kid, parent, D) /\ Cursor(D)
  BY DEF TreeInv
<1>3. x \in Live
  BY <1>1, <1>2 DEF Cursor, SearchCursor
<1>4. Live' = Live
  BY <1>1 DEF Live
<1>5. x \in Cells /\ y \in Cells
  BY <1>1 DEF TypeOK
<1>6. CASE kid["left"][x] = nil \/ kid["right"][x] = nil
  <2>1. Cursor(D)'
    BY <1>1, <1>3, <1>4, <1>6 DEF Cursor, Sides
  <2> QED
    BY <2>1, <1>1, <1>2, <1>5, <1>6, CalmStep DEF Calm, tree
<1>7. CASE ~(kid["left"][x] = nil \/ kid["right"][x] = nil)
  <2>1. at' = "minimum" /\ x' = kid["right"][x] /\ \A s \in Sides : kid[s][x] # nil
    BY <1>1, <1>7 DEF Sides
  <2>2. /\ kid["right"][x] \in Live /\ kid["right"][x] \in D[kid["right"][x]]
        /\ parent[kid["right"][x]] = x
    BY "right" \in Sides, <2>1, <1>2, <1>3, ShapeKids DEF Sides
  <2>3. MinimumCursor(D)'
    BY <2>1, <2>2, <1>1, <1>3, <1>4 DEF MinimumCursor
  <2>4. Cursor(D)'
    BY <2>1, <2>3 DEF Cursor
  <2>5. x' \in Cells
    BY <2>1, <2>2, <1>1, TypeFacts
  <2> QED
    BY <2>1, <2>4, <2>5, <1>1, <1>2, <1>5, CalmStep DEF Calm, tree
<1> QED
  BY <1>6, <1>7

LEMMA MinimumStep ==
  ASSUME TreeInv, minimum_step
  PROVE  TreeInv'
<1>1. /\ at = "minimum" /\ kid["left"][x] # nil /\ x' = kid["left"][x]
      /\ UNCHANGED <<root, kid, parent, color, at, goal, y, content>> /\ TypeOK
  BY DEF minimum_step, tree, TreeInv
<1>2. PICK D : Shape(Live, root, kid, parent, D) /\ Cursor(D)
  BY DEF TreeInv
<1>3. MinimumCursor(D)
  BY <1>1, <1>2 DEF Cursor
<1>4. PICK R, z : R = kid["right"][goal] /\ z = kid["left"][x]
  OBVIOUS
<1>5. /\ goal \in Live /\ x \in Live /\ x \in D[R]
      /\ \A n \in D[x] : \A m \in D[R] \ D[x] : Key(n) <= Key(m)
  BY <1>3, <1>4 DEF MinimumCursor
<1>6. Live' = Live /\ Live \subseteq Nodes
  BY <1>1, TypeFacts DEF Live
<1>7. /\ z \in Live /\ z \in D[z] /\ D[z] \subseteq D[x] /\ parent[z] = x
  BY "left" \in Sides, <1>1, <1>2, <1>4, <1>5, ShapeKids DEF Sides
<1>8. D[x] \subseteq D[R]
  BY "right" \in Sides, <1>2, <1>4, <1>5, SpanSide DEF Sides
<1>9. ASSUME NEW n \in D[z], NEW m \in D[R] \ D[z] PROVE Key(n) <= Key(m)
  <2>1. CASE m \notin D[x]
    BY <2>1, <1>5, <1>7, <1>9
  <2>2. CASE m \in D[x]
    <3>1. /\ D[x] = D[z] \cup {x} \cup D[kid["right"][x]]
          /\ Keyed("left", n, x) /\ \A q \in D[kid["right"][x]] : Keyed("right", q, x)
      <4>1. SpanAt(kid, D, x, "left") /\ SpanAt(kid, D, x, "right")
        BY <1>2, <1>5 DEF Shape, Sides
      <4>2. Other("left") = "right"
        BY DEF Other
      <4> QED
        BY <4>1, <4>2, <1>4, <1>9 DEF SpanAt
    <3>2. m = x \/ Keyed("right", m, x)
      BY <2>2, <3>1, <1>9
    <3>3. n \in Nodes /\ m \in Nodes /\ x \in Nodes
      <4>1. D[x] \subseteq Live
        BY <1>2, <1>5 DEF Shape, Cells
      <4> QED
        BY <4>1, <2>2, <1>5, <1>6, <1>7
    <3>4. Key(n) \in Int /\ Key(m) \in Int /\ Key(x) \in Int
      BY <3>3, TreeAssumption
    <3> QED
      BY <3>1, <3>2, <3>4 DEF Keyed
  <2> QED
    BY <2>1, <2>2
<1>10. MinimumCursor(D)'
  BY <1>1, <1>3, <1>4, <1>6, <1>7, <1>8, <1>9 DEF MinimumCursor
<1>11. Cursor(D)'
  BY <1>1, <1>10 DEF Cursor
<1>12. x' \in Cells /\ goal \in Cells /\ y \in Cells
  BY <1>1, <1>4, <1>7, TypeFacts DEF TypeOK
<1> QED
  BY <1>1, <1>2, <1>11, <1>12, CalmStep DEF Calm, tree

-----------------------------------------------------------------------------
(* Insertion.                                                              *)

PointersOK(rt, k, par) ==
  /\ rt \in Cells /\ k \in KidType /\ par \in ParentType
  /\ \A s \in Sides : k[s][nil] = Junk /\ \A n \in Nodes : k[s][n] # Junk
  /\ \A n \in Nodes : par[n] # Junk

LEMMA TypeKept ==
  ASSUME TypeOK, PointersOK(root', kid', parent'),
         color' \in [Cells -> {"RED", "BLACK"}], color'[nil] = "BLACK",
         at' \in {"idle", "insert_fixup", "delete_fixup", "free"},
         goal' \in Cells, x' \in Cells, y' \in Cells, content' \subseteq Nodes
  PROVE  TypeOK'
BY DEF TypeOK, PointersOK, KidType, ParentType

(* SideOf is the side on which a node hangs.                               *)
LEMMA LinkFacts ==
  ASSUME NEW L, NEW D, Shape(L, root, kid, parent, D), NEW n \in L
  PROVE  /\ SideOf(n) \in Sides
         /\ parent[n] = nil => root = n
         /\ parent[n] # nil => parent[n] \in L /\ kid[SideOf(n)][parent[n]] = n
         /\ \A s \in Sides : parent[n] # nil /\ kid[s][parent[n]] = n => s = SideOf(n)
<1>1. SideOf(n) \in Sides
  BY DEF SideOf, Sides
<1>2. IF parent[n] = nil THEN root = n
      ELSE parent[n] \in L /\ \E s \in Sides : kid[s][parent[n]] = n
  BY DEF Shape, Links
<1>3. (\E s \in Sides : kid[s][parent[n]] = n) => kid[SideOf(n)][parent[n]] = n
  BY DEF SideOf, Sides
<1>4. ASSUME NEW s \in Sides, parent[n] # nil, kid[s][parent[n]] = n PROVE s = SideOf(n)
  <2>1. parent[n] \in L /\ kid[SideOf(n)][parent[n]] = n
    BY <1>2, <1>3, <1>4
  <2> QED
    BY <2>1, <1>1, <1>4, ShapeParent
<1> QED
  BY <1>1, <1>2, <1>3, <1>4

LEMMA RotateStep ==
  ASSUME TypeOK, NEW D, Shape(Live, root, kid, parent, D), NEW s \in Sides,
         NEW n \in Live, NEW m \in Live, NEW c, m = kid[Other(s)][n], c = kid[s][m],
         rotate(s, n)
  PROVE  /\ Spot(Live, root, kid, parent, D, s, SideOf(n), parent[n], n, m, c)
         /\ Rotated(root, kid, parent, s, SideOf(n), parent[n], n, m, c, root', kid', parent')
         /\ PointersOK(root', kid', parent')
         /\ \E D2 : Shape(Live, root', kid', parent', D2)
         /\ \A q \in Cells : parent'[q] = IF q = c /\ c # nil THEN n
                                          ELSE IF q = m THEN parent[n]
                                          ELSE IF q = n THEN m ELSE parent[q]
<1>1. /\ Live \subseteq Nodes /\ Live \subseteq Cells /\ nil \notin Nodes /\ nil \in Cells
      /\ root \in Cells /\ kid \in KidType /\ parent \in ParentType
      /\ \A t \in Sides : kid[t][nil] = Junk /\ \A q \in Nodes : kid[t][q] \in Cells
      /\ \A q \in Nodes : parent[q] \in Cells
      /\ Junk \notin Cells
  BY TypeFacts, TreeAssumption DEF Cells
<1>2. SideOf(n) \in Sides /\ (parent[n] # nil => kid[SideOf(n)][parent[n]] = n)
  BY LinkFacts
<1>3. Spot(Live, root, kid, parent, D, s, SideOf(n), parent[n], n, m, c)
  BY <1>1, <1>2, RotationSpot
<1>4. c \in Cells /\ m # n
  BY <1>1, <1>3 DEF Spot
<1>5. Rotated(root, kid, parent, s, SideOf(n), parent[n], n, m, c, root', kid', parent')
  BY <1>1, <1>4, RotateRotates
<1>6. PICK p, e : p = parent[n] /\ e = SideOf(n)
  OBVIOUS
<1>7. /\ root' = IF p = nil THEN m ELSE root
      /\ kid' \in KidType /\ parent' \in ParentType
      /\ \A q \in Cells : \A t \in Sides :
           kid'[t][q] = IF q = n /\ t = Other(s) THEN c
                        ELSE IF q = m /\ t = s THEN n
                        ELSE IF p # nil /\ q = p /\ t = e THEN m ELSE kid[t][q]
      /\ \A q \in Cells :
           parent'[q] = IF q = c /\ c # nil THEN n
                        ELSE IF q = m THEN p ELSE IF q = n THEN m ELSE parent[q]
  BY <1>5, <1>6 DEF Rotated
<1>8. PointersOK(root', kid', parent')
  <2>1. root' \in Cells
    BY <1>1, <1>7
  <2>2. ASSUME NEW t \in Sides PROVE kid'[t][nil] = Junk /\ \A q \in Nodes : kid'[t][q] # Junk
    <3>1. n # nil /\ m # nil
      BY <1>1
    <3>2. kid'[t][nil] = Junk
      BY <3>1, <1>1, <1>7
    <3>3. ASSUME NEW q \in Nodes PROVE kid'[t][q] # Junk
      <4>1. q \in Cells /\ c # Junk /\ n # Junk /\ m # Junk /\ kid[t][q] # Junk
        BY <1>1, <1>4 DEF Cells
      <4> QED
        BY <4>1, <1>7
    <3> QED
      BY <3>2, <3>3
  <2>3. ASSUME NEW q \in Nodes PROVE parent'[q] # Junk
    <3>1. q \in Cells /\ n # Junk /\ m # Junk /\ p # Junk /\ parent[q] # Junk
      BY <1>1, <1>6 DEF Cells
    <3> QED
      BY <3>1, <1>7
  <2> QED
    BY <2>1, <2>2, <2>3, <1>7 DEF PointersOK
<1>9. \E D2 : Shape(Live, root', kid', parent', D2)
  BY <1>2, <1>3, <1>5, RotationShape
<1> QED
  BY <1>3, <1>5, <1>6, <1>7, <1>8, <1>9

LEMMA LinkStep ==
  ASSUME TreeInv, NEW n \in Nodes, insert_link(n)
  PROVE  TreeInv'
<1>1. /\ at = "descend" /\ x = nil /\ n = goal
      /\ root' = IF y = nil THEN n ELSE root
      /\ kid' = [s \in Sides |->
                  [q \in Cells |->
                    IF q = n THEN nil
                    ELSE IF q = y /\ y # nil /\ s = Way(n, y) THEN n ELSE kid[s][q]]]
      /\ parent' = [parent EXCEPT ![n] = y]
      /\ color' = [color EXCEPT ![n] = "RED"]
      /\ content' = content \cup {n}
      /\ at' = "insert_fixup" /\ x' = n /\ goal' = goal /\ y' = y
      /\ TypeOK /\ Coloured
  BY DEF insert_link, Way, TreeInv
<1>2. PICK D : Shape(Live, root, kid, parent, D) /\ Cursor(D)
  BY DEF TreeInv
<1>3. PICK b : Even(Live, kid, color, b, HoleP, SideOf(x))
  BY DEF TreeInv
<1>4. /\ n \in Nodes \ content
      /\ IF y = nil THEN root = nil
         ELSE y \in Live /\ nil = kid[Way(n, y)][y] /\ OnWay(Live, kid, D, n, y)
  BY <1>1, <1>2 DEF Cursor, DescendCursor
<1>5. /\ Live \subseteq Nodes /\ Live \subseteq Cells /\ nil \notin Nodes /\ nil \in Cells
      /\ n \in Cells /\ y \in Cells /\ root \in Cells /\ kid \in KidType /\ parent \in ParentType
      /\ \A t \in Sides : kid[t][nil] = Junk /\ \A q \in Nodes : kid[t][q] \in Cells
      /\ \A q \in Nodes : parent[q] \in Cells /\ Junk \notin Cells
      /\ color \in [Cells -> {"RED", "BLACK"}] /\ color[nil] = "BLACK"
  BY <1>1, TypeFacts, TreeAssumption DEF Cells, TypeOK
<1>6. Live = content /\ Live' = Live \cup {n} /\ HoleP = nil /\ HoleP' = nil
  BY <1>1 DEF Live, HoleP
<1>7. /\ kid' \in KidType /\ parent' \in ParentType
      /\ \A q \in Cells : \A t \in Sides :
           kid'[t][q] = IF q = n THEN nil
                        ELSE IF q = y /\ y # nil /\ t = Way(n, y) THEN n ELSE kid[t][q]
      /\ \A q \in Cells : parent'[q] = IF q = n THEN y ELSE parent[q]
  <2>1. \A q \in Cells : \A t \in Sides :
          kid'[t][q] = IF q = n THEN nil
                       ELSE IF q = y /\ y # nil /\ t = Way(n, y) THEN n ELSE kid[t][q]
    BY <1>1
  <2>2. kid' \in KidType
    BY <1>1, <1>5 DEF KidType
  <2> QED
    BY <2>1, <2>2, <1>1, <1>5 DEF ParentType
<1>8. Grafted(root, kid, parent, n, y, root', kid', parent')
  BY <1>1, <1>7 DEF Grafted
<1>9. OnWay(Live, kid, D, n, y)
  <2>1. CASE y = nil
    <3>1. root = nil
      BY <1>4, <2>1
    <3>2. Live = {}
      BY <3>1, <1>2, ShapeRoot
    <3> QED
      BY <3>2 DEF OnWay
  <2> QED
    BY <2>1, <1>4
<1>10. PICK D2 : Shape(Live', root', kid', parent', D2)
  <2>1. \E D2 : Shape(Live \cup {n}, root', kid', parent', D2)
    BY <1>2, <1>4, <1>6, <1>8, <1>9, GraftShape
  <2> QED
    BY <2>1, <1>6
<1>11. color' \in [Cells -> {"RED", "BLACK"}] /\ color'[nil] = "BLACK" /\ color'[n] = "RED"
       /\ \A q \in Cells : q # n => color'[q] = color[q]
  BY <1>1, <1>5
<1>12. PICK b2 : Even(Live', kid', color', b2, HoleP', SideOf(x)')
  <2>1. Even(Live, kid, color, b, nil, SideOf(x)')
    BY <1>3, <1>5, <1>6, EvenNoHole
  <2>2. \A q \in Live : color'[q] = color[q]
    BY <1>4, <1>5, <1>6, <1>11
  <2>3. \E b2 : Even(Live \cup {n}, kid', color', b2, nil, SideOf(x)')
    BY <2>1, <2>2, <1>2, <1>4, <1>6, <1>8, <1>11, EvenGraft
  <2> QED
    BY <2>3, <1>6
<1>13. PointersOK(root', kid', parent')
  <2>1. root' \in Cells
    BY <1>1, <1>5
  <2>2. ASSUME NEW t \in Sides PROVE kid'[t][nil] = Junk /\ \A q \in Nodes : kid'[t][q] # Junk
    BY <1>5, <1>7 DEF Cells
  <2>3. \A q \in Nodes : parent'[q] # Junk
    BY <1>5, <1>7 DEF Cells
  <2> QED
    BY <2>1, <2>2, <2>3, <1>7 DEF PointersOK
<1>14. TypeOK'
  <2>1. goal \in Cells /\ content \subseteq Nodes
    BY <1>1 DEF TypeOK
  <2> QED
    BY <2>1, <1>1, <1>5, <1>11, <1>13, TypeKept
<1>15. Cursor(D2)'
  BY <1>1, <1>6, <1>11 DEF Cursor
<1>16. Coloured'
  <2>1. ASSUME NEW q \in Live, q # n
        PROVE  color'[q] = "BLACK" \/ (parent'[q] # nil /\ color'[parent'[q]] = "BLACK")
    <3>1. color[q] = "BLACK" \/ (parent[q] # nil /\ color[parent[q]] = "BLACK")
      BY <1>1 DEF Coloured, Passes
    <3>2. parent'[q] = parent[q] /\ color'[q] = color[q]
      BY <2>1, <1>5, <1>7, <1>11
    <3>3. parent[q] # nil => parent[q] \in Live
      BY <1>2, LinkFacts
    <3>4. parent[q] # nil => color'[parent[q]] = color[parent[q]]
      BY <3>3, <1>4, <1>5, <1>6, <1>11
    <3> QED
      BY <3>1, <3>2, <3>4
  <2> QED
    BY <2>1, <1>1, <1>6 DEF Coloured, Passes
<1> QED
  BY <1>10, <1>12, <1>14, <1>15, <1>16 DEF TreeInv

(* A red parent is not the root and hangs below a black grandparent.       *)
LEMMA RedParent ==
  ASSUME TypeOK, Coloured, NEW D, Shape(Live, root, kid, parent, D), Cursor(D),
         at = "insert_fixup", color[parent[x]] = "RED"
  PROVE  /\ x \in Live /\ color[x] = "RED" /\ parent[x] \in Live /\ Grand \in Live
         /\ color[Grand] = "BLACK" /\ kid[SideOf(parent[x])][Grand] = parent[x]
         /\ kid[SideOf(x)][parent[x]] = x
         /\ x # parent[x] /\ x # Grand /\ parent[x] # Grand
         /\ \A q \in Live : \/ color[q] = "BLACK" \/ q = x
                            \/ parent[q] # nil /\ color[parent[q]] = "BLACK"
<1>1. x \in Live /\ color[x] = "RED"
  BY DEF Cursor
<1>2. color[nil] = "BLACK" /\ nil \notin Live
  BY TypeFacts
<1>3. PICK p : p = parent[x]
  OBVIOUS
<1>4. p \in Live /\ kid[SideOf(x)][p] = x /\ SideOf(x) \in Sides
  BY <1>1, <1>2, <1>3, LinkFacts
<1>5. p # x /\ p \notin D[x]
  BY <1>1, <1>4, ShapeParent
<1>6. \A q \in Live : \/ color[q] = "BLACK" \/ q = x
                      \/ parent[q] # nil /\ color[parent[q]] = "BLACK"
  BY DEF Coloured, Passes
<1>7. parent[p] # nil /\ color[parent[p]] = "BLACK"
  BY <1>3, <1>4, <1>5, <1>6
<1>8. parent[p] \in Live /\ kid[SideOf(p)][parent[p]] = p /\ parent[p] = Grand
  BY <1>3, <1>4, <1>7, LinkFacts DEF Grand
<1>9. x # parent[p]
  BY <1>1, <1>7
<1> QED
  BY <1>1, <1>3, <1>4, <1>5, <1>6, <1>7, <1>8, <1>9

LEMMA UncleStep ==
  ASSUME TreeInv, NEW s \in Sides, insert_fixup_uncle(s)
  PROVE  TreeInv'
<1>1. /\ TypeOK /\ Coloured /\ at = "insert_fixup" /\ color[parent[x]] = "RED"
      /\ s = SideOf(parent[x]) /\ color[kid[Other(s)][Grand]] = "RED"
      /\ color' = [color EXCEPT ![parent[x]] = "BLACK",
                                ![kid[Other(s)][Grand]] = "BLACK", ![Grand] = "RED"]
      /\ x' = Grand
      /\ UNCHANGED <<root, kid, parent, at, goal, y, content>>
  BY DEF insert_fixup_uncle, TreeInv
<1>2. PICK D : Shape(Live, root, kid, parent, D) /\ Cursor(D)
  BY DEF TreeInv
<1>3. PICK b : Even(Live, kid, color, b, HoleP, SideOf(x))
  BY DEF TreeInv
<1>4. PICK p, g, u : p = parent[x] /\ g = Grand /\ u = kid[Other(s)][g]
  OBVIOUS
<1>5. /\ x \in Live /\ color[x] = "RED" /\ p \in Live /\ g \in Live
      /\ color[g] = "BLACK" /\ kid[s][g] = p /\ x # p /\ x # g /\ p # g
      /\ \A q \in Live : \/ color[q] = "BLACK" \/ q = x
                         \/ parent[q] # nil /\ color[parent[q]] = "BLACK"
  BY <1>1, <1>2, <1>4, RedParent
<1>6. /\ Live \subseteq Cells /\ nil \notin Live /\ nil \in Cells
      /\ color \in [Cells -> {"RED", "BLACK"}] /\ color[nil] = "BLACK"
  BY <1>1, TypeFacts
<1>7. Other(s) \in Sides /\ \A t \in Sides : t = s \/ t = Other(s)
  BY SideFacts
<1>8. u \in Live
  BY <1>1, <1>2, <1>4, <1>5, <1>6, <1>7, ShapeKids
<1>9. color[u] = "RED" /\ u # g
  BY <1>1, <1>4, <1>5
<1>10. /\ color' \in [Cells -> {"RED", "BLACK"}]
       /\ color'[g] = "RED" /\ color'[p] = "BLACK" /\ color'[u] = "BLACK"
       /\ \A q \in Cells : q # g /\ q # p /\ q # u => color'[q] = color[q]
  BY <1>1, <1>4, <1>5, <1>6, <1>8, <1>9
<1>11. color'[nil] = "BLACK"
  BY <1>5, <1>6, <1>8, <1>10
<1>12. Live' = Live /\ HoleP = nil /\ HoleP' = nil
  BY <1>1 DEF Live, HoleP
<1>13. TypeOK'
  <2>1. goal \in Cells /\ y \in Cells /\ content \subseteq Nodes /\ x' \in Cells
    BY <1>1, <1>4, <1>5, <1>6 DEF TypeOK
  <2>2. PointersOK(root', kid', parent')
    BY <1>1 DEF TypeOK, PointersOK, KidType, ParentType
  <2> QED
    BY <2>1, <2>2, <1>1, <1>10, <1>11, TypeKept
<1>14. Shape(Live', root', kid', parent', D)
  BY <1>1, <1>2, <1>12
<1>15. Cursor(D)'
  BY <1>1, <1>4, <1>5, <1>10, <1>12 DEF Cursor
<1>16. PICK b2 : Even(Live', kid', color', b2, HoleP', SideOf(x)')
  <2>1. Even(Live, kid, color, b, nil, SideOf(x)')
    BY <1>3, <1>6, <1>12, EvenNoHole
  <2>2. /\ \A q \in Live \ {g, p, u} : color'[q] = color[q]
        /\ p = kid[s][g] /\ u = kid[Other(s)][g] /\ color[p] = "RED"
    BY <1>1, <1>4, <1>5, <1>6, <1>10
  <2>3. \E b2 : Even(Live, kid, color', b2, nil, SideOf(x)')
    BY <2>1, <2>2, <1>2, <1>5, <1>8, <1>9, <1>10, EvenUncle
  <2> QED
    BY <2>3, <1>1, <1>12
<1>17. Coloured'
  <2>1. ASSUME NEW q \in Live, q # g
        PROVE  color'[q] = "BLACK" \/ (parent[q] # nil /\ color'[parent[q]] = "BLACK")
    <3>1. parent[q] # nil => parent[q] \in Live /\ kid[SideOf(q)][parent[q]] = q /\ SideOf(q) \in Sides
      BY <1>2, LinkFacts
    <3>2. CASE q \in {p, u}
      BY <3>2, <1>10
    <3>3. CASE q = x
      BY <3>3, <1>4, <1>5, <1>6, <1>10
    <3>4. CASE q \notin {p, u, x}
      <4>1. color'[q] = color[q]
        BY <2>1, <3>4, <1>6, <1>10
      <4>2. parent[q] # nil => parent[q] # g
        BY <3>1, <3>4, <1>4, <1>5, <1>7
      <4>3. parent[q] # nil /\ color[parent[q]] = "BLACK" => color'[parent[q]] = "BLACK"
        BY <4>2, <3>1, <1>6, <1>10
      <4> QED
        BY <4>1, <4>3, <3>4, <1>5
    <3> QED
      BY <3>2, <3>3, <3>4
  <2> QED
    BY <2>1, <1>1, <1>4, <1>12 DEF Coloured, Passes
<1> QED
  BY <1>13, <1>14, <1>15, <1>16, <1>17 DEF TreeInv

LEMMA TriangleStep ==
  ASSUME TreeInv, NEW s \in Sides, insert_fixup_triangle(s)
  PROVE  TreeInv'
<1>1. /\ TypeOK /\ Coloured /\ at = "insert_fixup" /\ color[parent[x]] = "RED"
      /\ s = SideOf(parent[x]) /\ x = kid[Other(s)][parent[x]]
      /\ x' = parent[x] /\ rotate(s, parent[x])
      /\ UNCHANGED <<color, at, goal, y, content>>
  BY DEF insert_fixup_triangle, TreeInv
<1>2. PICK D : Shape(Live, root, kid, parent, D) /\ Cursor(D)
  BY DEF TreeInv
<1>3. PICK b : Even(Live, kid, color, b, HoleP, SideOf(x))
  BY DEF TreeInv
<1>4. PICK p, g, c : p = parent[x] /\ g = Grand /\ c = kid[s][x]
  OBVIOUS
<1>5. /\ x \in Live /\ color[x] = "RED" /\ p \in Live /\ g \in Live /\ color[p] = "RED"
      /\ color[g] = "BLACK" /\ kid[s][g] = p /\ x # p /\ x # g /\ p # g /\ g = parent[p]
      /\ \A q \in Live : \/ color[q] = "BLACK" \/ q = x
                         \/ parent[q] # nil /\ color[parent[q]] = "BLACK"
  BY <1>1, <1>2, <1>4, RedParent DEF Grand
<1>6. /\ Live \subseteq Cells /\ nil \notin Live /\ nil \in Cells
      /\ color \in [Cells -> {"RED", "BLACK"}] /\ color[nil] = "BLACK"
      /\ SideOf(p) \in Sides
  BY <1>1, TypeFacts
<1>7. /\ Spot(Live, root, kid, parent, D, s, SideOf(p), parent[p], p, x, c)
      /\ Rotated(root, kid, parent, s, SideOf(p), parent[p], p, x, c, root', kid', parent')
      /\ PointersOK(root', kid', parent')
      /\ \E D2 : Shape(Live, root', kid', parent', D2)
      /\ \A q \in Cells : parent'[q] = IF q = c /\ c # nil THEN p
                                       ELSE IF q = x THEN parent[p]
                                       ELSE IF q = p THEN x ELSE parent[q]
  BY <1>1, <1>2, <1>4, <1>5, RotateStep
<1>8. Live' = Live /\ HoleP = nil /\ HoleP' = nil
  BY <1>1 DEF Live, HoleP
<1>9. TypeOK'
  <2>1. goal \in Cells /\ y \in Cells /\ content \subseteq Nodes /\ x' \in Cells
    BY <1>1, <1>4, <1>5, <1>6 DEF TypeOK
  <2> QED
    BY <2>1, <1>1, <1>6, <1>7, TypeKept
<1>10. PICK D2 : Shape(Live', root', kid', parent', D2)
  BY <1>7, <1>8
<1>11. Cursor(D2)'
  BY <1>1, <1>4, <1>5, <1>8 DEF Cursor
<1>12. PICK b2 : Even(Live', kid', color', b2, HoleP', SideOf(x)')
  <2>1. Even(Live, kid, color, b, nil, SideOf(x)')
    BY <1>3, <1>6, <1>8, EvenNoHole
  <2>2. \E b2 : Even(Live, kid', color, b2, nil, SideOf(x)')
    BY <2>1, <1>2, <1>5, <1>6, <1>7, RotationEven
  <2> QED
    BY <2>2, <1>1, <1>8
<1>13. Coloured'
  <2>1. ASSUME NEW q \in Live, q # p
        PROVE  color[q] = "BLACK" \/ (parent'[q] # nil /\ color[parent'[q]] = "BLACK")
    <3>1. CASE q = c
      <4>1. parent[c] = x /\ c # x
        BY <3>1, <1>2, <1>4, <1>5, <1>6, ShapeKids
      <4> QED
        BY <3>1, <4>1, <1>5
    <3>2. CASE q = x /\ q # c
      BY <3>2, <1>5, <1>6, <1>7
    <3>3. CASE q # x /\ q # c
      <4>1. parent'[q] = parent[q]
        BY <2>1, <3>3, <1>6, <1>7
      <4> QED
        BY <4>1, <3>3, <1>5
    <3> QED
      BY <3>1, <3>2, <3>3
  <2> QED
    BY <2>1, <1>1, <1>4, <1>8 DEF Coloured, Passes
<1> QED
  BY <1>9, <1>10, <1>11, <1>12, <1>13 DEF TreeInv

LEMMA LineStep ==
  ASSUME TreeInv, NEW s \in Sides, insert_fixup_line(s)
  PROVE  TreeInv'
<1>1. /\ TypeOK /\ Coloured /\ at = "insert_fixup" /\ color[parent[x]] = "RED"
      /\ s = SideOf(parent[x]) /\ color[kid[Other(s)][Grand]] # "RED"
      /\ x # kid[Other(s)][parent[x]]
      /\ color' = [color EXCEPT ![parent[x]] = "BLACK", ![Grand] = "RED"]
      /\ rotate(Other(s), Grand)
      /\ UNCHANGED <<at, goal, x, y, content>>
  BY DEF insert_fixup_line, TreeInv
<1>2. PICK D : Shape(Live, root, kid, parent, D) /\ Cursor(D)
  BY DEF TreeInv
<1>3. PICK b : Even(Live, kid, color, b, HoleP, SideOf(x))
  BY DEF TreeInv
<1>4. PICK p, g, c, u : /\ p = parent[x] /\ g = Grand /\ c = kid[Other(s)][p]
                        /\ u = kid[Other(s)][g]
  OBVIOUS
<1>5. /\ x \in Live /\ color[x] = "RED" /\ p \in Live /\ g \in Live /\ color[p] = "RED"
      /\ color[g] = "BLACK" /\ kid[s][g] = p /\ x # p /\ x # g /\ p # g
      /\ \A q \in Live : \/ color[q] = "BLACK" \/ q = x
                         \/ parent[q] # nil /\ color[parent[q]] = "BLACK"
  BY <1>1, <1>2, <1>4, RedParent
<1>6. /\ Live \subseteq Cells /\ nil \notin Live /\ nil \in Cells
      /\ color \in [Cells -> {"RED", "BLACK"}] /\ color[nil] = "BLACK"
      /\ SideOf(g) \in Sides
  BY <1>1, TypeFacts
<1>7. /\ Other(s) \in Sides /\ Other(Other(s)) = s
      /\ \A t \in Sides : t = s \/ t = Other(s)
  BY SideFacts
<1>8. /\ Spot(Live, root, kid, parent, D, Other(s), SideOf(g), parent[g], g, p, c)
      /\ Rotated(root, kid, parent, Other(s), SideOf(g), parent[g], g, p, c, root', kid', parent')
      /\ PointersOK(root', kid', parent')
      /\ \E D2 : Shape(Live, root', kid', parent', D2)
      /\ \A q \in Cells : parent'[q] = IF q = c /\ c # nil THEN g
                                       ELSE IF q = p THEN parent[g]
                                       ELSE IF q = g THEN p ELSE parent[q]
  BY <1>1, <1>2, <1>4, <1>5, <1>7, RotateStep
<1>9. c # p /\ c # g /\ c \in Cells
  BY <1>6, <1>8 DEF Spot
<1>10. /\ color' \in [Cells -> {"RED", "BLACK"}] /\ color'[nil] = "BLACK"
       /\ color'[g] = "RED" /\ color'[p] = "BLACK"
       /\ \A q \in Cells : q # g /\ q # p => color'[q] = color[q]
  BY <1>1, <1>4, <1>5, <1>6
<1>11. Live' = Live /\ HoleP = nil /\ HoleP' = nil
  BY <1>1 DEF Live, HoleP
<1>12. TypeOK'
  <2>1. goal \in Cells /\ y \in Cells /\ content \subseteq Nodes /\ x \in Cells
    BY <1>1 DEF TypeOK
  <2> QED
    BY <2>1, <1>1, <1>8, <1>10, TypeKept
<1>13. PICK D2 : Shape(Live', root', kid', parent', D2)
  BY <1>8, <1>11
<1>14. Cursor(D2)'
  BY <1>1, <1>5, <1>6, <1>10, <1>11 DEF Cursor
<1>15. PICK b2 : Even(Live', kid', color', b2, HoleP', SideOf(x)')
  <2>1. Even(Live, kid, color, b, nil, SideOf(x)')
    BY <1>3, <1>6, <1>11, EvenNoHole
  <2>2. \A q \in Live \ {g, p} : color'[q] = color[q]
    BY <1>6, <1>10
  <2>3. p # nil /\ g # nil /\ color'[g] = color[p] /\ color'[p] = color[g]
    BY <1>5, <1>6, <1>10
  <2>4. \E b2 : Even(Live, kid', color', b2, nil, SideOf(x)')
    BY <2>1, <2>2, <2>3, <1>2, <1>5, <1>6, <1>7, <1>8, RotationEven
  <2> QED
    BY <2>4, <1>11
<1>16. Coloured'
  <2>1. ASSUME NEW q \in Live
        PROVE  color'[q] = "BLACK" \/ (parent'[q] # nil /\ color'[parent'[q]] = "BLACK")
    <3>1. parent[q] # nil => parent[q] \in Live /\ kid[SideOf(q)][parent[q]] = q /\ SideOf(q) \in Sides
      BY <1>2, LinkFacts
    <3>2. CASE q = c
      <4>1. parent[c] = p
        BY <3>2, <1>2, <1>4, <1>5, <1>6, <1>7, ShapeKids
      <4>2. color[c] = "BLACK"
        BY <3>2, <4>1, <1>1, <1>4, <1>5
      <4> QED
        BY <3>2, <4>2, <1>9, <1>10
    <3>3. CASE q = p
      BY <3>3, <1>10
    <3>4. CASE q = g
      BY <3>4, <1>5, <1>6, <1>8, <1>9, <1>10
    <3>5. CASE q \notin {c, p, g}
      <4>1. parent'[q] = parent[q] /\ color'[q] = color[q]
        BY <3>5, <1>6, <1>8, <1>10
      <4>2. CASE q = x
        BY <4>1, <4>2, <1>4, <1>5, <1>6, <1>10
      <4>3. CASE q # x
        <5>1. SUFFICES ASSUME color[q] # "BLACK"
                       PROVE  parent[q] # nil /\ color'[parent[q]] = "BLACK"
          BY <4>1
        <5>2. parent[q] # nil /\ color[parent[q]] = "BLACK"
          BY <4>3, <5>1, <1>5
        <5>3. parent[q] # g
          <6>1. ASSUME parent[q] = g PROVE FALSE
            <7>1. q = p \/ q = u
              BY <6>1, <5>2, <3>1, <1>4, <1>5, <1>7
            <7>2. q = u /\ color[u] \in {"RED", "BLACK"}
              BY <7>1, <3>5, <1>6
            <7> QED
              BY <7>2, <5>1, <1>1, <1>4
          <6> QED
            BY <6>1
        <5> QED
          BY <5>2, <5>3, <3>1, <1>5, <1>6, <1>10
      <4> QED
        BY <4>2, <4>3
    <3> QED
      BY <3>2, <3>3, <3>4, <3>5
  <2> QED
    BY <2>1, <1>1, <1>11 DEF Coloured, Passes
<1> QED
  BY <1>12, <1>13, <1>14, <1>15, <1>16 DEF TreeInv

LEMMA InsertDone ==
  ASSUME TreeInv, insert_done
  PROVE  TreeInv'
<1>1. /\ TypeOK /\ Coloured /\ at = "insert_fixup" /\ color[parent[x]] # "RED"
      /\ color' = [color EXCEPT ![root] = "BLACK"]
      /\ at' = "idle" /\ goal' = nil /\ x' = nil /\ y' = nil
      /\ UNCHANGED <<root, kid, parent, content>>
  BY DEF insert_done, TreeInv
<1>2. PICK D : Shape(Live, root, kid, parent, D) /\ Cursor(D)
  BY DEF TreeInv
<1>3. PICK b : Even(Live, kid, color, b, HoleP, SideOf(x))
  BY DEF TreeInv
<1>4. x \in Live /\ color[x] = "RED"
  BY <1>1, <1>2 DEF Cursor
<1>5. /\ Live \subseteq Cells /\ nil \notin Live /\ nil \in Cells
      /\ color \in [Cells -> {"RED", "BLACK"}] /\ color[nil] = "BLACK"
  BY <1>1, TypeFacts
<1>6. root \in Live
  BY <1>2, <1>4, ShapeRoot DEF Shape, Links
<1>7. /\ color' \in [Cells -> {"RED", "BLACK"}] /\ color'[nil] = "BLACK"
      /\ color'[root] = "BLACK" /\ \A q \in Cells : q # root => color'[q] = color[q]
  BY <1>1, <1>5, <1>6
<1>8. Live' = Live /\ HoleP = nil /\ HoleP' = nil
  BY <1>1 DEF Live, HoleP
<1>9. TypeOK'
  <2>1. content \subseteq Nodes
    BY <1>1 DEF TypeOK
  <2>2. PointersOK(root', kid', parent')
    BY <1>1 DEF TypeOK, PointersOK, KidType, ParentType
  <2> QED
    BY <2>1, <2>2, <1>1, <1>5, <1>7, TypeKept
<1>10. Shape(Live', root', kid', parent', D)
  BY <1>1, <1>2, <1>8
<1>11. Cursor(D)'
  BY <1>1 DEF Cursor
<1>12. PICK b2 : Even(Live', kid', color', b2, HoleP', SideOf(x)')
  <2>1. Even(Live, kid, color, b, nil, SideOf(x)')
    BY <1>3, <1>5, <1>8, EvenNoHole
  <2>2. CASE color[root] = "RED"
    <3>1. \A q \in Live \ {root} : color'[q] = color[q]
      BY <1>5, <1>7
    <3>2. \E b2 : Even(Live, kid, color', b2, nil, SideOf(x)')
      BY <2>1, <2>2, <3>1, <1>2, <1>6, <1>7, EvenBlacken
    <3> QED
      BY <3>2, <1>1, <1>8
  <2>3. CASE color[root] # "RED"
    <3>1. color' = color
      BY <2>3, <1>1, <1>5, <1>6
    <3> QED
      BY <3>1, <2>1, <1>1, <1>8
  <2> QED
    BY <2>2, <2>3
<1>13. Coloured'
  <2>1. ASSUME NEW q \in Live
        PROVE  color'[q] = "BLACK" \/ (parent[q] # nil /\ color'[parent[q]] = "BLACK")
    <3>1. parent[q] # nil => parent[q] \in Cells
      BY <1>2, <1>5, LinkFacts
    <3>2. color[q] = "BLACK" \/ q = x \/ (parent[q] # nil /\ color[parent[q]] = "BLACK")
      BY <1>1 DEF Coloured, Passes
    <3>3. q = x => q = root \/ (parent[q] # nil /\ color[parent[q]] = "BLACK")
      <4>1. parent[q] # nil => color[parent[q]] \in {"RED", "BLACK"}
        BY <3>1, <1>5
      <4> QED
        BY <4>1, <1>1, <1>2, <1>4, LinkFacts
    <3>4. (color[q] = "BLACK" \/ q = root) => color'[q] = "BLACK"
      BY <1>5, <1>7
    <3>5. parent[q] # nil /\ color[parent[q]] = "BLACK" => color'[parent[q]] = "BLACK"
      BY <3>1, <1>7
    <3> QED
      BY <3>2, <3>3, <3>4, <3>5
  <2> QED
    BY <2>1, <1>1, <1>8 DEF Coloured, Passes
<1> QED
  BY <1>9, <1>10, <1>11, <1>12, <1>13 DEF TreeInv

-----------------------------------------------------------------------------
(* Deletion: unlinking a node.                                             *)

(* The place that counts once more hangs on the side SideOf finds, even if *)
(* the cursor is the sentinel.                                             *)
LEMMA HoleSide ==
  ASSUME NEW L, NEW rt, NEW k, NEW par, NEW D, Shape(L, rt, k, par, D),
         NEW col, NEW b, NEW p \in L, NEW e \in Sides, Even(L, k, col, b, p, e)
  PROVE  (IF k[e][p] = k["left"][p] THEN "left" ELSE "right") = e
<1>1. k[Other(e)][p] # k[e][p]
  BY EvenSibling
<1> QED
  BY <1>1 DEF Sides, Other

LEMMA UnlinkStep ==
  ASSUME TreeInv, delete_unlink
  PROVE  TreeInv'
<1>1. PICK c : c = IF kid["left"][x] = nil THEN kid["right"][x] ELSE kid["left"][x]
  OBVIOUS
<1>2. /\ TypeOK /\ Coloured /\ at = "unlink" /\ root' = NewRoot(x, c) /\ kid' = NewKid(kid, x, c)
      /\ parent' = [parent EXCEPT ![c] = parent[x]]
      /\ at' = (IF color[x] = "BLACK" THEN "delete_fixup" ELSE "free") /\ x' = c
      /\ UNCHANGED <<goal, y, content, color>>
  BY <1>1 DEF delete_unlink, AfterUnlink, TreeInv
<1>3. PICK D : Shape(Live, root, kid, parent, D) /\ Cursor(D)
  BY DEF TreeInv
<1>4. PICK b : Even(Live, kid, color, b, HoleP, SideOf(x))
  BY DEF TreeInv
<1>5. x = goal /\ x \in Live /\ \E s \in Sides : kid[s][x] = nil
  BY <1>2, <1>3 DEF Cursor
<1>6. /\ Live \subseteq Nodes /\ Live \subseteq Cells /\ nil \notin Nodes /\ nil \in Cells
      /\ root \in Cells /\ kid \in KidType /\ parent \in ParentType
      /\ \A t \in Sides : kid[t][nil] = Junk /\ \A q \in Nodes : kid[t][q] \in Cells
      /\ \A q \in Nodes : parent[q] \in Cells
      /\ Junk \notin Cells /\ "left" \in Sides /\ "right" \in Sides
      /\ color \in [Cells -> {"RED", "BLACK"}] /\ color[nil] = "BLACK"
  BY <1>2, TypeFacts, TreeAssumption DEF Cells
<1>7. PICK p, e : p = parent[x] /\ e = SideOf(x)
  OBVIOUS
<1>8. e \in Sides /\ p \in Cells /\ (p # nil => kid[e][p] = x)
  BY <1>3, <1>5, <1>6, <1>7, LinkFacts
<1>9. CutSpot(Live, root, kid, parent, e, p, x, c)
  <2>1. \E s \in Sides : kid[s][x] = nil /\ c = kid[Other(s)][x]
    BY <1>1, <1>5, <1>6 DEF Sides, Other
  <2> QED
    BY <2>1, <1>5, <1>7, <1>8 DEF CutSpot
<1>10. /\ c \in (Live \ {x}) \cup {nil} /\ p \in (Live \ {x}) \cup {nil}
       /\ c # nil => parent[c] = x /\ c # p /\ c # root
       /\ p # nil => root # x
  BY <1>3, <1>9, CutFacts
<1>11. /\ root' = IF p = nil THEN c ELSE root
       /\ kid' \in KidType /\ parent' \in ParentType
       /\ \A q \in Cells : \A t \in Sides :
            kid'[t][q] = IF p # nil /\ q = p /\ t = e THEN c ELSE kid[t][q]
       /\ \A q \in Cells : parent'[q] = IF q = c THEN p ELSE parent[q]
  <2>1. kid' = IF p = nil THEN kid ELSE [kid EXCEPT ![e][p] = c]
    BY <1>2, <1>7 DEF NewKid
  <2>2. c \in Cells
    BY <1>6, <1>10
  <2>3. /\ kid' \in KidType
        /\ \A q \in Cells : \A t \in Sides :
             kid'[t][q] = IF p # nil /\ q = p /\ t = e THEN c ELSE kid[t][q]
    BY <2>1, <2>2, <1>6, <1>8 DEF KidType
  <2>4. /\ parent' \in ParentType
        /\ \A q \in Cells : parent'[q] = IF q = c THEN p ELSE parent[q]
    BY <2>2, <1>2, <1>6, <1>7, <1>8 DEF ParentType
  <2>5. root' = IF p = nil THEN c ELSE root
    BY <1>2, <1>7 DEF NewRoot
  <2> QED
    BY <2>3, <2>4, <2>5
<1>12. Cut(Live, root, kid, parent, e, p, x, c, root', kid', parent')
  BY <1>6, <1>11 DEF Cut
<1>13. Live' = Live \ {x} /\ HoleP = nil /\ content' = content /\ Live = content
  BY <1>2, <1>5 DEF Live, HoleP
<1>14. PICK D2 : Shape(Live', root', kid', parent', D2)
  BY <1>3, <1>9, <1>12, <1>13, CutShape
<1>15. c # root' <=> p # nil
  <2>1. p # nil => root # nil
    BY <1>3, <1>5, ShapeRoot
  <2> QED
    BY <2>1, <1>10, <1>11
<1>16. Even(Live', kid', color', b, IF color[x] = "BLACK" THEN p ELSE nil, e)
  <2>1. Even(Live \ {x}, kid', color, b, IF color[x] = "BLACK" THEN p ELSE nil, e)
    BY <1>3, <1>4, <1>9, <1>12, <1>13, EvenCut
  <2> QED
    BY <2>1, <1>2, <1>13
<1>17. parent'[c] = p /\ (p # nil => p \in Live' /\ kid'[e][p] = c) /\ c \in Live' \cup {nil}
  BY <1>6, <1>8, <1>10, <1>11, <1>13
<1>18. HoleP' = IF color[x] = "BLACK" THEN p ELSE nil
  BY <1>2, <1>15, <1>17 DEF HoleP
<1>19. color[x] = "BLACK" /\ p # nil => SideOf(x)' = e
  <2>1. SUFFICES ASSUME color[x] = "BLACK", p # nil PROVE SideOf(x)' = e
    OBVIOUS
  <2>2. Even(Live', kid', color', b, p, e)
    BY <2>1, <1>16
  <2>3. (IF kid'[e][p] = kid'["left"][p] THEN "left" ELSE "right") = e
    BY <2>1, <2>2, <1>8, <1>14, <1>17, HoleSide
  <2> QED
    BY <2>1, <2>3, <1>2, <1>17 DEF SideOf
<1>20. \E b2 : Even(Live', kid', color', b2, HoleP', SideOf(x)')
  <2>1. CASE color[x] = "BLACK" /\ p # nil
    BY <2>1, <1>16, <1>18, <1>19
  <2>2. CASE ~(color[x] = "BLACK" /\ p # nil)
    <3>1. HoleP' = nil /\ Even(Live', kid', color', b, nil, e) /\ nil \notin Live'
      BY <2>2, <1>6, <1>13, <1>16, <1>18
    <3>2. Even(Live', kid', color', b, nil, SideOf(x)')
      BY <3>1, EvenNoHole
    <3> QED
      BY <3>1, <3>2
  <2> QED
    BY <2>1, <2>2
<1>21. Cursor(D2)'
  <2>1. goal' \in content'
    BY <1>2, <1>5, <1>13
  <2>2. at' = "delete_fixup" => RepairCursor'
    <3>1. SUFFICES ASSUME color[x] = "BLACK" PROVE RepairCursor'
      BY <1>2
    <3> QED
      BY <3>1, <1>2, <1>15, <1>17, <1>19 DEF RepairCursor
  <2>3. at' \in {"delete_fixup", "free"}
    BY <1>2
  <2> QED
    BY <2>1, <2>2, <2>3 DEF Cursor
<1>22. TypeOK'
  <2>1. goal \in Cells /\ y \in Cells /\ content \subseteq Nodes /\ c \in Cells
    BY <1>2, <1>6, <1>10 DEF TypeOK
  <2>2. PointersOK(root', kid', parent')
    <3>1. root' \in Cells
      BY <2>1, <1>6, <1>11
    <3>2. ASSUME NEW t \in Sides PROVE kid'[t][nil] = Junk /\ \A q \in Nodes : kid'[t][q] # Junk
      BY <2>1, <1>6, <1>11 DEF Cells
    <3>3. \A q \in Nodes : parent'[q] # Junk
      BY <1>6, <1>8, <1>11 DEF Cells
    <3> QED
      BY <3>1, <3>2, <3>3, <1>11 DEF PointersOK
  <2> QED
    BY <2>1, <2>2, <1>2, <1>6, TypeKept
<1>23. Coloured'
  <2>1. ASSUME NEW q \in Live, q # x
        PROVE  \/ color[q] = "BLACK" \/ (at' = "delete_fixup" /\ q = c)
               \/ parent'[q] # nil /\ color[parent'[q]] = "BLACK"
    <3>1. color[q] = "BLACK" \/ (parent[q] # nil /\ color[parent[q]] = "BLACK")
      BY <1>2 DEF Coloured, Passes
    <3>2. CASE q = c
      BY <3>1, <3>2, <1>2, <1>6, <1>10
    <3>3. CASE q # c
      BY <3>1, <3>3, <1>6, <1>11
    <3> QED
      BY <3>2, <3>3
  <2> QED
    BY <2>1, <1>2, <1>13 DEF Coloured, Passes
<1> QED
  BY <1>14, <1>20, <1>21, <1>22, <1>23 DEF TreeInv

(* The successor's place among the keys is that of the node it replaces.   *)
LEMMA SuccessorFits ==
  ASSUME TypeOK, NEW D, Shape(Live, root, kid, parent, D), MinimumCursor(D),
         kid["left"][x] = nil, NEW e \in Sides, NEW p \in Live, NEW c,
         p = parent[x], kid[e][p] = x, c = kid["right"][x],
         NEW rt1, NEW k1, NEW par1, Cut(Live, root, kid, parent, e, p, x, c, rt1, k1, par1),
         e = (IF p = goal THEN "right" ELSE "left")
  PROVE  Fits(Live \ {x}, k1, CutSpan(D, x), goal, x)
<1>1. PICK R : R = kid["right"][goal]
  OBVIOUS
<1>2. /\ goal \in Live /\ x \in Live /\ x \in D[R]
      /\ \A n \in D[x] : \A m \in D[R] \ D[x] : Key(n) <= Key(m)
  BY <1>1 DEF MinimumCursor
<1>3. /\ Live \subseteq Nodes /\ Live \subseteq Cells /\ nil \notin Nodes /\ nil \in Cells
      /\ "left" \in Sides /\ "right" \in Sides
  BY TypeFacts
<1>4. /\ D[x] = {x} \cup D[c] /\ x \in D[x] /\ c \in Live \cup {nil}
      /\ \A m \in D[c] : Keyed("right", m, x)
  <2>1. SpanAt(kid, D, x, "right") /\ D[nil] = {} /\ Other("right") = "left"
    BY <1>2, <1>3 DEF Shape, Other
  <2>2. c \in Live \cup {nil}
    BY <1>2, <1>3, ShapeKids
  <2> QED
    BY <2>1, <2>2 DEF SpanAt
<1>5. /\ \A m \in D[kid["left"][goal]] : Keyed("left", m, goal)
      /\ \A m \in D[R] : Keyed("right", m, goal) /\ D[R] \subseteq D[goal] /\ goal \notin D[R]
  <2>1. SpanAt(kid, D, goal, "left") /\ SpanAt(kid, D, goal, "right")
    BY <1>2, <1>3 DEF Shape
  <2> QED
    BY <2>1, <1>1 DEF SpanAt
<1>6. goal # x /\ x \in D[goal]
  BY <1>2, <1>5
<1>7. \A q \in Cells : CutSpan(D, x)[q] = D[q] \ {x} /\ D[q] \subseteq Live
  BY DEF CutSpan, Shape
<1>8. ASSUME NEW q \in Live \ {x}, NEW t \in Sides
      PROVE  CutSpan(D, x)[k1[t][q]] \subseteq D[kid[t][q]] \ {x}
  <2>1. CASE p # nil /\ q = p /\ t = e
    <3>1. k1[t][q] = c /\ kid[t][q] = x
      BY <2>1, <1>8 DEF Cut
    <3> QED
      BY <3>1, <1>3, <1>4, <1>7
  <2>2. CASE ~(p # nil /\ q = p /\ t = e)
    <3>1. k1[t][q] = kid[t][q] /\ kid[t][q] \in Live \cup {nil}
      BY <2>2, <1>8, ShapeKids DEF Cut
    <3> QED
      BY <3>1, <1>3, <1>7
  <2> QED
    BY <2>1, <2>2
<1>9. ASSUME NEW t \in Sides, NEW m \in CutSpan(D, x)[k1[t][goal]] PROVE Keyed(t, m, x)
  <2>1. m \in D[kid[t][goal]] /\ m # x
    BY <1>2, <1>6, <1>8, <1>9
  <2>2. kid[t][goal] \in Live \cup {nil}
    BY <1>2, ShapeKids
  <2>3. m \in Nodes /\ x \in Nodes /\ goal \in Nodes
    BY <2>1, <2>2, <1>2, <1>3, <1>7
  <2>4. Key(m) \in Int /\ Key(x) \in Int /\ Key(goal) \in Int
    BY <2>3, TreeAssumption
  <2>5. CASE t = "left"
    BY <2>1, <2>4, <2>5, <1>2, <1>5 DEF Keyed
  <2>6. CASE t = "right"
    <3>1. m \in D[R]
      BY <2>1, <2>6, <1>1
    <3>2. CASE m \in D[x]
      BY <2>1, <2>6, <3>2, <1>4
    <3>3. CASE m \notin D[x]
      BY <2>6, <3>1, <3>3, <1>2, <1>4 DEF Keyed
    <3> QED
      BY <3>2, <3>3
  <2> QED
    BY <2>5, <2>6 DEF Sides
<1>10. ASSUME NEW a \in (Live \ {x}) \ {goal}, NEW t \in Sides,
              goal \in CutSpan(D, x)[k1[t][a]]
       PROVE  Keyed(t, x, a)
  <2>1. goal \in D[kid[t][a]]
    BY <1>8, <1>10
  <2>2. D[goal] \subseteq D[kid[t][a]]
    BY <2>1, <1>2, SpanSide
  <2>3. SpanAt(kid, D, a, t)
    BY DEF Shape
  <2> QED
    BY <2>2, <2>3, <1>6 DEF SpanAt
<1> QED
  BY <1>9, <1>10 DEF Fits

LEMMA SuccessorStep ==
  ASSUME TreeInv, NEW z \in Nodes, delete_successor(z)
  PROVE  TreeInv'
<1>1. PICK c, p : c = kid["right"][x] /\ p = parent[x]
  OBVIOUS
<1>2. PICK up, e : up = (IF p = z THEN x ELSE p) /\ e = (IF p = z THEN "right" ELSE "left")
  OBVIOUS
<1>3. /\ TypeOK /\ Coloured /\ at = "minimum" /\ kid["left"][x] = nil /\ z = goal
      /\ root' = NewRoot(z, x)
      /\ kid' = [NewKid(IF up = x THEN kid ELSE [kid EXCEPT !["left"][up] = c], z, x)
                   EXCEPT !["left"][x] = kid["left"][z],
                          !["right"][x] = IF up = x THEN c ELSE kid["right"][z]]
      /\ parent' = [q \in Cells |-> IF q = x THEN parent[z]
                                    ELSE IF q = c THEN up
                                    ELSE IF q \in {kid["left"][z], kid["right"][z]} THEN x
                                    ELSE parent[q]]
      /\ color' = [color EXCEPT ![x] = color[z]]
      /\ at' = (IF color[x] = "BLACK" THEN "delete_fixup" ELSE "free") /\ x' = c
      /\ goal' = goal /\ y' = y /\ content' = content
  BY <1>1, <1>2 DEF delete_successor, AfterUnlink, TreeInv
<1>4. PICK D : Shape(Live, root, kid, parent, D) /\ Cursor(D)
  BY DEF TreeInv
<1>5. PICK b : Even(Live, kid, color, b, HoleP, SideOf(x))
  BY DEF TreeInv
<1>6. MinimumCursor(D)
  BY <1>3, <1>4 DEF Cursor
<1>7. /\ z \in Live /\ x \in Live /\ x \in D[kid["right"][z]]
      /\ p # z => kid["left"][p] = x
  BY <1>1, <1>3, <1>6 DEF MinimumCursor
<1>8. /\ Live \subseteq Nodes /\ Live \subseteq Cells /\ nil \notin Nodes /\ nil \in Cells
      /\ root \in Cells /\ kid \in KidType /\ parent \in ParentType
      /\ \A t \in Sides : kid[t][nil] = Junk /\ \A q \in Nodes : kid[t][q] \in Cells
      /\ \A q \in Nodes : parent[q] \in Cells
      /\ Junk \notin Cells /\ "left" \in Sides /\ "right" \in Sides /\ e \in Sides
      /\ color \in [Cells -> {"RED", "BLACK"}] /\ color[nil] = "BLACK"
  BY <1>2, <1>3, TypeFacts, TreeAssumption DEF Cells
<1>9. p \in Live /\ kid[e][p] = x
  <2>1. p # nil
    BY <1>1, <1>4, <1>7, <1>8, SpanSide
  <2>2. p \in Live /\ kid[SideOf(x)][p] = x /\ SideOf(x) \in Sides
    BY <2>1, <1>1, <1>4, <1>7, LinkFacts
  <2>3. ASSUME p = z, SideOf(x) = "left" PROVE FALSE
    <3>1. x \in D[kid["left"][z]]
      BY <2>2, <2>3, <1>4, <1>7, <1>8, ShapeKids
    <3>2. SpanAt(kid, D, z, "left") /\ Other("left") = "right"
      BY <1>4, <1>7, <1>8 DEF Shape, Other
    <3> QED
      BY <3>1, <3>2, <1>7 DEF SpanAt
  <2> QED
    BY <2>2, <2>3, <1>2, <1>7 DEF Sides
<1>10. CutSpot(Live, root, kid, parent, e, p, x, c)
  <2>1. Other("left") = "right"
    BY DEF Other
  <2> QED
    BY <2>1, <1>1, <1>3, <1>7, <1>8, <1>9 DEF CutSpot
<1>11. /\ c \in (Live \ {x}) \cup {nil} /\ p \in Live \ {x} /\ p # nil
       /\ c # nil => parent[c] = x /\ c # p /\ c # root
       /\ \A t \in Sides : kid[t][x] = nil \/ kid[t][x] = c
  BY <1>4, <1>8, <1>9, <1>10, CutFacts
<1>12. z # x /\ z # c
  <2>1. z \notin D[kid["right"][z]]
    BY <1>4, <1>7, <1>8, ShapeKids
  <2>2. D[x] \subseteq D[kid["right"][z]]
    BY <1>4, <1>7, <1>8, SpanSide
  <2>3. c # nil => c \in D[x]
    BY <1>1, <1>4, <1>7, <1>8, ShapeKids
  <2> QED
    BY <2>1, <2>2, <2>3, <1>7, <1>8
<1>13. PICK k1, par1 : k1 = [kid EXCEPT ![e][p] = c] /\ par1 = [parent EXCEPT ![c] = p]
  OBVIOUS
<1>14. /\ k1 \in KidType /\ par1 \in ParentType
       /\ \A q \in Cells : \A t \in Sides :
            k1[t][q] = IF q = p /\ t = e THEN c ELSE kid[t][q]
       /\ \A q \in Cells : par1[q] = IF q = c THEN p ELSE parent[q]
  <2>1. c \in Cells /\ p \in Cells
    BY <1>8, <1>11
  <2> QED
    BY <2>1, <1>8, <1>13 DEF KidType, ParentType
<1>15. Cut(Live, root, kid, parent, e, p, x, c, root, k1, par1)
  BY <1>8, <1>11, <1>14 DEF Cut
<1>16. Shape(Live \ {x}, root, k1, par1, CutSpan(D, x))
  BY <1>4, <1>10, <1>15, CutShape
<1>17. Fits(Live \ {x}, k1, CutSpan(D, x), z, x)
  <2>1. e = (IF p = goal THEN "right" ELSE "left") /\ TypeOK /\ kid["left"][x] = nil
    BY <1>2, <1>3
  <2>2. Fits(Live \ {x}, k1, CutSpan(D, x), goal, x)
    BY <2>1, <1>1, <1>4, <1>6, <1>8, <1>9, <1>15, SuccessorFits
  <2> QED
    BY <2>2, <1>3
<1>18. PICK pz, ez : pz = parent[z] /\ ez = SideOf(z)
  OBVIOUS
<1>19. /\ pz \in Cells /\ ez \in Sides /\ (pz = nil <=> root = z)
       /\ pz # nil => pz \in Live /\ kid[ez][pz] = z /\ pz # z
       /\ \A q \in Live : \A t \in Sides : kid[t][q] = z => q = pz /\ t = ez
  <2>1. pz \in Cells /\ ez \in Sides /\ (pz = nil => root = z)
        /\ (pz # nil => pz \in Live /\ kid[ez][pz] = z)
    BY <1>4, <1>7, <1>8, <1>18, LinkFacts
  <2>2. root = z => pz = nil
    BY <1>4, <1>7, <1>18, ShapeRoot
  <2>3. pz # nil => pz # z
    BY <2>1, <1>4, <1>7, ShapeParent
  <2>4. ASSUME NEW q \in Live, NEW t \in Sides, kid[t][q] = z PROVE q = pz /\ t = ez
    <3>1. pz = q
      BY <2>4, <1>4, <1>7, <1>18, ShapeParent
    <3>2. pz # nil
      BY <3>1, <1>8
    <3> QED
      BY <2>4, <3>1, <3>2, <1>4, <1>7, <1>18, LinkFacts
  <2> QED
    BY <2>1, <2>2, <2>3, <2>4
<1>20. up = x <=> p = z
  BY <1>2, <1>11
<1>21. /\ kid' \in KidType
       /\ \A q \in Cells : \A t \in Sides :
            kid'[t][q] = IF q = x THEN (IF t = "left" THEN kid["left"][z]
                                        ELSE IF up = x THEN c ELSE kid["right"][z])
                         ELSE IF pz # nil /\ q = pz /\ t = ez THEN x
                         ELSE IF up # x /\ q = up /\ t = "left" THEN c ELSE kid[t][q]
  <2>1. PICK K : K = IF up = x THEN kid ELSE [kid EXCEPT !["left"][up] = c]
    OBVIOUS
  <2>2. c \in Cells /\ up \in Cells /\ x \in Cells
    BY <1>2, <1>7, <1>8, <1>11
  <2>3. /\ K \in KidType
        /\ \A q \in Cells : \A t \in Sides :
             K[t][q] = IF up # x /\ q = up /\ t = "left" THEN c ELSE kid[t][q]
    BY <2>1, <2>2, <1>8 DEF KidType
  <2>4. PICK K2 : K2 = NewKid(K, z, x)
    OBVIOUS
  <2>5. K2 = IF pz = nil THEN K ELSE [K EXCEPT ![ez][pz] = x]
    BY <2>4, <1>18 DEF NewKid
  <2>6. /\ K2 \in KidType
        /\ \A q \in Cells : \A t \in Sides :
             K2[t][q] = IF pz # nil /\ q = pz /\ t = ez THEN x ELSE K[t][q]
    BY <2>2, <2>3, <2>5, <1>19 DEF KidType
  <2>7. PICK l, r : l = kid["left"][z] /\ r = IF up = x THEN c ELSE kid["right"][z]
    OBVIOUS
  <2>8. kid' = [K2 EXCEPT !["left"][x] = l, !["right"][x] = r]
    BY <2>1, <2>4, <2>7, <1>3
  <2>9. l \in Cells /\ r \in Cells
    BY <2>2, <2>7, <1>8
  <2>10. PICK K3 : K3 = [K2 EXCEPT !["left"][x] = l]
    OBVIOUS
  <2>11. /\ K3 \in KidType
         /\ \A q \in Cells : \A t \in Sides :
              K3[t][q] = IF q = x /\ t = "left" THEN l ELSE K2[t][q]
    BY <2>2, <2>6, <2>9, <2>10, <1>8 DEF KidType
  <2>12. kid' = [K3 EXCEPT !["right"][x] = r]
    BY <2>8, <2>10
  <2>13. /\ kid' \in KidType
         /\ \A q \in Cells : \A t \in Sides :
              kid'[t][q] = IF q = x /\ t = "right" THEN r ELSE K3[t][q]
    BY <2>2, <2>9, <2>11, <2>12, <1>8 DEF KidType
  <2>14. ASSUME NEW q \in Cells, NEW t \in Sides
         PROVE  kid'[t][q] = IF q = x THEN (IF t = "left" THEN l ELSE r)
                             ELSE IF pz # nil /\ q = pz /\ t = ez THEN x
                             ELSE IF up # x /\ q = up /\ t = "left" THEN c ELSE kid[t][q]
    <3>1. t = "left" \/ t = "right"
      BY DEF Sides
    <3> QED
      BY <3>1, <2>3, <2>6, <2>11, <2>13
  <2> QED
    BY <2>7, <2>13, <2>14
<1>22. /\ parent' \in ParentType
       /\ \A q \in Cells : parent'[q] = IF q = x THEN pz ELSE IF q = c THEN up
                                        ELSE IF q \in {kid["left"][z], kid["right"][z]} THEN x
                                        ELSE parent[q]
  <2>1. up \in Cells /\ x \in Cells
    BY <1>2, <1>7, <1>8, <1>11
  <2> QED
    BY <2>1, <1>3, <1>8, <1>18, <1>19 DEF ParentType
<1>23. Replaced(Live \ {x}, root, k1, par1, z, x, root', kid', parent')
  <2>1. root' = IF root = z THEN x ELSE root
    BY <1>3, <1>18, <1>19 DEF NewRoot
  <2>2. ASSUME NEW t \in Sides PROVE kid'[t][x] = k1[t][z]
    <3>1. t = "left" \/ t = "right"
      BY DEF Sides
    <3> QED
      BY <3>1, <1>2, <1>7, <1>8, <1>14, <1>20, <1>21
  <2>3. parent'[x] = par1[z]
    BY <1>7, <1>8, <1>12, <1>14, <1>18, <1>22
  <2>4. ASSUME NEW q \in (Live \ {x}) \ {z}, NEW t \in Sides
        PROVE  kid'[t][q] = IF k1[t][q] = z THEN x ELSE k1[t][q]
    <3>1. kid'[t][q] = IF pz # nil /\ q = pz /\ t = ez THEN x
                       ELSE IF up # x /\ q = up /\ t = "left" THEN c ELSE kid[t][q]
      BY <1>8, <1>21
    <3>2. k1[t][q] = IF up # x /\ q = up /\ t = "left" THEN c ELSE kid[t][q]
      BY <1>2, <1>8, <1>14, <1>20
    <3>3. k1[t][q] = z <=> kid[t][q] = z
      BY <3>2, <1>2, <1>7, <1>9, <1>12, <1>20
    <3>4. kid[t][q] = z <=> (pz # nil /\ q = pz /\ t = ez)
      BY <1>8, <1>19
    <3> QED
      BY <3>1, <3>2, <3>3, <3>4
  <2>5. ASSUME NEW q \in (Live \ {x}) \ {z}
        PROVE  parent'[q] = IF par1[q] = z THEN x ELSE par1[q]
    <3>1. parent'[q] = IF q = c THEN up
                       ELSE IF q \in {kid["left"][z], kid["right"][z]} THEN x ELSE parent[q]
      BY <1>8, <1>22
    <3>2. par1[q] = IF q = c THEN p ELSE parent[q]
      BY <1>8, <1>14
    <3>3. CASE q = c
      BY <3>1, <3>2, <3>3, <1>2
    <3>4. CASE q # c
      <4>1. parent[q] = z <=> q \in {kid["left"][z], kid["right"][z]}
        <5>1. q \in {kid["left"][z], kid["right"][z]} => parent[q] = z
          BY <1>4, <1>7, <1>8, ShapeKids
        <5>2. parent[q] = z => q \in {kid["left"][z], kid["right"][z]}
          BY <1>4, <1>7, <1>8, LinkFacts DEF Sides
        <5> QED
          BY <5>1, <5>2
      <4> QED
        BY <3>1, <3>2, <3>4, <4>1
    <3> QED
      BY <3>3, <3>4
  <2> QED
    BY <2>1, <2>2, <2>3, <2>4, <2>5, <1>21, <1>22 DEF Replaced
<1>24. /\ Live' = ((Live \ {x}) \ {z}) \cup {x} /\ HoleP = nil /\ Live = content
       /\ z \in Live \ {x} /\ x \in Nodes \ (Live \ {x})
  BY <1>3, <1>7, <1>8, <1>12 DEF Live, HoleP
<1>25. PICK D2 : Shape(Live', root', kid', parent', D2)
  <2>1. \E D2 : Shape(((Live \ {x}) \ {z}) \cup {x}, root', kid', parent', D2)
    BY <1>16, <1>17, <1>23, <1>24, ReplaceShape
  <2> QED
    BY <2>1, <1>24
<1>26. color' \in [Cells -> {"RED", "BLACK"}] /\ color'[nil] = "BLACK" /\ color'[x] = color[z]
       /\ \A q \in Cells : q # x => color'[q] = color[q]
  <2>1. x # nil /\ x \in Cells /\ z \in Cells
    BY <1>7, <1>8
  <2> QED
    BY <2>1, <1>3, <1>8
<1>27. PICK hp : hp = IF color[x] = "BLACK" THEN p ELSE nil
  OBVIOUS
<1>28. PICK b2 : Even(Live', kid', color', b2, IF hp = z THEN x ELSE hp, e)
  <2>1. Even(Live \ {x}, k1, color, b, hp, e)
    BY <1>4, <1>5, <1>10, <1>15, <1>24, <1>27, EvenCut
  <2>2. hp # x
    BY <1>7, <1>8, <1>11, <1>27
  <2>3. \A q \in (Live \ {x}) \ {z} : color'[q] = color[q]
    BY <1>8, <1>26
  <2>4. \E b2 : Even(((Live \ {x}) \ {z}) \cup {x}, kid', color', b2,
                     IF hp = z THEN x ELSE hp, e)
    BY <2>1, <2>2, <2>3, <1>16, <1>23, <1>24, <1>26, EvenReplace
  <2> QED
    BY <2>4, <1>24
<1>29. c # root'
  <2>1. root # nil
    BY <1>4, <1>7, ShapeRoot
  <2>2. root' = x \/ root' = root
    BY <1>3 DEF NewRoot
  <2> QED
    BY <2>1, <2>2, <1>7, <1>8, <1>11
<1>30. parent'[c] = up /\ up \in Live' /\ kid'[e][up] = c /\ c \in Live' \cup {nil}
  <2>1. c \in Cells /\ c # x /\ parent'[c] = up
    BY <1>7, <1>8, <1>11, <1>22
  <2>2. up \in Live' /\ c \in Live' \cup {nil}
    BY <1>2, <1>11, <1>12, <1>24
  <2>3. kid'[e][up] = c
    <3>1. CASE p = z
      BY <3>1, <1>2, <1>7, <1>8, <1>21
    <3>2. CASE p # z
      <4>1. up = p /\ e = "left" /\ up # x
        BY <3>2, <1>2, <1>11
      <4>2. ~(pz # nil /\ up = pz /\ "left" = ez)
        BY <4>1, <1>9, <1>12, <1>19
      <4> QED
        BY <4>1, <4>2, <1>8, <1>11, <1>21
    <3> QED
      BY <3>1, <3>2
  <2> QED
    BY <2>1, <2>2, <2>3
<1>31. HoleP' = (IF hp = z THEN x ELSE hp) /\ HoleP' = IF color[x] = "BLACK" THEN up ELSE nil
  <2>1. HoleP' = IF color[x] = "BLACK" THEN up ELSE nil
    BY <1>3, <1>29, <1>30 DEF HoleP
  <2> QED
    BY <2>1, <1>2, <1>7, <1>8, <1>27
<1>32. color[x] = "BLACK" => SideOf(x)' = e
  <2>1. SUFFICES ASSUME color[x] = "BLACK" PROVE SideOf(x)' = e
    OBVIOUS
  <2>2. Even(Live', kid', color', b2, up, e)
    BY <2>1, <1>28, <1>31
  <2>3. (IF kid'[e][up] = kid'["left"][up] THEN "left" ELSE "right") = e
    BY <2>2, <1>8, <1>25, <1>30, HoleSide
  <2> QED
    BY <2>3, <1>3, <1>30 DEF SideOf
<1>33. \E b3 : Even(Live', kid', color', b3, HoleP', SideOf(x)')
  <2>1. CASE color[x] = "BLACK"
    BY <2>1, <1>28, <1>31, <1>32
  <2>2. CASE color[x] # "BLACK"
    <3>1. HoleP' = nil /\ Even(Live', kid', color', b2, nil, e) /\ nil \notin Live'
      BY <2>2, <1>8, <1>24, <1>28, <1>31
    <3>2. Even(Live', kid', color', b2, nil, SideOf(x)')
      BY <3>1, EvenNoHole
    <3> QED
      BY <3>1, <3>2
  <2> QED
    BY <2>1, <2>2
<1>34. Cursor(D2)'
  <2>1. goal' \in content' /\ at' \in {"delete_fixup", "free"}
    BY <1>3, <1>7, <1>24
  <2>2. at' = "delete_fixup" => RepairCursor'
    <3>1. SUFFICES ASSUME color[x] = "BLACK" PROVE RepairCursor'
      BY <1>3
    <3> QED
      BY <3>1, <1>3, <1>30, <1>32 DEF RepairCursor
  <2> QED
    BY <2>1, <2>2 DEF Cursor
<1>35. TypeOK'
  <2>1. goal \in Cells /\ y \in Cells /\ content \subseteq Nodes /\ c \in Cells /\ x \in Cells
    BY <1>3, <1>8, <1>11 DEF TypeOK
  <2>2. PointersOK(root', kid', parent')
    <3>1. root' \in Cells
      BY <2>1, <1>3, <1>8 DEF NewRoot
    <3>2. ASSUME NEW t \in Sides PROVE kid'[t][nil] = Junk /\ \A q \in Nodes : kid'[t][q] # Junk
      <4>1. nil # x /\ nil # up
        BY <1>2, <1>7, <1>8, <1>11
      <4>2. kid'[t][nil] = Junk
        BY <4>1, <1>8, <1>21
      <4>3. ASSUME NEW q \in Nodes PROVE kid'[t][q] \in Cells
        <5>1. q \in Cells /\ kid[t][q] \in Cells /\ kid["left"][z] \in Cells /\ kid["right"][z] \in Cells
          BY <1>8 DEF Cells
        <5> QED
          BY <5>1, <2>1, <1>21
      <4> QED
        BY <4>2, <4>3, <1>8
    <3>3. ASSUME NEW q \in Nodes PROVE parent'[q] \in Cells
      <4>1. q \in Cells /\ parent[q] \in Cells /\ up \in Cells
        BY <1>2, <1>8, <1>11, <2>1 DEF Cells
      <4> QED
        BY <4>1, <2>1, <1>19, <1>22
    <3> QED
      BY <3>1, <3>2, <3>3, <1>8, <1>21, <1>22 DEF PointersOK
  <2> QED
    BY <2>1, <2>2, <1>3, <1>26, TypeKept
<1>36. Coloured'
  <2>1. ASSUME NEW q \in Live, q # z
        PROVE  \/ color'[q] = "BLACK" \/ (at' = "delete_fixup" /\ q = c)
               \/ parent'[q] # nil /\ color'[parent'[q]] = "BLACK"
    <3>1. \A r \in Live : color[r] = "BLACK" \/ (parent[r] # nil /\ color[parent[r]] = "BLACK")
      BY <1>3 DEF Coloured, Passes
    <3>2. CASE q = x
      <4>1. color'[q] = color[z] /\ parent'[q] = pz
        BY <3>2, <1>7, <1>8, <1>22, <1>26
      <4>2. color[z] = "BLACK" \/ (pz # nil /\ color[pz] = "BLACK")
        BY <3>1, <1>7, <1>18
      <4>3. pz # x
        <5>1. ASSUME pz = x PROVE FALSE
          <6>1. kid[ez][x] = z
            BY <5>1, <1>7, <1>8, <1>19
          <6> QED
            BY <6>1, <1>7, <1>8, <1>11, <1>12, <1>19
        <5> QED
          BY <5>1
      <4>4. color'[pz] = color[pz]
        BY <4>3, <1>19, <1>26
      <4> QED
        BY <4>1, <4>2, <4>4
    <3>3. CASE q = c
      <4>1. color[x] = "BLACK" => at' = "delete_fixup"
        BY <1>3
      <4>2. color[x] # "BLACK" => color[c] = "BLACK"
        BY <3>1, <3>3, <1>8, <1>11
      <4>3. color'[c] = color[c]
        BY <3>3, <1>8, <1>11, <1>26
      <4> QED
        BY <3>3, <4>1, <4>2, <4>3
    <3>4. CASE q # x /\ q # c
      <4>1. color'[q] = color[q]
        BY <3>4, <1>8, <1>26
      <4>2. parent'[q] = IF q \in {kid["left"][z], kid["right"][z]} THEN x ELSE parent[q]
        BY <3>4, <1>8, <1>22
      <4>3. q \in {kid["left"][z], kid["right"][z]} => parent[q] = z
        BY <1>4, <1>7, <1>8, ShapeKids
      <4>4. parent[q] # nil => parent[q] \in Live /\ \E t \in Sides : kid[t][parent[q]] = q
        BY <1>4, LinkFacts
      <4>5. parent[q] # x
        BY <4>4, <3>4, <1>7, <1>8, <1>11
      <4>6. parent[q] # nil => color'[parent[q]] = color[parent[q]]
        BY <4>4, <4>5, <1>8, <1>26
      <4>7. x # nil /\ color'[x] = color[z]
        BY <1>7, <1>8, <1>26
      <4> QED
        BY <4>1, <4>2, <4>3, <4>6, <4>7, <3>1
    <3> QED
      BY <3>2, <3>3, <3>4
  <2>2. ASSUME NEW q \in Live' PROVE q \in Live /\ q # z
    BY <2>2, <1>7, <1>12, <1>24
  <2> QED
    BY <2>1, <2>2, <1>3 DEF Coloured, Passes
<1> QED
  BY <1>25, <1>33, <1>34, <1>35, <1>36 DEF TreeInv

-----------------------------------------------------------------------------
(* Deletion: the repair.                                                   *)

(* The cursor of the repair has a parent p, to which it hangs on side s,   *)
(* and a sibling w.                                                        *)
LEMMA RepairFacts ==
  ASSUME TypeOK, Coloured, NEW D, Shape(Live, root, kid, parent, D), Cursor(D),
         NEW b, Even(Live, kid, color, b, HoleP, SideOf(x)), NEW s \in Sides, Repairing(s)
  PROVE  /\ parent[x] \in Live /\ kid[s][parent[x]] = x /\ HoleP = parent[x]
         /\ Even(Live, kid, color, b, parent[x], s)
         /\ Sibling(s) \in Live /\ Sibling(s) # x /\ Sibling(s) # parent[x] /\ x # parent[x]
         /\ parent[Sibling(s)] = parent[x] /\ parent[x] \notin D[Sibling(s)]
         /\ x \in Live \cup {nil} /\ color[x] = "BLACK" /\ x # root /\ goal \in content
         /\ \A q \in Live : color[q] = "BLACK" \/ (parent[q] # nil /\ color[parent[q]] = "BLACK")
<1>1. at = "delete_fixup" /\ x # root /\ color[x] = "BLACK" /\ s = SideOf(x)
  BY DEF Repairing
<1>2. PICK p, w : p = parent[x] /\ w = Sibling(s)
  OBVIOUS
<1>3. p \in Live /\ kid[s][p] = x /\ x \in Live \cup {nil} /\ goal \in content
  BY <1>1, <1>2 DEF Cursor, RepairCursor
<1>4. HoleP = p /\ Even(Live, kid, color, b, p, s)
  BY <1>1, <1>2 DEF HoleP
<1>5. w = kid[Other(s)][p] /\ Other(s) \in Sides
  BY <1>2, SideFacts DEF Sibling
<1>6. w \in Live /\ w # x
  BY <1>3, <1>4, <1>5, EvenSibling
<1>7. parent[w] = p /\ w # p /\ p \notin D[w]
  BY <1>3, <1>5, <1>6, ShapeParent
<1>8. x # p
  BY <1>3, ShapeKids
<1>9. \A q \in Live : color[q] = "BLACK" \/ (parent[q] # nil /\ color[parent[q]] = "BLACK")
  BY <1>1 DEF Coloured, Passes
<1> QED
  BY <1>1, <1>2, <1>3, <1>4, <1>6, <1>7, <1>8, <1>9

(* A repair step that moves neither the cursor nor its parent.             *)
LEMMA RepairKept ==
  ASSUME TypeOK, at = "delete_fixup", NEW s \in Sides, NEW p \in Live, x \in Live \cup {nil},
         goal \in content, UNCHANGED <<at, goal, x, y, content>>,
         PointersOK(root', kid', parent'),
         color' \in [Cells -> {"RED", "BLACK"}], color'[nil] = "BLACK", color'[x] = "BLACK",
         NEW D, Shape(Live, root', kid', parent', D),
         NEW b, Even(Live, kid', color', b, p, s),
         x # root', parent'[x] = p, kid'[s][p] = x,
         \A q \in Live : color'[q] = "BLACK" \/ (parent'[q] # nil /\ color'[parent'[q]] = "BLACK")
  PROVE  TreeInv'
<1>1. Live' = Live /\ x' = x /\ at' = "delete_fixup"
  BY DEF Live
<1>2. TypeOK'
  <2>1. goal \in Cells /\ x \in Cells /\ y \in Cells /\ content \subseteq Nodes
    BY DEF TypeOK
  <2> QED
    BY <2>1, <1>1, TypeKept
<1>3. SideOf(x)' = s
  <2>1. (IF kid'[s][p] = kid'["left"][p] THEN "left" ELSE "right") = s
    BY HoleSide
  <2> QED
    BY <2>1, <1>1 DEF SideOf
<1>4. HoleP' = p
  BY <1>1 DEF HoleP
<1>5. Cursor(D)'
  BY <1>1, <1>3 DEF Cursor, RepairCursor
<1>6. Coloured'
  BY <1>1 DEF Coloured, Passes
<1> QED
  BY <1>1, <1>2, <1>3, <1>4, <1>5, <1>6 DEF TreeInv

LEMMA RedStep ==
  ASSUME TreeInv, NEW s \in Sides, delete_fixup_red(s)
  PROVE  TreeInv'
<1>1. /\ TypeOK /\ Coloured /\ Repairing(s) /\ color[Sibling(s)] = "RED"
      /\ color' = [color EXCEPT ![Sibling(s)] = "BLACK", ![parent[x]] = "RED"]
      /\ rotate(s, parent[x])
      /\ UNCHANGED <<at, goal, x, y, content>>
  BY DEF delete_fixup_red, TreeInv
<1>2. PICK D : Shape(Live, root, kid, parent, D) /\ Cursor(D)
  BY DEF TreeInv
<1>3. PICK b : Even(Live, kid, color, b, HoleP, SideOf(x))
  BY DEF TreeInv
<1>4. PICK p, w, c : p = parent[x] /\ w = Sibling(s) /\ c = kid[s][w]
  OBVIOUS
<1>5. /\ p \in Live /\ kid[s][p] = x /\ Even(Live, kid, color, b, p, s)
      /\ w \in Live /\ w # x /\ w # p /\ x # p /\ parent[w] = p
      /\ x \in Live \cup {nil} /\ color[x] = "BLACK" /\ x # root /\ goal \in content
      /\ \A q \in Live : color[q] = "BLACK" \/ (parent[q] # nil /\ color[parent[q]] = "BLACK")
  BY <1>1, <1>2, <1>3, <1>4, RepairFacts
<1>6. /\ Live \subseteq Cells /\ nil \notin Live /\ nil \in Cells /\ SideOf(p) \in Sides
      /\ color \in [Cells -> {"RED", "BLACK"}] /\ color[nil] = "BLACK"
  BY <1>1, TypeFacts
<1>7. Other(s) \in Sides /\ Other(s) # s /\ \A t \in Sides : t = s \/ t = Other(s)
  BY SideFacts
<1>8. /\ w = kid[Other(s)][p] /\ color[w] = "RED" /\ color[p] = "BLACK"
  BY <1>1, <1>4, <1>5 DEF Sibling
<1>9. /\ Spot(Live, root, kid, parent, D, s, SideOf(p), parent[p], p, w, c)
      /\ Rotated(root, kid, parent, s, SideOf(p), parent[p], p, w, c, root', kid', parent')
      /\ PointersOK(root', kid', parent')
      /\ \E D2 : Shape(Live, root', kid', parent', D2)
      /\ \A q \in Cells : parent'[q] = IF q = c /\ c # nil THEN p
                                       ELSE IF q = w THEN parent[p]
                                       ELSE IF q = p THEN w ELSE parent[q]
  BY <1>1, <1>2, <1>4, <1>5, <1>8, RotateStep
<1>10. c # p /\ c # w /\ c \in Cells /\ (c # nil => parent[c] = w)
  <2>1. c # p /\ c # w /\ c \in Cells
    BY <1>6, <1>9 DEF Spot
  <2> QED
    BY <2>1, <1>2, <1>4, <1>5, ShapeKids
<1>11. /\ color' \in [Cells -> {"RED", "BLACK"}] /\ color'[nil] = "BLACK"
       /\ color'[p] = "RED" /\ color'[w] = "BLACK"
       /\ \A q \in Cells : q # p /\ q # w => color'[q] = color[q]
  BY <1>1, <1>4, <1>5, <1>6
<1>12. PICK b2 : Even(Live, kid', color', b2, p, s)
  <2>1. color'[p] = color[w] /\ color'[w] = color[p]
        /\ \A q \in Live \ {p, w} : color'[q] = color[q]
    BY <1>6, <1>8, <1>11
  <2>2. p # w /\ ~(p = p /\ s = Other(s))
    BY <1>5, <1>7
  <2> QED
    BY <2>1, <2>2, <1>2, <1>5, <1>6, <1>8, <1>9, RotationEven
<1>13. parent'[x] = p
  BY <1>4, <1>5, <1>6, <1>9, <1>10
<1>14. kid'[s][p] = x
  BY <1>2, <1>5, <1>6, <1>9, RotationKids
<1>15. x # root'
  BY <1>5, <1>9 DEF Rotated
<1>16. ASSUME NEW q \in Live
       PROVE  color'[q] = "BLACK" \/ (parent'[q] # nil /\ color'[parent'[q]] = "BLACK")
  <2>1. CASE q = c
    <3>1. color[c] = "BLACK"
      BY <2>1, <1>5, <1>6, <1>8, <1>10
    <3> QED
      BY <2>1, <3>1, <1>10, <1>11
  <2>2. CASE q = w
    BY <2>2, <1>11
  <2>3. CASE q = p
    BY <2>3, <1>5, <1>6, <1>9, <1>10, <1>11
  <2>4. CASE q \notin {c, w, p}
    <3>1. parent'[q] = parent[q] /\ color'[q] = color[q]
      BY <2>4, <1>6, <1>9, <1>11
    <3>2. CASE q = x
      BY <3>1, <3>2, <1>5
    <3>3. CASE q # x
      <4>1. parent[q] # nil => parent[q] \in Live /\ \E t \in Sides : kid[t][parent[q]] = q
        BY <1>2, LinkFacts
      <4>2. parent[q] # p
        BY <4>1, <2>4, <3>3, <1>5, <1>6, <1>7, <1>8
      <4> QED
        BY <4>1, <4>2, <3>1, <1>5, <1>6, <1>11
    <3> QED
      BY <3>2, <3>3
  <2> QED
    BY <2>1, <2>2, <2>3, <2>4
<1>17. color'[x] = "BLACK" /\ at = "delete_fixup"
  BY <1>1, <1>5, <1>6, <1>11 DEF Repairing
<1>18. PICK D2 : Shape(Live, root', kid', parent', D2)
  BY <1>9
<1> QED
  BY <1>1, <1>5, <1>9, <1>11, <1>12, <1>13, <1>14, <1>15, <1>16, <1>17, <1>18, RepairKept

LEMMA NearStep ==
  ASSUME TreeInv, NEW s \in Sides, delete_fixup_near(s)
  PROVE  TreeInv'
<1>1. /\ TypeOK /\ Coloured /\ Repairing(s) /\ color[Sibling(s)] = "BLACK"
      /\ color[Near(s)] = "RED" /\ color[Far(s)] = "BLACK"
      /\ color' = [color EXCEPT ![Near(s)] = "BLACK", ![Sibling(s)] = "RED"]
      /\ rotate(Other(s), Sibling(s))
      /\ UNCHANGED <<at, goal, x, y, content>>
  BY DEF delete_fixup_near, TreeInv
<1>2. PICK D : Shape(Live, root, kid, parent, D) /\ Cursor(D)
  BY DEF TreeInv
<1>3. PICK b : Even(Live, kid, color, b, HoleP, SideOf(x))
  BY DEF TreeInv
<1>4. PICK p, w, m, c, f : /\ p = parent[x] /\ w = Sibling(s) /\ m = Near(s)
                           /\ c = kid[Other(s)][m] /\ f = Far(s)
  OBVIOUS
<1>5. /\ p \in Live /\ kid[s][p] = x /\ Even(Live, kid, color, b, p, s)
      /\ w \in Live /\ w # x /\ w # p /\ x # p /\ parent[w] = p /\ p \notin D[w]
      /\ x \in Live \cup {nil} /\ color[x] = "BLACK" /\ x # root /\ goal \in content
      /\ \A q \in Live : color[q] = "BLACK" \/ (parent[q] # nil /\ color[parent[q]] = "BLACK")
  BY <1>1, <1>2, <1>3, <1>4, RepairFacts
<1>6. /\ Live \subseteq Cells /\ nil \notin Live /\ nil \in Cells /\ SideOf(w) \in Sides
      /\ color \in [Cells -> {"RED", "BLACK"}] /\ color[nil] = "BLACK"
  BY <1>1, TypeFacts
<1>7. /\ Other(s) \in Sides /\ Other(s) # s /\ Other(Other(s)) = s
      /\ \A t \in Sides : t = s \/ t = Other(s)
  BY SideFacts
<1>8. /\ w = kid[Other(s)][p] /\ color[w] = "BLACK" /\ m = kid[s][w] /\ color[m] = "RED"
      /\ f = kid[Other(s)][w] /\ color[f] = "BLACK"
  BY <1>1, <1>4 DEF Sibling, Near, Far
<1>9. m \in Live /\ parent[m] = w /\ m # p /\ m # x /\ m # w
  <2>1. m # nil
    BY <1>6, <1>8
  <2>2. m \in Live /\ parent[m] = w /\ m \in D[m] /\ D[m] \subseteq D[w] /\ m # w
    BY <2>1, <1>2, <1>5, <1>8, ShapeKids
  <2> QED
    BY <2>2, <1>4, <1>5
<1>10. /\ Spot(Live, root, kid, parent, D, Other(s), SideOf(w), parent[w], w, m, c)
       /\ Rotated(root, kid, parent, Other(s), SideOf(w), parent[w], w, m, c, root', kid', parent')
       /\ PointersOK(root', kid', parent')
       /\ \E D2 : Shape(Live, root', kid', parent', D2)
       /\ \A q \in Cells : parent'[q] = IF q = c /\ c # nil THEN w
                                        ELSE IF q = m THEN parent[w]
                                        ELSE IF q = w THEN m ELSE parent[q]
  <2>1. m = kid[Other(Other(s))][w] /\ c = kid[Other(s)][m] /\ rotate(Other(s), w)
    BY <1>1, <1>4, <1>7, <1>8
  <2> QED
    BY <2>1, <1>1, <1>2, <1>5, <1>7, <1>9, RotateStep
<1>11. c # m /\ c # w /\ c \in Cells /\ (c # nil => parent[c] = m)
  <2>1. c # m /\ c # w /\ c \in Cells
    BY <1>6, <1>10 DEF Spot
  <2> QED
    BY <2>1, <1>2, <1>4, <1>7, <1>9, ShapeKids
<1>12. /\ color' \in [Cells -> {"RED", "BLACK"}] /\ color'[nil] = "BLACK"
       /\ color'[w] = "RED" /\ color'[m] = "BLACK"
       /\ \A q \in Cells : q # m /\ q # w => color'[q] = color[q]
  BY <1>1, <1>4, <1>5, <1>6, <1>9
<1>13. PICK b2 : Even(Live, kid', color', b2, p, s)
  <2>1. color'[w] = color[m] /\ color'[m] = color[w]
        /\ \A q \in Live \ {w, m} : color'[q] = color[q]
    BY <1>6, <1>8, <1>12
  <2>2. p # m /\ ~(p = w /\ s = Other(Other(s)))
    BY <1>5, <1>9
  <2> QED
    BY <2>1, <2>2, <1>2, <1>5, <1>6, <1>7, <1>8, <1>10, RotationEven
<1>14. parent'[x] = p
  BY <1>4, <1>5, <1>6, <1>9, <1>10, <1>11
<1>15. kid'[s][p] = x
  <2>1. kid'[s][p] = IF kid[s][p] = w THEN m ELSE kid[s][p]
    <3>1. p \in Live \ {w, m}
      BY <1>5, <1>9
    <3> QED
      BY <3>1, <1>2, <1>6, <1>7, <1>10, RotationKids
  <2> QED
    BY <2>1, <1>5
<1>16. x # root'
  BY <1>5, <1>6, <1>9, <1>10 DEF Rotated
<1>17. ASSUME NEW q \in Live
       PROVE  color'[q] = "BLACK" \/ (parent'[q] # nil /\ color'[parent'[q]] = "BLACK")
  <2>1. CASE q = c
    <3>1. color[c] = "BLACK"
      BY <2>1, <1>5, <1>6, <1>8, <1>11
    <3> QED
      BY <2>1, <3>1, <1>11, <1>12
  <2>2. CASE q = m
    BY <2>2, <1>12
  <2>3. CASE q = w
    BY <2>3, <1>5, <1>6, <1>9, <1>10, <1>11, <1>12
  <2>4. CASE q \notin {c, m, w}
    <3>1. parent'[q] = parent[q] /\ color'[q] = color[q]
      BY <2>4, <1>6, <1>10, <1>12
    <3>2. CASE q = f
      BY <3>1, <3>2, <1>8
    <3>3. CASE q # f
      <4>1. parent[q] # nil => parent[q] \in Live /\ \E t \in Sides : kid[t][parent[q]] = q
        BY <1>2, LinkFacts
      <4>2. parent[q] # w
        BY <4>1, <2>4, <3>3, <1>5, <1>6, <1>7, <1>8
      <4> QED
        BY <4>1, <4>2, <3>1, <1>5, <1>6, <1>12
    <3> QED
      BY <3>2, <3>3
  <2> QED
    BY <2>1, <2>2, <2>3, <2>4
<1>18. color'[x] = "BLACK" /\ at = "delete_fixup"
  BY <1>1, <1>5, <1>6, <1>9, <1>12 DEF Repairing
<1>19. PICK D2 : Shape(Live, root', kid', parent', D2)
  BY <1>10
<1> QED
  BY <1>1, <1>5, <1>10, <1>12, <1>13, <1>14, <1>15, <1>16, <1>17, <1>18, <1>19, RepairKept

LEMMA UpStep ==
  ASSUME TreeInv, NEW s \in Sides, delete_fixup_up(s)
  PROVE  TreeInv'
<1>1. /\ TypeOK /\ Coloured /\ Repairing(s) /\ color[Sibling(s)] = "BLACK"
      /\ color[Near(s)] = "BLACK" /\ color[Far(s)] = "BLACK"
      /\ color' = [color EXCEPT ![Sibling(s)] = "RED"]
      /\ x' = parent[x]
      /\ UNCHANGED <<root, kid, parent, at, goal, y, content>>
  BY DEF delete_fixup_up, TreeInv
<1>2. PICK D : Shape(Live, root, kid, parent, D) /\ Cursor(D)
  BY DEF TreeInv
<1>3. PICK b : Even(Live, kid, color, b, HoleP, SideOf(x))
  BY DEF TreeInv
<1>4. PICK p, w, m, f : p = parent[x] /\ w = Sibling(s) /\ m = Near(s) /\ f = Far(s)
  OBVIOUS
<1>5. /\ p \in Live /\ kid[s][p] = x /\ Even(Live, kid, color, b, p, s)
      /\ w \in Live /\ w # p /\ parent[w] = p /\ goal \in content
      /\ \A q \in Live : color[q] = "BLACK" \/ (parent[q] # nil /\ color[parent[q]] = "BLACK")
  BY <1>1, <1>2, <1>3, <1>4, RepairFacts
<1>6. /\ Live \subseteq Cells /\ nil \notin Live /\ nil \in Cells
      /\ color \in [Cells -> {"RED", "BLACK"}] /\ color[nil] = "BLACK"
  BY <1>1, TypeFacts
<1>7. Other(s) \in Sides /\ \A t \in Sides : t = s \/ t = Other(s)
  BY SideFacts
<1>8. /\ w = kid[Other(s)][p] /\ color[w] = "BLACK" /\ m = kid[s][w] /\ color[m] = "BLACK"
      /\ f = kid[Other(s)][w] /\ color[f] = "BLACK" /\ at = "delete_fixup"
  BY <1>1, <1>4 DEF Sibling, Near, Far, Repairing
<1>9. /\ color' \in [Cells -> {"RED", "BLACK"}] /\ color'[nil] = "BLACK" /\ color'[w] = "RED"
      /\ \A q \in Cells : q # w => color'[q] = color[q]
  BY <1>1, <1>4, <1>5, <1>6
<1>10. Live' = Live /\ x' = p /\ at' = "delete_fixup"
  BY <1>1, <1>4, <1>8 DEF Live
<1>11. /\ SideOf(p) \in Sides /\ SideOf(x)' = SideOf(p)
       /\ p # root => parent[p] \in Live /\ kid[SideOf(p)][parent[p]] = p
  <2>1. SideOf(x)' = SideOf(p)
    BY <1>1, <1>10 DEF SideOf
  <2> QED
    BY <2>1, <1>2, <1>5, LinkFacts
<1>12. HoleP' = IF p = root THEN nil ELSE parent[p]
  BY <1>1, <1>10 DEF HoleP
<1>13. PICK b2 : Even(Live', kid', color', b2, HoleP', SideOf(x)')
  <2>1. \A q \in Live \ {w} : color'[q] = color[q]
    BY <1>6, <1>9
  <2>2. PICK hp : hp = IF p = root THEN nil ELSE parent[p]
    OBVIOUS
  <2>3. IF p = root THEN hp = nil ELSE hp \in Live /\ SideOf(p) \in Sides /\ kid[SideOf(p)][hp] = p
    BY <2>2, <1>11
  <2>4. \E b2 : Even(Live, kid, color', b2, hp, SideOf(p))
    BY <2>1, <2>3, <1>2, <1>5, <1>8, <1>9, EvenUp
  <2> QED
    BY <2>2, <2>4, <1>1, <1>10, <1>11, <1>12
<1>14. TypeOK'
  <2>1. goal \in Cells /\ y \in Cells /\ content \subseteq Nodes /\ x' \in Cells
    BY <1>1, <1>5, <1>6, <1>10 DEF TypeOK
  <2>2. PointersOK(root', kid', parent')
    BY <1>1 DEF TypeOK, PointersOK, KidType, ParentType
  <2> QED
    BY <2>1, <2>2, <1>1, <1>8, <1>9, TypeKept
<1>15. Shape(Live', root', kid', parent', D)
  BY <1>1, <1>2, <1>10
<1>16. Cursor(D)'
  BY <1>1, <1>5, <1>10, <1>11 DEF Cursor, RepairCursor
<1>17. Coloured'
  <2>1. ASSUME NEW q \in Live
        PROVE  color'[q] = "BLACK" \/ (parent[q] # nil /\ (color'[parent[q]] = "BLACK" \/ parent[q] = p))
    <3>1. CASE q = w
      BY <3>1, <1>5, <1>6
    <3>2. CASE q # w
      <4>1. color'[q] = color[q]
        BY <3>2, <1>6, <1>9
      <4>2. parent[q] # nil => parent[q] \in Live /\ \E t \in Sides : kid[t][parent[q]] = q
        BY <1>2, LinkFacts
      <4>3. parent[q] = w => color[q] = "BLACK"
        BY <4>2, <1>5, <1>6, <1>7, <1>8
      <4> QED
        BY <4>1, <4>2, <4>3, <1>5, <1>6, <1>9
    <3> QED
      BY <3>1, <3>2
  <2> QED
    BY <2>1, <1>1, <1>10 DEF Coloured, Passes
<1> QED
  BY <1>13, <1>14, <1>15, <1>16, <1>17 DEF TreeInv

LEMMA FarStep ==
  ASSUME TreeInv, NEW s \in Sides, delete_fixup_far(s)
  PROVE  TreeInv'
<1>1. /\ TypeOK /\ Coloured /\ Repairing(s) /\ color[Sibling(s)] = "BLACK"
      /\ color[Far(s)] = "RED"
      /\ color' = [color EXCEPT ![Sibling(s)] = color[parent[x]],
                                ![parent[x]] = "BLACK", ![Far(s)] = "BLACK"]
      /\ rotate(s, parent[x]) /\ x' = root'
      /\ UNCHANGED <<at, goal, y, content>>
  BY DEF delete_fixup_far, TreeInv
<1>2. PICK D : Shape(Live, root, kid, parent, D) /\ Cursor(D)
  BY DEF TreeInv
<1>3. PICK b : Even(Live, kid, color, b, HoleP, SideOf(x))
  BY DEF TreeInv
<1>4. PICK p, w, c, f : p = parent[x] /\ w = Sibling(s) /\ c = kid[s][w] /\ f = Far(s)
  OBVIOUS
<1>5. /\ p \in Live /\ kid[s][p] = x /\ Even(Live, kid, color, b, p, s)
      /\ w \in Live /\ w # p /\ parent[w] = p /\ p \notin D[w] /\ goal \in content
      /\ \A q \in Live : color[q] = "BLACK" \/ (parent[q] # nil /\ color[parent[q]] = "BLACK")
  BY <1>1, <1>2, <1>3, <1>4, RepairFacts
<1>6. /\ Live \subseteq Cells /\ nil \notin Live /\ nil \in Cells /\ SideOf(p) \in Sides
      /\ color \in [Cells -> {"RED", "BLACK"}] /\ color[nil] = "BLACK"
  BY <1>1, TypeFacts
<1>7. Other(s) \in Sides /\ Other(s) # s /\ \A t \in Sides : t = s \/ t = Other(s)
  BY SideFacts
<1>8. /\ w = kid[Other(s)][p] /\ color[w] = "BLACK" /\ at = "delete_fixup"
      /\ f = kid[Other(s)][w] /\ color[f] = "RED"
  BY <1>1, <1>4 DEF Sibling, Far, Repairing
<1>9. f \in Live /\ f # w /\ f # p
  <2>1. f # nil
    BY <1>6, <1>8
  <2>2. f \in Live /\ f \in D[f] /\ D[f] \subseteq D[w] /\ f # w
    BY <2>1, <1>2, <1>5, <1>7, <1>8, ShapeKids
  <2> QED
    BY <2>2, <1>5
<1>10. /\ Spot(Live, root, kid, parent, D, s, SideOf(p), parent[p], p, w, c)
       /\ Rotated(root, kid, parent, s, SideOf(p), parent[p], p, w, c, root', kid', parent')
       /\ PointersOK(root', kid', parent')
       /\ \E D2 : Shape(Live, root', kid', parent', D2)
       /\ \A q \in Cells : parent'[q] = IF q = c /\ c # nil THEN p
                                        ELSE IF q = w THEN parent[p]
                                        ELSE IF q = p THEN w ELSE parent[q]
  BY <1>1, <1>2, <1>4, <1>5, <1>8, RotateStep
<1>11. c # p /\ c # w /\ c \in Cells /\ parent[p] # w
  BY <1>6, <1>10 DEF Spot
<1>12. /\ color' \in [Cells -> {"RED", "BLACK"}] /\ color'[nil] = "BLACK"
       /\ color'[w] = color[p] /\ color'[p] = "BLACK" /\ color'[f] = "BLACK"
       /\ \A q \in Cells : q # p /\ q # w /\ q # f => color'[q] = color[q]
  BY <1>1, <1>4, <1>5, <1>6, <1>9
<1>13. Live' = Live /\ at' = "delete_fixup" /\ HoleP' = nil
  BY <1>1, <1>8 DEF Live, HoleP
<1>14. PICK b2 : Even(Live', kid', color', b2, HoleP', SideOf(x)')
  <2>1. \A q \in Live \ {p, w, f} : color'[q] = color[q]
    BY <1>6, <1>12
  <2>2. \E b2 : Even(Live, kid', color', b2, nil, SideOf(x)')
    BY <2>1, <1>2, <1>5, <1>6, <1>8, <1>9, <1>10, <1>12, RotationFar
  <2> QED
    BY <2>2, <1>13
<1>15. TypeOK'
  <2>1. goal \in Cells /\ y \in Cells /\ content \subseteq Nodes /\ x' \in Cells
    BY <1>1, <1>10 DEF TypeOK, PointersOK
  <2> QED
    BY <2>1, <1>1, <1>10, <1>12, <1>13, TypeKept
<1>16. PICK D2 : Shape(Live', root', kid', parent', D2)
  BY <1>10, <1>13
<1>17. Cursor(D2)'
  <2>1. root' \in Live' \cup {nil}
    BY <1>16 DEF Shape, Links
  <2>2. RepairCursor'
    BY <2>1, <1>1 DEF RepairCursor
  <2> QED
    BY <2>2, <1>1, <1>5, <1>13 DEF Cursor
<1>18. Coloured'
  <2>1. ASSUME NEW q \in Live
        PROVE  color'[q] = "BLACK" \/ (parent'[q] # nil /\ color'[parent'[q]] = "BLACK")
    <3>1. CASE q = p \/ q = f
      BY <3>1, <1>12
    <3>2. CASE q = c
      <4>1. parent'[q] = p /\ p # nil
        BY <3>2, <1>5, <1>6, <1>10
      <4> QED
        BY <4>1, <1>12
    <3>3. CASE q = w
      <4>1. parent'[q] = parent[p] /\ color'[q] = color[p]
        BY <3>3, <1>6, <1>10, <1>11, <1>12
      <4>2. color[p] = "BLACK" \/ (parent[p] # nil /\ color[parent[p]] = "BLACK")
        BY <1>5
      <4>3. parent[p] # nil => parent[p] \in Cells
        BY <1>2, <1>5, <1>6, LinkFacts
      <4>4. parent[p] # nil /\ color[parent[p]] = "BLACK" => color'[parent[p]] = "BLACK"
        BY <4>3, <1>11, <1>12
      <4> QED
        BY <4>1, <4>2, <4>4
    <3>4. CASE q \notin {p, f, c, w}
      <4>1. parent'[q] = parent[q] /\ color'[q] = color[q]
        BY <3>4, <1>6, <1>10, <1>12
      <4>2. parent[q] # nil => parent[q] \in Live /\ \E t \in Sides : kid[t][parent[q]] = q
        BY <1>2, LinkFacts
      <4>3. parent[q] # w
        BY <4>2, <3>4, <1>4, <1>5, <1>6, <1>7, <1>8
      <4> QED
        BY <4>1, <4>2, <4>3, <1>5, <1>6, <1>12
    <3> QED
      BY <3>1, <3>2, <3>3, <3>4
  <2> QED
    BY <2>1, <1>13 DEF Coloured, Passes
<1> QED
  BY <1>14, <1>15, <1>16, <1>17, <1>18 DEF TreeInv

LEMMA DeleteDone ==
  ASSUME TreeInv, delete_fixup_done
  PROVE  TreeInv'
<1>1. /\ TypeOK /\ Coloured /\ at = "delete_fixup" /\ (x = root \/ color[x] # "BLACK")
      /\ color' = [color EXCEPT ![x] = "BLACK"] /\ at' = "free"
      /\ UNCHANGED <<root, kid, parent, goal, x, y, content>>
  BY DEF delete_fixup_done, TreeInv
<1>2. PICK D : Shape(Live, root, kid, parent, D) /\ Cursor(D)
  BY DEF TreeInv
<1>3. PICK b : Even(Live, kid, color, b, HoleP, SideOf(x))
  BY DEF TreeInv
<1>4. /\ goal \in content /\ x \in Live \cup {nil}
      /\ x # root => parent[x] \in Live /\ kid[SideOf(x)][parent[x]] = x
  BY <1>1, <1>2 DEF Cursor, RepairCursor
<1>5. /\ Live \subseteq Cells /\ nil \notin Live /\ nil \in Cells /\ SideOf(x) \in Sides
      /\ color \in [Cells -> {"RED", "BLACK"}] /\ color[nil] = "BLACK"
  BY <1>1, TypeFacts
<1>6. /\ color' \in [Cells -> {"RED", "BLACK"}] /\ color'[nil] = "BLACK"
      /\ color'[x] = "BLACK" /\ \A q \in Cells : q # x => color'[q] = color[q]
  BY <1>1, <1>4, <1>5
<1>7. Live' = Live /\ HoleP' = nil
  BY <1>1 DEF Live, HoleP
<1>8. PICK b2 : Even(Live', kid', color', b2, HoleP', SideOf(x)')
  <2>1. CASE color[x] = "RED"
    <3>1. x \in Live
      BY <2>1, <1>4, <1>5
    <3>2. IF x = root THEN HoleP = nil
          ELSE HoleP \in Live /\ SideOf(x) \in Sides /\ kid[SideOf(x)][HoleP] = x
      BY <1>1, <1>4, <1>5 DEF HoleP
    <3>3. \A q \in Live \ {x} : color'[q] = color[q]
      BY <1>5, <1>6
    <3>4. \E b2 : Even(Live, kid, color', b2, nil, SideOf(x))
      BY <2>1, <3>1, <3>2, <3>3, <1>2, <1>3, <1>6, EvenBlacken
    <3>5. SideOf(x)' = SideOf(x)
      BY <1>1 DEF SideOf
    <3> QED
      BY <3>4, <3>5, <1>1, <1>7
  <2>2. CASE color[x] # "RED"
    <3>1. x = root /\ HoleP = nil
      BY <2>2, <1>1, <1>4, <1>5 DEF HoleP
    <3>2. color' = color
      BY <2>2, <1>1, <1>4, <1>5
    <3>3. SideOf(x)' = SideOf(x)
      BY <1>1 DEF SideOf
    <3> QED
      BY <3>1, <3>2, <3>3, <1>1, <1>3, <1>7
  <2> QED
    BY <2>1, <2>2
<1>9. TypeOK'
  <2>1. goal \in Cells /\ x \in Cells /\ y \in Cells /\ content \subseteq Nodes
    BY <1>1 DEF TypeOK
  <2>2. PointersOK(root', kid', parent')
    BY <1>1 DEF TypeOK, PointersOK, KidType, ParentType
  <2> QED
    BY <2>1, <2>2, <1>1, <1>6, TypeKept
<1>10. Shape(Live', root', kid', parent', D)
  BY <1>1, <1>2, <1>7
<1>11. Cursor(D)'
  BY <1>1, <1>4 DEF Cursor
<1>12. Coloured'
  <2>1. \A q \in Cells : Passes(q) => color'[q] = "BLACK"
    BY <1>1, <1>6 DEF Passes
  <2>2. \A q \in Live : parent[q] # nil => parent[q] \in Cells
    BY <1>2, <1>5, LinkFacts
  <2>3. \A q \in Live : Passes(q) \/ (parent[q] # nil /\ Passes(parent[q]))
    BY <1>1 DEF Coloured
  <2> QED
    BY <2>1, <2>2, <2>3, <1>1, <1>5, <1>7 DEF Coloured, Passes
<1> QED
  BY <1>8, <1>9, <1>10, <1>11, <1>12 DEF TreeInv

LEMMA FreeStep ==
  ASSUME TreeInv, delete_free
  PROVE  TreeInv'
<1>1. /\ TypeOK /\ Coloured /\ at = "free" /\ content' = content \ {goal}
      /\ kid' = [s \in Sides |-> [kid[s] EXCEPT ![goal] = nil]]
      /\ parent' = [parent EXCEPT ![goal] = nil]
      /\ color' = [color EXCEPT ![goal] = "BLACK"]
      /\ at' = "idle" /\ goal' = nil /\ x' = nil /\ root' = root /\ y' = y
  BY DEF delete_free, TreeInv
<1>2. PICK D : Shape(Live, root, kid, parent, D) /\ Cursor(D)
  BY DEF TreeInv
<1>3. PICK b : Even(Live, kid, color, b, HoleP, SideOf(x))
  BY DEF TreeInv
<1>4. /\ Live \subseteq Nodes /\ Live \subseteq Cells /\ nil \notin Nodes /\ nil \in Cells
      /\ root \in Cells /\ kid \in KidType /\ parent \in ParentType
      /\ \A t \in Sides : kid[t][nil] = Junk /\ \A q \in Nodes : kid[t][q] \in Cells
      /\ \A q \in Nodes : parent[q] \in Cells
      /\ Junk \notin Cells
      /\ color \in [Cells -> {"RED", "BLACK"}] /\ color[nil] = "BLACK"
  BY <1>1, TypeFacts, TreeAssumption DEF Cells
<1>5. goal \in Nodes
  BY <1>1, <1>2 DEF Cursor, TypeOK
<1>6. Live' = Live /\ goal \notin Live /\ HoleP = nil /\ HoleP' = nil
  BY <1>1 DEF Live, HoleP
<1>7. /\ kid' \in KidType /\ parent' \in ParentType /\ color' \in [Cells -> {"RED", "BLACK"}]
      /\ \A q \in Cells : \A t \in Sides : kid'[t][q] = IF q = goal THEN nil ELSE kid[t][q]
      /\ \A q \in Cells : parent'[q] = IF q = goal THEN nil ELSE parent[q]
      /\ \A q \in Cells : color'[q] = IF q = goal THEN "BLACK" ELSE color[q]
  <2>1. goal \in Cells
    BY <1>5 DEF Cells
  <2>2. kid' \in KidType /\ \A q \in Cells : \A t \in Sides :
          kid'[t][q] = IF q = goal THEN nil ELSE kid[t][q]
    BY <2>1, <1>1, <1>4 DEF KidType
  <2> QED
    BY <2>1, <2>2, <1>1, <1>4 DEF ParentType
<1>8. /\ \A q \in Live : \A t \in Sides : kid'[t][q] = kid[t][q]
      /\ \A q \in Live : parent'[q] = parent[q] /\ color'[q] = color[q]
  BY <1>4, <1>6, <1>7
<1>9. Shape(Live', root', kid', parent', D)
  <2>1. Links(Live, root, kid', parent')
    <3>1. Links(Live, root, kid, parent)
      BY <1>2 DEF Shape
    <3>2. ASSUME NEW q \in Live, NEW t \in Sides, kid'[t][q] # nil
          PROVE  kid'[t][q] \in Live /\ parent'[kid'[t][q]] = q
      BY <3>1, <3>2, <1>8 DEF Links
    <3>3. ASSUME NEW q \in Live
          PROVE  IF parent'[q] = nil THEN root = q
                 ELSE parent'[q] \in Live /\ \E t \in Sides : kid'[t][parent'[q]] = q
      BY <3>1, <1>8 DEF Links
    <3> QED
      BY <3>1, <3>2, <3>3 DEF Links
  <2>2. ASSUME NEW q \in Live, NEW t \in Sides PROVE SpanAt(kid', D, q, t)
    <3>1. SpanAt(kid, D, q, t) /\ Other(t) \in Sides
      BY <1>2, SideFacts DEF Shape
    <3>2. kid'[t][q] = kid[t][q] /\ kid'[Other(t)][q] = kid[Other(t)][q]
      BY <3>1, <1>8
    <3> QED
      BY <3>1, <3>2 DEF SpanAt
  <2>3. Shape(Live, root, kid', parent', D)
    BY <2>1, <2>2, <1>2, <1>7 DEF Shape
  <2> QED
    BY <2>3, <1>1, <1>6
<1>10. Even(Live', kid', color', b, HoleP', SideOf(x)')
  <2>1. Even(Live, kid, color, b, nil, SideOf(x)')
    BY <1>3, <1>4, <1>6, EvenNoHole
  <2>2. Even(Live, kid', color', b, nil, SideOf(x)')
    BY <2>1, <1>8 DEF Even
  <2> QED
    BY <2>2, <1>6
<1>11. TypeOK'
  <2>1. y \in Cells /\ content \subseteq Nodes
    BY <1>1 DEF TypeOK
  <2>2. PointersOK(root', kid', parent')
    <3>1. ASSUME NEW t \in Sides PROVE kid'[t][nil] = Junk /\ \A q \in Nodes : kid'[t][q] # Junk
      BY <1>4, <1>5, <1>7 DEF Cells
    <3>2. \A q \in Nodes : parent'[q] # Junk
      BY <1>4, <1>7 DEF Cells
    <3> QED
      BY <3>1, <3>2, <1>1, <1>4, <1>7 DEF PointersOK
  <2>3. color'[nil] = "BLACK"
    BY <1>4, <1>7
  <2> QED
    BY <2>1, <2>2, <2>3, <1>1, <1>4, <1>7, TypeKept
<1>12. Cursor(D)'
  BY <1>1 DEF Cursor
<1>13. Coloured'
  <2>1. \A q \in Live : color[q] = "BLACK" \/ (parent[q] # nil /\ color[parent[q]] = "BLACK")
    BY <1>1 DEF Coloured, Passes
  <2>2. \A q \in Live : parent[q] # nil => parent[q] \in Live
    BY <1>2, LinkFacts
  <2> QED
    BY <2>1, <2>2, <1>6, <1>8 DEF Coloured, Passes
<1> QED
  BY <1>9, <1>10, <1>11, <1>12, <1>13 DEF TreeInv

-----------------------------------------------------------------------------
LEMMA NextHolds ==
  ASSUME TreeInv, [Next]_vars
  PROVE  TreeInv'
<1>1. CASE UNCHANGED vars
  <2>1. UNCHANGED <<root, kid, parent, color, at, goal, x, y, content>>
    BY <1>1 DEF vars, tree
  <2>2. Live' = Live /\ HoleP' = HoleP /\ SideOf(x)' = SideOf(x)
    BY <2>1 DEF Live, HoleP, SideOf
  <2>3. TypeOK' /\ Coloured'
    BY <2>1, <2>2 DEF TreeInv, TypeOK, Coloured, Passes
  <2>4. PICK D : Shape(Live, root, kid, parent, D) /\ Cursor(D)
    BY DEF TreeInv
  <2>5. Shape(Live', root', kid', parent', D)
    BY <2>1, <2>2, <2>4
  <2>6. Cursor(D)'
    BY <2>1, <2>2, <2>4
       DEF Cursor, DescendCursor, SearchCursor, MinimumCursor, RepairCursor, SideOf
  <2>7. \E b : Even(Live', kid', color', b, HoleP', SideOf(x)')
    BY <2>1, <2>2 DEF TreeInv
  <2> QED
    BY <2>3, <2>5, <2>6, <2>7 DEF TreeInv
<1>2. CASE Next
  <2>1. CASE \E n \in Nodes : insert_descend(n) \/ insert_link(n) \/ delete_successor(n)
    BY <2>1, DescendStep, LinkStep, SuccessorStep
  <2>2. CASE \E s \in Sides : insert_fixup_uncle(s) \/ insert_fixup_triangle(s)
                              \/ insert_fixup_line(s)
    BY <2>2, UncleStep, TriangleStep, LineStep
  <2>3. CASE \E s \in Sides : \/ delete_fixup_red(s) \/ delete_fixup_up(s)
                              \/ delete_fixup_near(s) \/ delete_fixup_far(s)
    BY <2>3, RedStep, UpStep, NearStep, FarStep
  <2>4. CASE insert_done
    BY <2>4, InsertDone
  <2>5. CASE search_step
    BY <2>5, SearchStep
  <2>6. CASE search_fails
    BY <2>6, SearchFails
  <2>7. CASE search_finds
    BY <2>7, SearchFinds
  <2>8. CASE minimum_step
    BY <2>8, MinimumStep
  <2>9. CASE delete_unlink
    BY <2>9, UnlinkStep
  <2>10. CASE delete_fixup_done
    BY <2>10, DeleteDone
  <2>11. CASE delete_free
    BY <2>11, FreeStep
  <2>12. CASE \E n \in Nodes : insert(n) \/ search(n)
    BY <2>12, InsertStep, SearchStarts
  <2> QED
    BY <1>2, <2>1, <2>2, <2>3, <2>4, <2>5, <2>6, <2>7, <2>8, <2>9, <2>10, <2>11, <2>12
       DEF Next, Step
<1> QED
  BY <1>1, <1>2

LEMMA TreeInvAlways ==
  Spec => []TreeInv
<1>1. Init => TreeInv
  BY InitHolds
<1>2. TreeInv /\ [Next]_vars => TreeInv'
  BY NextHolds
<1> QED
  BY <1>1, <1>2, PTL DEF Spec

-----------------------------------------------------------------------------
(* The recursive definitions.  Applying step again and again from base     *)
(* gives a function, so that the definitions mean what they say.           *)

Iterates(S, base, step, N, f) ==
  /\ f \in [0 .. N -> S] /\ f[0] = base
  /\ \A d \in 0 .. N : d # 0 => f[d] = step[f[d - 1]]

LEMMA IteratesExist ==
  ASSUME NEW S, NEW base \in S, NEW step \in [S -> S], NEW N \in Nat
  PROVE  \E f : Iterates(S, base, step, N, f)
<1> DEFINE T == {m \in Nat : ~\E f : Iterates(S, base, step, m, f)}
<1>1. SUFFICES ASSUME T # {} PROVE FALSE
  OBVIOUS
<1>2. PICK m \in T : \A k \in T : m <= k
  BY <1>1, Smallest
<1>3. m # 0
  <2>1. SUFFICES ASSUME m = 0 PROVE FALSE
    OBVIOUS
  <2>2. PICK f : f = [d \in 0 .. 0 |-> base]
    OBVIOUS
  <2>3. Iterates(S, base, step, 0, f)
    BY <2>2 DEF Iterates
  <2> QED
    BY <2>1, <2>3, <1>2
<1>4. PICK k \in Nat : m = k + 1
  BY <1>2, <1>3
<1>5. k \notin T
  BY <1>2, <1>4
<1>6. PICK f : Iterates(S, base, step, k, f)
  BY <1>5
<1>7. /\ f \in [0 .. k -> S] /\ f[0] = base
      /\ \A d \in 0 .. k : d # 0 => f[d] = step[f[d - 1]]
  BY <1>6 DEF Iterates
<1>8. PICK g : g = [d \in 0 .. m |-> IF d = m THEN step[f[k]] ELSE f[d]]
  OBVIOUS
<1>9. g \in [0 .. m -> S]
  <2>1. f[k] \in S
    BY <1>4, <1>7
  <2>2. \A d \in 0 .. m : d # m => d \in 0 .. k
    BY <1>4
  <2> QED
    BY <2>1, <2>2, <1>7, <1>8
<1>10. g[0] = base
  BY <1>3, <1>4, <1>7, <1>8
<1>11. ASSUME NEW d \in 0 .. m, d # 0 PROVE g[d] = step[g[d - 1]]
  <2>1. PICK i \in 0 .. k : i = d - 1
    BY <1>4, <1>11
  <2>2. i \in 0 .. m /\ i # m
    BY <2>1, <1>4
  <2>3. g[i] = f[i]
    BY <2>2, <1>8
  <2>4. CASE d = m
    BY <2>1, <2>3, <2>4, <1>4, <1>8
  <2>5. CASE d # m
    <3>1. d \in 0 .. k
      BY <2>5, <1>4
    <3>2. f[d] = step[f[i]]
      BY <3>1, <2>1, <1>7, <1>11
    <3> QED
      BY <3>2, <2>1, <2>3, <2>5, <1>8
  <2> QED
    BY <2>4, <2>5
<1>12. Iterates(S, base, step, m, g)
  BY <1>9, <1>10, <1>11 DEF Iterates
<1> QED
  BY <1>2, <1>12

(* One level more of the walk in order.                                    *)
Walked(k, g) ==
  [n \in Cells |-> IF n = nil THEN <<>> ELSE g[k["left"][n]] \o <<n>> \o g[k["right"][n]]]

LEMMA InOrderIs ==
  ASSUME TypeOK
  PROVE  \A d \in Depths : \A n \in Cells :
           InOrder[d][n] = IF n = nil \/ d = 0 THEN <<>>
                           ELSE InOrder[d - 1][kid["left"][n]] \o <<n>>
                                \o InOrder[d - 1][kid["right"][n]]
<1>1. PICK N \in Nat : N = Cardinality(Nodes)
  BY TreeAssumption, FS_CardinalityType
<1>2. /\ nil \in Cells /\ "left" \in Sides /\ "right" \in Sides
      /\ \A s \in Sides : \A n \in Nodes : kid[s][n] \in Cells
  BY TypeFacts
<1>3. PICK S : S = [Cells -> Seq(Nodes)]
  OBVIOUS
<1>4. PICK base : base = [n \in Cells |-> <<>>]
  OBVIOUS
<1>5. base \in S
  BY <1>3, <1>4
<1>6. PICK step : step = [g \in S |-> Walked(kid, g)]
  OBVIOUS
<1>7. step \in [S -> S]
  <2>1. ASSUME NEW g \in S PROVE Walked(kid, g) \in S
    <3>1. ASSUME NEW n \in Cells
          PROVE  (IF n = nil THEN <<>> ELSE g[kid["left"][n]] \o <<n>> \o g[kid["right"][n]])
                   \in Seq(Nodes)
      <4>1. CASE n = nil
        BY <4>1
      <4>2. CASE n # nil
        <5>1. n \in Nodes
          BY <4>2 DEF Cells
        <5>2. g[kid["left"][n]] \in Seq(Nodes) /\ g[kid["right"][n]] \in Seq(Nodes)
          BY <5>1, <1>2, <1>3
        <5>3. <<n>> \in Seq(Nodes)
          BY <5>1
        <5> QED
          BY <4>2, <5>2, <5>3, ConcatProperties
      <4> QED
        BY <4>1, <4>2
    <3> QED
      BY <3>1, <1>3 DEF Walked
  <2> QED
    BY <2>1, <1>6
<1>8. PICK f : Iterates(S, base, step, N, f)
  BY <1>5, <1>7, IteratesExist
<1>9. /\ f \in [Depths -> S] /\ f[0] = base
      /\ \A d \in Depths : d # 0 => f[d] = step[f[d - 1]]
  BY <1>1, <1>8 DEF Iterates, Depths
<1>10. ASSUME NEW d \in Depths
       PROVE  f[d] = [n \in Cells |-> IF n = nil \/ d = 0 THEN <<>>
                                      ELSE f[d - 1][kid["left"][n]] \o <<n>>
                                           \o f[d - 1][kid["right"][n]]]
  <2>1. CASE d = 0
    BY <2>1, <1>4, <1>9
  <2>2. CASE d # 0
    <3>1. PICK i \in Depths : i = d - 1
      BY <2>2, <1>1 DEF Depths
    <3>2. f[i] \in S /\ f[d] = step[f[i]]
      BY <2>2, <3>1, <1>9
    <3>3. f[d] = Walked(kid, f[i])
      BY <3>2, <1>6
    <3> QED
      BY <3>1, <3>3, <2>2 DEF Walked
  <2> QED
    BY <2>1, <2>2
<1>11. f = [d \in Depths |->
             [n \in Cells |-> IF n = nil \/ d = 0 THEN <<>>
                              ELSE f[d - 1][kid["left"][n]] \o <<n>>
                                   \o f[d - 1][kid["right"][n]]]]
  BY <1>9, <1>10
<1>12. InOrder = [d \in Depths |->
                   [n \in Cells |-> IF n = nil \/ d = 0 THEN <<>>
                                    ELSE InOrder[d - 1][kid["left"][n]] \o <<n>>
                                         \o InOrder[d - 1][kid["right"][n]]]]
  BY <1>11 DEF InOrder
<1>13. PICK h : h = InOrder
  OBVIOUS
<1>14. h = [d \in Depths |->
             [n \in Cells |-> IF n = nil \/ d = 0 THEN <<>>
                              ELSE h[d - 1][kid["left"][n]] \o <<n>>
                                   \o h[d - 1][kid["right"][n]]]]
  BY <1>12, <1>13
<1>15. ASSUME NEW d \in Depths
       PROVE  h[d] = [n \in Cells |-> IF n = nil \/ d = 0 THEN <<>>
                                      ELSE h[d - 1][kid["left"][n]] \o <<n>>
                                           \o h[d - 1][kid["right"][n]]]
  BY <1>14, Zenon
<1>16. ASSUME NEW d \in Depths, NEW n \in Cells
       PROVE  h[d][n] = IF n = nil \/ d = 0 THEN <<>>
                        ELSE h[d - 1][kid["left"][n]] \o <<n>> \o h[d - 1][kid["right"][n]]
  BY <1>15, Zenon
<1> QED
  BY <1>13, <1>16

(* One level more of the black heights, the sentinel being black.          *)
Heightened(g, k) ==
  [n \in Cells |->
     IF n = nil THEN Weight(n)
     ELSE LET l == g[k["left"][n]] + Extra(n, "left")
              r == g[k["right"][n]] + Extra(n, "right")
          IN  IF l = r /\ l > 0 THEN l + Weight(n) ELSE -1]

LEMMA BlackHeightIs ==
  ASSUME TypeOK
  PROVE  \A d \in Depths : \A n \in Cells :
           BlackHeight[d][n] =
             IF n = nil \/ d = 0 THEN Weight(n)
             ELSE LET l == BlackHeight[d - 1][kid["left"][n]] + Extra(n, "left")
                      r == BlackHeight[d - 1][kid["right"][n]] + Extra(n, "right")
                  IN  IF l = r /\ l > 0 THEN l + Weight(n) ELSE -1
<1>1. PICK N \in Nat : N = Cardinality(Nodes)
  BY TreeAssumption, FS_CardinalityType
<1>2. /\ nil \in Cells /\ "left" \in Sides /\ "right" \in Sides
      /\ \A s \in Sides : \A n \in Nodes : kid[s][n] \in Cells
  BY TypeFacts
<1>3. PICK S : S = [Cells -> Int]
  OBVIOUS
<1>4. PICK base : base = [n \in Cells |-> Weight(n)]
  OBVIOUS
<1>5. base \in S
  BY <1>3, <1>4 DEF Weight
<1>6. PICK step : step = [g \in S |-> Heightened(g, kid)]
  OBVIOUS
<1>7. step \in [S -> S]
  <2>1. ASSUME NEW g \in S PROVE Heightened(g, kid) \in S
    <3>1. ASSUME NEW n \in Cells, n # nil
          PROVE  g[kid["left"][n]] \in Int /\ g[kid["right"][n]] \in Int
      <4>1. n \in Nodes
        BY <3>1 DEF Cells
      <4> QED
        BY <4>1, <1>2, <1>3
    <3>2. \A n \in Cells : Weight(n) \in Int /\ Extra(n, "left") \in Int /\ Extra(n, "right") \in Int
      BY DEF Weight, Extra
    <3> QED
      BY <3>1, <3>2, <1>3 DEF Heightened
  <2> QED
    BY <2>1, <1>6
<1>8. PICK f : Iterates(S, base, step, N, f)
  BY <1>5, <1>7, IteratesExist
<1>9. /\ f \in [Depths -> S] /\ f[0] = base
      /\ \A d \in Depths : d # 0 => f[d] = step[f[d - 1]]
  BY <1>1, <1>8 DEF Iterates, Depths
<1>10. ASSUME NEW d \in Depths
       PROVE  f[d] = [n \in Cells |->
                        IF n = nil \/ d = 0 THEN Weight(n)
                        ELSE LET l == f[d - 1][kid["left"][n]] + Extra(n, "left")
                                 r == f[d - 1][kid["right"][n]] + Extra(n, "right")
                             IN  IF l = r /\ l > 0 THEN l + Weight(n) ELSE -1]
  <2>1. CASE d = 0
    BY <2>1, <1>4, <1>9
  <2>2. CASE d # 0
    <3>1. PICK i \in Depths : i = d - 1
      BY <2>2, <1>1 DEF Depths
    <3>2. f[i] \in S /\ f[d] = step[f[i]]
      BY <2>2, <3>1, <1>9
    <3>3. f[d] = Heightened(f[i], kid)
      BY <3>2, <1>6
    <3> QED
      BY <3>1, <3>3, <2>2 DEF Heightened
  <2> QED
    BY <2>1, <2>2
<1>11. f = [d \in Depths |->
             [n \in Cells |->
                IF n = nil \/ d = 0 THEN Weight(n)
                ELSE LET l == f[d - 1][kid["left"][n]] + Extra(n, "left")
                         r == f[d - 1][kid["right"][n]] + Extra(n, "right")
                     IN  IF l = r /\ l > 0 THEN l + Weight(n) ELSE -1]]
  BY <1>9, <1>10
<1>12. BlackHeight = [d \in Depths |->
             [n \in Cells |->
                IF n = nil \/ d = 0 THEN Weight(n)
                ELSE LET l == BlackHeight[d - 1][kid["left"][n]] + Extra(n, "left")
                         r == BlackHeight[d - 1][kid["right"][n]] + Extra(n, "right")
                     IN  IF l = r /\ l > 0 THEN l + Weight(n) ELSE -1]]
  BY <1>11 DEF BlackHeight
<1>13. PICK h : h = BlackHeight
  OBVIOUS
<1>14. h = [d \in Depths |->
             [n \in Cells |->
                IF n = nil \/ d = 0 THEN Weight(n)
                ELSE LET l == h[d - 1][kid["left"][n]] + Extra(n, "left")
                         r == h[d - 1][kid["right"][n]] + Extra(n, "right")
                     IN  IF l = r /\ l > 0 THEN l + Weight(n) ELSE -1]]
  BY <1>12, <1>13
<1>15. ASSUME NEW d \in Depths
       PROVE  h[d] = [n \in Cells |->
                        IF n = nil \/ d = 0 THEN Weight(n)
                        ELSE LET l == h[d - 1][kid["left"][n]] + Extra(n, "left")
                                 r == h[d - 1][kid["right"][n]] + Extra(n, "right")
                             IN  IF l = r /\ l > 0 THEN l + Weight(n) ELSE -1]
  BY <1>14, Zenon
<1>16. ASSUME NEW d \in Depths, NEW n \in Cells
       PROVE  h[d][n] = IF n = nil \/ d = 0 THEN Weight(n)
                        ELSE LET l == h[d - 1][kid["left"][n]] + Extra(n, "left")
                                 r == h[d - 1][kid["right"][n]] + Extra(n, "right")
                             IN  IF l = r /\ l > 0 THEN l + Weight(n) ELSE -1
  BY <1>15, Zenon
<1> QED
  BY <1>13, <1>16

-----------------------------------------------------------------------------
(* What the walk of the tree returns.                                      *)

(* w lists the nodes of S, each once, in the order of their keys.          *)
Listing(w, S) ==
  /\ w \in Seq(Nodes) /\ Len(w) = Cardinality(S)
  /\ \A i \in 1 .. Len(w) : w[i] \in S
  /\ \A n \in S : \E i \in 1 .. Len(w) : w[i] = n
  /\ \A i, j \in 1 .. Len(w) : i <= j => Key(w[i]) <= Key(w[j])

LEMMA JoinedLists ==
  ASSUME NEW u, NEW v, NEW A, NEW C, Listing(u, A), Listing(v, C), NEW n \in Nodes,
         IsFiniteSet(A), IsFiniteSet(C), A \subseteq Nodes, C \subseteq Nodes,
         A \cap C = {}, n \notin A, n \notin C,
         \A m \in A : Key(m) <= Key(n), \A m \in C : Key(n) <= Key(m)
  PROVE  Listing(u \o <<n>> \o v, A \cup {n} \cup C)
<1>1. /\ u \in Seq(Nodes) /\ Len(u) = Cardinality(A)
      /\ \A i \in 1 .. Len(u) : u[i] \in A
      /\ \A m \in A : \E i \in 1 .. Len(u) : u[i] = m
      /\ \A i, j \in 1 .. Len(u) : i <= j => Key(u[i]) <= Key(u[j])
  BY DEF Listing
<1>2. /\ v \in Seq(Nodes) /\ Len(v) = Cardinality(C)
      /\ \A i \in 1 .. Len(v) : v[i] \in C
      /\ \A m \in C : \E i \in 1 .. Len(v) : v[i] = m
      /\ \A i, j \in 1 .. Len(v) : i <= j => Key(v[i]) <= Key(v[j])
  BY DEF Listing
<1>3. <<n>> \in Seq(Nodes) /\ Len(<<n>>) = 1 /\ <<n>>[1] = n
  OBVIOUS
<1>4. PICK a \in Nat, c \in Nat : a = Len(u) /\ c = Len(v)
  BY <1>1, <1>2, LenProperties
<1>5. PICK t : t = u \o <<n>>
  OBVIOUS
<1>6. /\ t \in Seq(Nodes) /\ Len(t) = a + 1
      /\ \A i \in 1 .. a : t[i] = u[i]
      /\ t[a + 1] = n
  <2>1. /\ t \in Seq(Nodes) /\ Len(t) = Len(u) + Len(<<n>>)
        /\ \A i \in 1 .. Len(u) + Len(<<n>>) :
             t[i] = IF i <= Len(u) THEN u[i] ELSE <<n>>[i - Len(u)]
    BY <1>1, <1>3, <1>5, ConcatProperties
  <2>2. \A i \in 1 .. a + 1 : t[i] = IF i <= a THEN u[i] ELSE <<n>>[i - a]
    BY <2>1, <1>3, <1>4
  <2>3. \A i \in 1 .. a : t[i] = u[i]
    BY <2>2
  <2>4. t[a + 1] = <<n>>[1]
    <3>1. a + 1 \in 1 .. a + 1 /\ ~(a + 1 <= a) /\ (a + 1) - a = 1
      OBVIOUS
    <3> QED
      BY <3>1, <2>2
  <2> QED
    BY <2>1, <2>3, <2>4, <1>3, <1>4
<1>7. PICK w : w = t \o v
  OBVIOUS
<1>8. /\ w \in Seq(Nodes) /\ Len(w) = a + 1 + c
      /\ \A i \in 1 .. a : w[i] = u[i]
      /\ w[a + 1] = n
      /\ \A i \in 1 .. c : w[a + 1 + i] = v[i]
  <2>1. /\ w \in Seq(Nodes) /\ Len(w) = Len(t) + Len(v)
        /\ \A i \in 1 .. Len(t) + Len(v) :
             w[i] = IF i <= Len(t) THEN t[i] ELSE v[i - Len(t)]
    <3>1. t \in Seq(Nodes) /\ v \in Seq(Nodes)
      BY <1>2, <1>6
    <3> QED
      BY <3>1, <1>7, ConcatProperties
  <2>2. \A i \in 1 .. a + 1 + c : w[i] = IF i <= a + 1 THEN t[i] ELSE v[i - (a + 1)]
    BY <2>1, <1>4, <1>6
  <2>3. \A i \in 1 .. a : w[i] = u[i]
    BY <2>2, <1>6
  <2>4. w[a + 1] = n
    BY <2>2, <1>6
  <2>5. ASSUME NEW i \in 1 .. c PROVE w[a + 1 + i] = v[i]
    <3>1. a + 1 + i \in 1 .. a + 1 + c /\ ~(a + 1 + i <= a + 1) /\ (a + 1 + i) - (a + 1) = i
      OBVIOUS
    <3>2. PICK j : j = a + 1 + i
      OBVIOUS
    <3> QED
      BY <3>1, <3>2, <2>2
  <2> QED
    BY <2>1, <2>3, <2>4, <2>5, <1>4, <1>6
<1>9. Cardinality(A \cup {n} \cup C) = a + 1 + c
  <2>1. IsFiniteSet(A \cup {n}) /\ Cardinality(A \cup {n}) = a + 1
    BY <1>1, <1>4, FS_AddElement
  <2>2. (A \cup {n}) \cap C = {}
    OBVIOUS
  <2>3. Cardinality((A \cup {n}) \cup C)
          = Cardinality(A \cup {n}) + Cardinality(C) - Cardinality((A \cup {n}) \cap C)
    BY <2>1, FS_Union
  <2>4. Cardinality((A \cup {n}) \cap C) = 0
    BY <2>2, FS_EmptySet
  <2>5. Cardinality((A \cup {n}) \cup C) = (a + 1) + c - 0
    BY <2>1, <2>3, <2>4, <1>2, <1>4
  <2> QED
    BY <2>5
<1>10. ASSUME NEW i \in 1 .. a + 1 + c
       PROVE  i \in 1 .. a \/ i = a + 1 \/ \E h \in 1 .. c : i = a + 1 + h
  <2>1. CASE i <= a + 1
    BY <2>1
  <2>2. CASE i > a + 1
    <3>1. PICK h \in 1 .. c : h = i - (a + 1)
      BY <2>2
    <3> QED
      BY <3>1
  <2> QED
    BY <2>1, <2>2
<1>11. ASSUME NEW i \in 1 .. a + 1 + c PROVE w[i] \in A \cup {n} \cup C
  <2>1. CASE i \in 1 .. a
    BY <2>1, <1>1, <1>4, <1>8
  <2>2. CASE i = a + 1
    BY <2>2, <1>8
  <2>3. ASSUME NEW h \in 1 .. c, i = a + 1 + h PROVE w[i] \in A \cup {n} \cup C
    BY <2>3, <1>2, <1>4, <1>8
  <2> QED
    BY <2>1, <2>2, <2>3, <1>10
<1>12. ASSUME NEW m \in A \cup {n} \cup C
       PROVE  \E i \in 1 .. a + 1 + c : w[i] = m
  <2>1. CASE m \in A
    <3>1. PICK i \in 1 .. a : u[i] = m
      BY <2>1, <1>1, <1>4
    <3> QED
      BY <3>1, <1>8
  <2>2. CASE m = n
    BY <2>2, <1>8
  <2>3. CASE m \in C
    <3>1. PICK i \in 1 .. c : v[i] = m
      BY <2>3, <1>2, <1>4
    <3>2. a + 1 + i \in 1 .. a + 1 + c /\ w[a + 1 + i] = m
      BY <3>1, <1>8
    <3> QED
      BY <3>2
  <2> QED
    BY <2>1, <2>2, <2>3
<1>13. \A m \in A : \A q \in C : Key(m) <= Key(q)
  BY TreeAssumption
<1>14. ASSUME NEW i \in 1 .. a + 1 + c, NEW j \in 1 .. a + 1 + c, i <= j
       PROVE  Key(w[i]) <= Key(w[j])
  <2>1. CASE i \in 1 .. a
    <3>1. w[i] = u[i] /\ u[i] \in A
      BY <2>1, <1>1, <1>4, <1>8
    <3>2. CASE j \in 1 .. a
      BY <2>1, <3>2, <1>1, <1>4, <1>8, <1>14
    <3>3. CASE j = a + 1
      BY <3>1, <3>3, <1>8
    <3>4. ASSUME NEW h \in 1 .. c, j = a + 1 + h PROVE Key(w[i]) <= Key(w[j])
      <4>1. w[j] \in C
        BY <3>4, <1>2, <1>4, <1>8
      <4> QED
        BY <4>1, <3>1, <1>13
    <3> QED
      BY <3>2, <3>3, <3>4, <1>10
  <2>2. CASE i = a + 1
    <3>1. w[i] = n
      BY <2>2, <1>8
    <3>2. CASE j = a + 1
      BY <2>2, <3>2, <3>1, TreeAssumption
    <3>3. ASSUME NEW h \in 1 .. c, j = a + 1 + h PROVE Key(w[i]) <= Key(w[j])
      <4>1. w[j] \in C
        BY <3>3, <1>2, <1>4, <1>8
      <4> QED
        BY <4>1, <3>1
    <3>4. ~(j \in 1 .. a)
      BY <2>2, <1>14
    <3> QED
      BY <3>2, <3>3, <3>4, <1>10
  <2>3. ASSUME NEW g \in 1 .. c, i = a + 1 + g PROVE Key(w[i]) <= Key(w[j])
    <3>1. PICK h \in 1 .. c : j = a + 1 + h
      <4>1. ~(j \in 1 .. a) /\ j # a + 1
        BY <2>3, <1>14
      <4> QED
        BY <4>1, <1>10
    <3>2. g <= h
      BY <2>3, <3>1, <1>14
    <3>3. w[i] = v[g] /\ w[j] = v[h]
      BY <2>3, <3>1, <1>8
    <3> QED
      BY <3>2, <3>3, <1>2, <1>4
  <2> QED
    BY <2>1, <2>2, <2>3, <1>10
<1>15. Listing(w, A \cup {n} \cup C)
  BY <1>8, <1>9, <1>11, <1>12, <1>14 DEF Listing
<1> QED
  BY <1>5, <1>7, <1>15

(* A walk deep enough for what is below n lists it.                        *)
Walks(D, d) ==
  \A n \in Live \cup {nil} : Cardinality(D[n]) <= d => Listing(InOrder[d][n], D[n])

LEMMA EmptyListing ==
  Listing(<<>>, {})
<1>1. Cardinality({}) = 0
  BY FS_EmptySet
<1>2. <<>> \in Seq(Nodes) /\ Len(<<>>) = 0
  OBVIOUS
<1> QED
  BY <1>1, <1>2 DEF Listing

LEMMA WalkStep ==
  ASSUME TypeOK, NEW D, Shape(Live, root, kid, parent, D), NEW d \in Depths,
         d # 0 => Walks(D, d - 1)
  PROVE  Walks(D, d)
<1>1. PICK N \in Nat : N = Cardinality(Nodes)
  BY TreeAssumption, FS_CardinalityType
<1>2. d \in 0 .. N
  BY <1>1 DEF Depths
<1>3. /\ Live \subseteq Nodes /\ Live \subseteq Cells /\ nil \in Cells /\ nil \notin Live
      /\ "left" \in Sides /\ "right" \in Sides
      /\ Other("left") = "right" /\ Other("right") = "left"
  BY TypeFacts DEF Other
<1>4. D[nil] = {} /\ \A n \in Cells : D[n] \subseteq Live
  BY DEF Shape
<1>5. Listing(InOrder[d][nil], D[nil])
  <2>1. InOrder[d][nil] = <<>>
    BY <1>3, InOrderIs
  <2> QED
    BY <2>1, <1>4, EmptyListing
<1>6. ASSUME NEW n \in Live, Cardinality(D[n]) <= d
      PROVE  Listing(InOrder[d][n], D[n])
  <2>1. PICK l, r : l = kid["left"][n] /\ r = kid["right"][n]
    OBVIOUS
  <2>2. /\ l \in Live \cup {nil} /\ r \in Live \cup {nil} /\ n \in Nodes /\ n # nil
        /\ n \notin D[l] /\ n \notin D[r]
    BY <2>1, <1>3, ShapeKids
  <2>3. /\ IsFiniteSet(D[l]) /\ IsFiniteSet(D[r]) /\ Cardinality(D[n]) \in Nat
        /\ Cardinality(D[l]) \in Nat /\ Cardinality(D[l]) < Cardinality(D[n])
        /\ Cardinality(D[r]) \in Nat /\ Cardinality(D[r]) < Cardinality(D[n])
    BY <2>1, <1>3, SpanSize
  <2>4. d # 0 /\ Cardinality(D[l]) <= d - 1 /\ Cardinality(D[r]) <= d - 1
    BY <2>3, <1>2, <1>6
  <2>5. Listing(InOrder[d - 1][l], D[l]) /\ Listing(InOrder[d - 1][r], D[r])
    BY <2>2, <2>4 DEF Walks
  <2>6. SpanAt(kid, D, n, "left") /\ SpanAt(kid, D, n, "right")
    BY <1>3 DEF Shape
  <2>7. D[n] = D[l] \cup {n} \cup D[r] /\ D[l] \cap D[r] = {}
    BY <2>6, <2>1, <1>3 DEF SpanAt
  <2>8. /\ \A m \in D[l] : Key(m) <= Key(n)
        /\ \A m \in D[r] : Key(n) <= Key(m)
    <3>1. SpanAt(kid, D, n, "left") => \A m \in D[l] : Keyed("left", m, n)
      BY <2>1 DEF SpanAt
    <3>2. SpanAt(kid, D, n, "right") => \A m \in D[r] : Keyed("right", m, n)
      BY <2>1 DEF SpanAt
    <3> QED
      BY <3>1, <3>2, <2>6 DEF Keyed
  <2>9. InOrder[d][n] = InOrder[d - 1][l] \o <<n>> \o InOrder[d - 1][r]
    BY <2>1, <2>2, <2>4, <1>3, InOrderIs
  <2>10. D[l] \subseteq Nodes /\ D[r] \subseteq Nodes
    BY <2>2, <1>3, <1>4
  <2>11. Listing(InOrder[d - 1][l] \o <<n>> \o InOrder[d - 1][r], D[l] \cup {n} \cup D[r])
    BY <2>2, <2>3, <2>5, <2>7, <2>8, <2>10, JoinedLists
  <2> QED
    BY <2>7, <2>9, <2>11
<1> QED
  BY <1>5, <1>6 DEF Walks

LEMMA WalkLists ==
  ASSUME TypeOK, NEW D, Shape(Live, root, kid, parent, D)
  PROVE  \A d \in Depths : Walks(D, d)
<1> DEFINE T == {d \in Depths : ~Walks(D, d)}
<1>1. SUFFICES ASSUME T # {} PROVE FALSE
  OBVIOUS
<1>2. PICK N \in Nat : N = Cardinality(Nodes)
  BY TreeAssumption, FS_CardinalityType
<1>3. T \subseteq Nat
  BY <1>2 DEF Depths
<1>4. PICK i \in T : \A j \in T : i <= j
  BY <1>1, <1>3, Smallest
<1>5. i \in Depths /\ ~Walks(D, i)
  BY <1>4
<1>6. ASSUME i # 0 PROVE Walks(D, i - 1)
  <2>1. PICK j \in Depths : j = i - 1
    BY <1>2, <1>5, <1>6 DEF Depths
  <2>2. j \notin T
    BY <2>1, <1>2, <1>4, <1>5 DEF Depths
  <2>3. Walks(D, j)
    BY <2>1, <2>2
  <2> QED
    BY <2>1, <2>3
<1> QED
  BY <1>5, <1>6, WalkStep

(* So the walk from the root is sorted and complete.                       *)
LEMMA TreeIsSorted ==
  ASSUME TypeOK, NEW D, Shape(Live, root, kid, parent, D)
  PROVE  Sorted
<1>1. PICK N \in Nat : N = Cardinality(Nodes)
  BY TreeAssumption, FS_CardinalityType
<1>2. Live \subseteq Nodes
  BY TypeFacts
<1>3. IsFiniteSet(Live) /\ Cardinality(Live) <= N
  BY <1>1, <1>2, TreeAssumption, FS_Subset
<1>4. D[root] = Live /\ root \in Live \cup {nil}
  BY DEF Shape, Links
<1>5. N \in Depths
  BY <1>1 DEF Depths
<1>6. Walks(D, N)
  BY <1>5, WalkLists
<1>7. PICK w : w = InOrder[N][root]
  OBVIOUS
<1>8. Listing(w, Live)
  BY <1>3, <1>4, <1>6, <1>7 DEF Walks
<1>9. /\ w \in Seq(Nodes) /\ Len(w) = Cardinality(Live)
      /\ \A i \in 1 .. Len(w) : w[i] \in Live
      /\ \A n \in Live : \E i \in 1 .. Len(w) : w[i] = n
      /\ \A i, j \in 1 .. Len(w) : i <= j => Key(w[i]) <= Key(w[j])
  BY <1>8 DEF Listing
<1>10. {w[i] : i \in 1 .. Len(w)} = Live
  BY <1>9
<1>11. PICK len \in Nat : len = Len(w)
  BY <1>9, LenProperties
<1>12. ASSUME NEW i \in 1 .. len - 1 PROVE Key(w[i]) <= Key(w[i + 1])
  <2>1. i \in 1 .. len /\ i + 1 \in 1 .. len /\ i <= i + 1
    BY <1>11
  <2>2. \A g, h \in 1 .. len : g <= h => Key(w[g]) <= Key(w[h])
    BY <1>9, <1>11
  <2> QED
    BY <2>1, <2>2
<1> QED
  BY <1>1, <1>7, <1>9, <1>10, <1>11, <1>12 DEF Sorted

(* The same for the black heights: a walk deep enough measures the height  *)
(* that the balance of the tree gives n.                                   *)
Measures(D, b, d) ==
  \A n \in Live \cup {nil} : Cardinality(D[n]) <= d => BlackHeight[d][n] = b[n]

LEMMA MeasureStep ==
  ASSUME TypeOK, NEW D, Shape(Live, root, kid, parent, D),
         NEW b, Even(Live, kid, color, b, HoleP, SideOf(x)), NEW d \in Depths,
         d # 0 => Measures(D, b, d - 1)
  PROVE  Measures(D, b, d)
<1>1. PICK N \in Nat : N = Cardinality(Nodes)
  BY TreeAssumption, FS_CardinalityType
<1>2. d \in 0 .. N
  BY <1>1 DEF Depths
<1>3. /\ Live \subseteq Nodes /\ Live \subseteq Cells /\ nil \in Cells /\ nil \notin Live
      /\ "left" \in Sides /\ "right" \in Sides /\ color[nil] = "BLACK"
  BY TypeFacts
<1>4. /\ b \in [Cells -> Nat \ {0}] /\ b[nil] = 1
      /\ \A n \in Live : \A s \in Sides :
           b[n] = b[kid[s][n]] + HoleAt(n, s, HoleP, SideOf(x)) + Blacks(color[n])
  BY DEF Even, Heights
<1>5. BlackHeight[d][nil] = b[nil]
  <2>1. BlackHeight[d][nil] = Weight(nil)
    BY <1>3, BlackHeightIs
  <2> QED
    BY <2>1, <1>3, <1>4 DEF Weight
<1>6. ASSUME NEW n \in Live, NEW s \in Sides
      PROVE  Extra(n, s) = HoleAt(n, s, HoleP, SideOf(x))
  BY <1>3, <1>6 DEF Extra, HoleAt, HoleP
<1>7. ASSUME NEW n \in Live, Cardinality(D[n]) <= d
      PROVE  BlackHeight[d][n] = b[n]
  <2>1. PICK l, r : l = kid["left"][n] /\ r = kid["right"][n]
    OBVIOUS
  <2>2. /\ l \in Live \cup {nil} /\ r \in Live \cup {nil} /\ n \in Nodes /\ n # nil
    BY <2>1, <1>3, ShapeKids
  <2>3. /\ Cardinality(D[n]) \in Nat
        /\ Cardinality(D[l]) \in Nat /\ Cardinality(D[l]) < Cardinality(D[n])
        /\ Cardinality(D[r]) \in Nat /\ Cardinality(D[r]) < Cardinality(D[n])
    BY <2>1, <1>3, SpanSize
  <2>4. d # 0 /\ Cardinality(D[l]) <= d - 1 /\ Cardinality(D[r]) <= d - 1
    BY <2>3, <1>2, <1>7
  <2>5. BlackHeight[d - 1][l] = b[l] /\ BlackHeight[d - 1][r] = b[r]
    BY <2>2, <2>4 DEF Measures
  <2>6. b[l] \in Nat \ {0} /\ b[r] \in Nat \ {0} /\ b[n] \in Nat
    BY <2>2, <1>3, <1>4
  <2>7. PICK el, er, w : el = Extra(n, "left") /\ er = Extra(n, "right") /\ w = Weight(n)
    OBVIOUS
  <2>8. el \in Nat /\ er \in Nat /\ w \in Nat
    BY <2>7 DEF Extra, Weight
  <2>9. b[n] = b[l] + el + w /\ b[n] = b[r] + er + w
    <3>1. w = Blacks(color[n])
      BY <2>7 DEF Weight, Blacks
    <3>2. el = HoleAt(n, "left", HoleP, SideOf(x)) /\ er = HoleAt(n, "right", HoleP, SideOf(x))
      BY <2>7, <1>3, <1>6
    <3> QED
      BY <3>1, <3>2, <2>1, <1>3, <1>4
  <2>10. BlackHeight[d][n] = IF b[l] + el = b[r] + er /\ b[l] + el > 0
                             THEN b[l] + el + w ELSE -1
    <3>1. n \in Cells /\ ~(n = nil \/ d = 0)
      BY <2>2, <2>4, <1>3
    <3>2. BlackHeight[d][n] =
            LET hl == BlackHeight[d - 1][kid["left"][n]] + Extra(n, "left")
                hr == BlackHeight[d - 1][kid["right"][n]] + Extra(n, "right")
            IN  IF hl = hr /\ hl > 0 THEN hl + Weight(n) ELSE -1
      BY <3>1, BlackHeightIs
    <3> QED
      BY <3>2, <2>1, <2>5, <2>7
  <2> QED
    BY <2>6, <2>8, <2>9, <2>10
<1> QED
  BY <1>5, <1>7 DEF Measures

LEMMA HeightIsMeasured ==
  ASSUME TypeOK, NEW D, Shape(Live, root, kid, parent, D),
         NEW b, Even(Live, kid, color, b, HoleP, SideOf(x))
  PROVE  \A d \in Depths : Measures(D, b, d)
<1> DEFINE T == {d \in Depths : ~Measures(D, b, d)}
<1>1. SUFFICES ASSUME T # {} PROVE FALSE
  OBVIOUS
<1>2. PICK N \in Nat : N = Cardinality(Nodes)
  BY TreeAssumption, FS_CardinalityType
<1>3. T \subseteq Nat
  BY <1>2 DEF Depths
<1>4. PICK i \in T : \A j \in T : i <= j
  BY <1>1, <1>3, Smallest
<1>5. i \in Depths /\ ~Measures(D, b, i)
  BY <1>4
<1>6. ASSUME i # 0 PROVE Measures(D, b, i - 1)
  <2>1. PICK j \in Depths : j = i - 1
    BY <1>2, <1>5, <1>6 DEF Depths
  <2>2. j \notin T
    BY <2>1, <1>2, <1>4, <1>5 DEF Depths
  <2>3. Measures(D, b, j)
    BY <2>1, <2>2
  <2> QED
    BY <2>1, <2>3
<1> QED
  BY <1>5, <1>6, MeasureStep

LEMMA TreeIsRedBlack ==
  ASSUME TypeOK, Coloured, NEW D, Shape(Live, root, kid, parent, D),
         NEW b, Even(Live, kid, color, b, HoleP, SideOf(x))
  PROVE  RedBlack
<1>1. PICK N \in Nat : N = Cardinality(Nodes)
  BY TreeAssumption, FS_CardinalityType
<1>2. Live \subseteq Nodes
  BY TypeFacts
<1>3. IsFiniteSet(Live) /\ Cardinality(Live) <= N
  BY <1>1, <1>2, TreeAssumption, FS_Subset
<1>4. D[root] = Live /\ root \in Live \cup {nil} /\ root \in Cells
  BY DEF Shape, Links
<1>5. N \in Depths
  BY <1>1 DEF Depths
<1>6. Measures(D, b, N)
  BY <1>5, HeightIsMeasured
<1>7. BlackHeight[N][root] = b[root]
  BY <1>3, <1>4, <1>6 DEF Measures
<1>8. b[root] \in Nat
  BY <1>4 DEF Even, Heights
<1>9. BlackHeight[Cardinality(Nodes)][root] # -1
  BY <1>1, <1>7, <1>8
<1> QED
  BY <1>9 DEF RedBlack, Coloured, Passes

(* The pointers agree, with the side on which a node hangs.                *)
LEMMA TreeIsLinked ==
  ASSUME NEW D, Shape(Live, root, kid, parent, D)
  PROVE  Linked
<1>1. ASSUME NEW n \in Live
      PROVE  IF parent[n] = nil THEN root = n
             ELSE parent[n] \in Live /\ kid[SideOf(n)][parent[n]] = n
  BY LinkFacts
<1>2. /\ \A n \in Live : \A s \in Sides :
           kid[s][n] # nil => kid[s][n] \in Live /\ parent[kid[s][n]] = n
      /\ root # nil => root \in Live
  BY DEF Shape, Links
<1> QED
  BY <1>1, <1>2 DEF Linked

-----------------------------------------------------------------------------
(* In every step of rbtree_insert, rbtree_delete and their repair loops,   *)
(* for any number of nodes and any keys, equal ones included: the child    *)
(* and parent pointers agree and lead to no freed node, the walk of        *)
(* rbtree_inorder meets every node once in the order of the keys, and what *)
(* verify_rbtree_properties checks of the colours holds, but for the       *)
(* cursor of a repair.                                                     *)
THEOREM TreeStaysRedBlack == Spec => []IsRedBlackTree
<1>1. ASSUME TreeInv PROVE IsRedBlackTree
  <2>1. TypeOK /\ Coloured
    BY <1>1 DEF TreeInv
  <2>2. PICK D : Shape(Live, root, kid, parent, D)
    BY <1>1 DEF TreeInv
  <2>3. PICK b : Even(Live, kid, color, b, HoleP, SideOf(x))
    BY <1>1 DEF TreeInv
  <2> QED
    BY <2>1, <2>2, <2>3, TreeIsLinked, TreeIsSorted, TreeIsRedBlack DEF IsRedBlackTree
<1> QED
  BY <1>1, TreeInvAlways, PTL

(* When rbtree_search arrives at the sentinel, no node of the tree has the *)
(* key, although the rotations may have put equal keys on either side.     *)
THEOREM SearchMissesNothing == Spec => []SearchComplete
<1>1. ASSUME TreeInv PROVE SearchComplete
  <2>1. PICK D : Shape(Live, root, kid, parent, D) /\ Cursor(D)
    BY <1>1 DEF TreeInv
  <2>2. SUFFICES ASSUME at = "search", x = nil PROVE \A n \in content : Key(n) # Key(goal)
    BY DEF SearchComplete
  <2>3. Live = content /\ D[nil] = {} /\ SearchCursor(D)
    BY <2>1, <2>2 DEF Live, Shape, Cursor
  <2> QED
    BY <2>2, <2>3 DEF SearchCursor
<1> QED
  BY <1>1, TreeInvAlways, PTL

=============================================================================

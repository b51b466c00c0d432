------------------------------ MODULE MCRBTree ------------------------------
(***************************************************************************)
(* The red-black trees with nodes that are numbers, two of them with the    *)
(* same key.  FreeNodes nodes are inserted and deleted in every order.  A  *)
(* deletion repair that goes on above the first level needs a larger tree: *)
(* MaxNodes nodes are inserted in one of a few orders, and any MaxCuts of  *)
(* them deleted.                                                           *)
(***************************************************************************)
EXTENDS CppRBTree

CONSTANTS MaxNodes,   \* how many nodes there are
          FreeNodes,  \* how many of them the plan "free" uses
          MaxCuts     \* how many nodes the other plans delete

MCNodes  == 1 .. MaxNodes
MCKey(n) == IF n = 4 THEN 3 ELSE n

VARIABLE plan  \* what a behaviour does

(* The place of n in the order in which a plan inserts the nodes.          *)
Place ==
  [ascending  |-> [n \in Nodes |-> n],
   descending |-> [n \in Nodes |-> MaxNodes + 1 - n],
   inward     |-> [n \in Nodes |-> IF 2 * n <= MaxNodes THEN 2 * n - 1
                                   ELSE 2 * (MaxNodes + 1 - n)]]

MayInsert(n) ==
  IF plan = "free" THEN n <= FreeNodes
  ELSE content = {m \in Nodes : Place[plan][m] < Place[plan][n]}

(* A search may look for a key that is missing, and delete one that is not.*)
MaySearch(n) ==
  IF plan = "free" THEN n <= FreeNodes
  ELSE \/ Cardinality(content) > MaxNodes - MaxCuts
       \/ \A m \in content : Key(m) # Key(n)

MCInit == Init /\ CppInit /\ plan \in DOMAIN Place \cup {"free"}

MCNext == /\ \/ Step
             \/ \E n \in Nodes : MayInsert(n) /\ insert(n)
             \/ \E n \in Nodes : MaySearch(n) /\ search(n)
          /\ CppStep /\ UNCHANGED plan

MCSpec == MCInit /\ [][MCNext]_<<vars, cpp, plan>> /\ WF_vars(Step)

=============================================================================

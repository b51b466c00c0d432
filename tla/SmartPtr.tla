------------------------------ MODULE SmartPtr ------------------------------
(***************************************************************************)
(* smart_ptr of src/CodeIt/common/smart_ptr.h.  Callers order what they do *)
(* with one smart_ptr, as they must with std::shared_ptr; smart_ptrs to    *)
(* the same object are used by several threads in any order, so that the   *)
(* steps of a destructor interleave with those of other smart_ptrs.  A     *)
(* shared_count is named after the object it was made for.                 *)
(***************************************************************************)
EXTENDS Integers, FiniteSets

CONSTANTS Pointers, Objects, NoObject

ASSUME PtrAssumption == /\ NoObject \notin Objects
                        /\ IsFiniteSet(Pointers) /\ IsFiniteSet(Objects)

VARIABLES
  built,               \* the smart_ptrs that are constructed
  ptr_, shared_count_, \* their members; shared_count_ is stale beside a null ptr_
  count_,              \* the value of each shared_count
  counts,              \* the shared_counts that are allocated
  dying,               \* for each smart_ptr, the destructor that runs for it or
                       \* for the parameter of its operator=
  deleted,             \* how often each object was deleted
  given                \* the objects whose address was given to a smart_ptr

ptrvars == <<built, ptr_, shared_count_, count_, counts, dying, deleted, given>>

Alive == [at |-> "none", ptr |-> NoObject, cnt |-> NoObject]
Dying(o, c) == [at |-> "reduce", ptr |-> o, cnt |-> c]

PtrInit == /\ built = {} /\ given = {} /\ counts = {}
           /\ ptr_ = [p \in Pointers |-> NoObject]
           /\ shared_count_ = [p \in Pointers |-> NoObject]
           /\ count_ = [o \in Objects |-> 0]
           /\ dying = [p \in Pointers |-> Alive]
           /\ deleted = [o \in Objects |-> 0]

Usable(p) == p \in built /\ dying[p] = Alive
Unbuilt(p) == p \notin built /\ dying[p] = Alive

-----------------------------------------------------------------------------
(* smart_ptr(ptr), with the deletion by finally when there is no memory.   *)
construct(p, o) ==
  /\ Unbuilt(p) /\ o \notin given
  /\ given' = given \cup {o} /\ built' = built \cup {p}
  /\ ptr_' = [ptr_ EXCEPT ![p] = o] /\ shared_count_' = [shared_count_ EXCEPT ![p] = o]
  /\ counts' = counts \cup {o} /\ count_' = [count_ EXCEPT ![o] = 1]
  /\ UNCHANGED <<dying, deleted>>

construct_fails(p, o) ==
  /\ Unbuilt(p) /\ o \notin given
  /\ given' = given \cup {o} /\ deleted' = [deleted EXCEPT ![o] = @ + 1]
  /\ UNCHANGED <<built, ptr_, shared_count_, count_, counts, dying>>

construct_null(p) ==
  /\ Unbuilt(p) /\ built' = built \cup {p}
  /\ ptr_' = [ptr_ EXCEPT ![p] = NoObject]
  /\ UNCHANGED <<shared_count_, count_, counts, dying, deleted, given>>

(* The count that a smart_ptr copied from q must add to.                   *)
add_count(q) == count_' = IF ptr_[q] = NoObject THEN count_
                          ELSE [count_ EXCEPT ![shared_count_[q]] = @ + 1]

Shares(p, q) == shared_count_' = IF ptr_[q] = NoObject THEN shared_count_
                                 ELSE [shared_count_ EXCEPT ![p] = shared_count_[q]]

(* The copy constructors, and the casts, which copy q's pointer; a cast    *)
(* that fails gives what construct_null gives.                             *)
copy(p, q) ==
  /\ Unbuilt(p) /\ Usable(q) /\ built' = built \cup {p}
  /\ ptr_' = [ptr_ EXCEPT ![p] = ptr_[q]]
  /\ add_count(q) /\ Shares(p, q)
  /\ UNCHANGED <<counts, dying, deleted, given>>

(* Mutant: the source keeps its pointer.                                   *)
move_keeps(p, q) ==
  /\ Unbuilt(p) /\ Usable(q) /\ built' = built \cup {p}
  /\ ptr_' = [ptr_ EXCEPT ![p] = ptr_[q]] /\ Shares(p, q)
  /\ UNCHANGED <<count_, counts, dying, deleted, given>>

move(p, q) ==
  /\ Unbuilt(p) /\ Usable(q) /\ built' = built \cup {p}
  /\ ptr_' = [ptr_ EXCEPT ![p] = ptr_[q], ![q] = NoObject] /\ Shares(p, q)
  /\ UNCHANGED <<count_, counts, dying, deleted, given>>

(* p = q: the parameter is a copy of q, takes p's old members in the swap, *)
(* and is destroyed.                                                       *)
assign_copy(p, q) ==
  /\ Usable(p) /\ Usable(q)
  /\ ptr_' = [ptr_ EXCEPT ![p] = ptr_[q]]
  /\ add_count(q) /\ Shares(p, q)
  /\ dying' = [dying EXCEPT ![p] = Dying(ptr_[p], shared_count_[p])]
  /\ UNCHANGED <<built, counts, deleted, given>>

(* p = std::move(q), q being p included: then the old members of p that    *)
(* the parameter gets are the null pointer the move left there.            *)
assign_move(p, q) ==
  /\ Usable(p) /\ Usable(q)
  /\ LET left == [ptr_ EXCEPT ![q] = NoObject] IN
       /\ ptr_' = [left EXCEPT ![p] = ptr_[q]]
       /\ dying' = [dying EXCEPT ![p] = Dying(left[p], shared_count_[p])]
  /\ Shares(p, q)
  /\ UNCHANGED <<built, count_, counts, deleted, given>>

swap(p, q) ==
  /\ Usable(p) /\ Usable(q) /\ p # q
  /\ ptr_' = [ptr_ EXCEPT ![p] = ptr_[q], ![q] = ptr_[p]]
  /\ shared_count_' = [shared_count_ EXCEPT ![p] = shared_count_[q], ![q] = shared_count_[p]]
  /\ UNCHANGED <<built, count_, counts, dying, deleted, given>>

(* ~smart_ptr: the count is reduced, then the last one deletes.            *)
destroy(p) ==
  /\ Usable(p) /\ built' = built \ {p}
  /\ dying' = [dying EXCEPT ![p] = Dying(ptr_[p], shared_count_[p])]
  /\ ptr_' = [ptr_ EXCEPT ![p] = NoObject]
  /\ UNCHANGED <<shared_count_, count_, counts, deleted, given>>

reduce_count(p) ==
  LET d == dying[p] IN
  /\ d.at = "reduce"
  /\ count_' = IF d.ptr = NoObject THEN count_ ELSE [count_ EXCEPT ![d.cnt] = @ - 1]
  /\ dying' = [dying EXCEPT ![p] = IF d.ptr # NoObject /\ count_[d.cnt] = 1
                                   THEN [d EXCEPT !.at = "delete"] ELSE Alive]
  /\ UNCHANGED <<built, ptr_, shared_count_, counts, deleted, given>>

last_deletes(p) ==
  LET d == dying[p] IN
  /\ d.at = "delete"
  /\ deleted' = [deleted EXCEPT ![d.ptr] = @ + 1] /\ counts' = counts \ {d.cnt}
  /\ dying' = [dying EXCEPT ![p] = Alive]
  /\ UNCHANGED <<built, ptr_, shared_count_, count_, given>>

PtrDies(p) == reduce_count(p) \/ last_deletes(p)

PtrNext ==
  \E p \in Pointers :
    \/ \E o \in Objects : construct(p, o) \/ construct_fails(p, o)
    \/ construct_null(p) \/ destroy(p) \/ PtrDies(p)
    \/ \E q \in Pointers : \/ copy(p, q) \/ move(p, q) \/ swap(p, q)
                           \/ assign_copy(p, q) \/ assign_move(p, q)

PtrSpec == PtrInit /\ [][PtrNext]_ptrvars

-----------------------------------------------------------------------------
(* The smart_ptrs and the destructors that still stand for an owner of o.  *)
PtrOwners(o) == {<<p, "ptr">> : p \in {q \in built : ptr_[q] = o}}
  \cup {<<p, "dying">> : p \in {q \in Pointers : dying[q].at = "reduce" /\ dying[q].ptr = o}}

(* use_count is the number of owners, through copies, moves, swaps and     *)
(* assignments, those of a smart_ptr to itself included.                   *)
CountIsOwners == \A o \in counts : count_[o] = Cardinality(PtrOwners(o))

(* No smart_ptr, and no destructor about to use it, has an object or a     *)
(* shared_count that was deleted, and an object is deleted with its count. *)
PtrNoDangling ==
  /\ \A p \in built : ptr_[p] # NoObject =>
       deleted[ptr_[p]] = 0 /\ shared_count_[p] = ptr_[p] /\ ptr_[p] \in counts
  /\ \A p \in Pointers : dying[p].at # "none" /\ dying[p].ptr # NoObject =>
       deleted[dying[p].ptr] = 0 /\ dying[p].cnt = dying[p].ptr /\ dying[p].ptr \in counts

(* An object that was given to a smart_ptr and has lost its last owner is  *)
(* deleted, once, when that owner's destructor is over.                    *)
PtrNoLeak ==
  \A o \in given : deleted[o] = IF PtrOwners(o) # {}
                                   \/ \E p \in Pointers : dying[p].at = "delete" /\ dying[p].ptr = o
                                THEN 0 ELSE 1

(* Whatever is copied, moved, swapped and assigned, the last owner deletes *)
(* the object, nobody else does, and nobody has it afterwards.             *)
LastOwnerDeletes == CountIsOwners /\ PtrNoDangling /\ PtrNoLeak

=============================================================================

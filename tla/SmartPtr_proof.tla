--------------------------- MODULE SmartPtr_proof ---------------------------
(***************************************************************************)
(* smart_ptr for any number of smart_ptrs and objects.  What a step does   *)
(* to the owners is told by one function from the places an owner can be   *)
(* at, a smart_ptr or the destructor that runs for it, to the object it    *)
(* owns: a constructor fills a place, a copy fills one with what another   *)
(* has, moves and assignments carry an owner from place to place, and the  *)
(* reduction of a count empties one.  PtrInv says of every shared_count    *)
(* that it is the number of places with its object, and that a count of    *)
(* zero has one destructor that is about to delete.                        *)
(***************************************************************************)
EXTENDS SmartPtr, FiniteSetTheorems, TLAPS

MaybeObjects == Objects \cup {NoObject}

Places == Pointers \X {"ptr", "dying"}
InPtr(p) == <<p, "ptr">>
InDying(p) == <<p, "dying">>

(* What each place owns.                                                   *)
OwnOf(b, pt, dy) ==
  [s \in Places |-> IF s[2] = "ptr" THEN IF s[1] \in b THEN pt[s[1]] ELSE NoObject
                    ELSE IF dy[s[1]].at = "reduce" THEN dy[s[1]].ptr ELSE NoObject]
Own == OwnOf(built, ptr_, dying)

(* The places with an object, for an assignment w of objects to places.    *)
Holders(w, o) == {s \in Places : w[s] = o}
HowMany(w, o) == Cardinality(Holders(w, o))

PtrTypeOK ==
  /\ built \subseteq Pointers /\ given \subseteq Objects /\ counts \subseteq given
  /\ ptr_ \in [Pointers -> MaybeObjects] /\ shared_count_ \in [Pointers -> MaybeObjects]
  /\ count_ \in [Objects -> Int] /\ deleted \in [Objects -> Int]
  /\ dying \in [Pointers -> [at : {"none", "reduce", "delete"},
                             ptr : MaybeObjects, cnt : MaybeObjects]]

(* A pointer that is not null comes with the shared_count of its object.   *)
Paired ==
  /\ \A p \in built : ptr_[p] # NoObject => shared_count_[p] = ptr_[p] /\ ptr_[p] \in counts
  /\ \A p \in Pointers : dying[p].at # "none" /\ dying[p].ptr # NoObject =>
       dying[p].cnt = dying[p].ptr /\ dying[p].ptr \in counts

Counted == \A o \in counts : count_[o] = HowMany(Own, o)

(* A count is zero exactly while one destructor is about to delete.        *)
OneDeletes ==
  /\ \A p \in Pointers : dying[p].at = "delete" =>
       /\ dying[p].ptr \in counts /\ count_[dying[p].ptr] = 0
       /\ \A q \in Pointers : dying[q].at = "delete" /\ dying[q].ptr = dying[p].ptr => q = p
  /\ \A o \in counts : count_[o] = 0 =>
       \E p \in Pointers : dying[p].at = "delete" /\ dying[p].ptr = o

DeletedOnce == \A o \in Objects : deleted[o] = IF o \in given \ counts THEN 1 ELSE 0

PtrInv == PtrTypeOK /\ Paired /\ Counted /\ OneDeletes /\ DeletedOnce

-----------------------------------------------------------------------------
(* The places of different smart_ptrs and kinds differ.                    *)
LEMMA PlaceFacts ==
  /\ \A p \in Pointers : InPtr(p) \in Places /\ InDying(p) \in Places
  /\ \A p, q \in Pointers : InPtr(p) # InDying(q)
  /\ \A p, q \in Pointers : InPtr(p) = InPtr(q) => p = q
  /\ \A p, q \in Pointers : InDying(p) = InDying(q) => p = q
  /\ \A s \in Places : \E p \in Pointers : s = InPtr(p) \/ s = InDying(p)
  BY DEF Places, InPtr, InDying

LEMMA OwnOfIs ==
  ASSUME NEW b, NEW pt, NEW dy
  PROVE  /\ OwnOf(b, pt, dy) = [s \in Places |-> OwnOf(b, pt, dy)[s]]
         /\ \A p \in Pointers : OwnOf(b, pt, dy)[InPtr(p)] = IF p \in b THEN pt[p] ELSE NoObject
         /\ \A p \in Pointers : OwnOf(b, pt, dy)[InDying(p)]
                                  = IF dy[p].at = "reduce" THEN dy[p].ptr ELSE NoObject
  BY DEF OwnOf, Places, InPtr, InDying

(* An assignment is known by what it gives to each place.                  *)
LEMMA SameAssignment ==
  ASSUME NEW v, NEW w, v = [s \in Places |-> v[s]], w = [s \in Places |-> w[s]],
         \A p \in Pointers : v[InPtr(p)] = w[InPtr(p)] /\ v[InDying(p)] = w[InDying(p)]
  PROVE  v = w
<1>1. \A s \in Places : v[s] = w[s]
  BY PlaceFacts, Zenon
<1> QED
  BY <1>1, Zenon

LEMMA PlacesFinite == IsFiniteSet(Places)
<1>1. IsFiniteSet({"ptr", "dying"})
  <2>1. IsFiniteSet({"ptr"})
    BY FS_Singleton
  <2>2. IsFiniteSet({"ptr"} \cup {"dying"})
    BY <2>1, FS_AddElement
  <2>3. {"ptr"} \cup {"dying"} = {"ptr", "dying"}
    OBVIOUS
  <2> QED BY <2>2, <2>3
<1> QED
  BY <1>1, PtrAssumption, FS_Product DEF Places

LEMMA HoldersFinite ==
  ASSUME NEW w, NEW o
  PROVE  /\ IsFiniteSet(Holders(w, o)) /\ HowMany(w, o) \in Nat
         /\ HowMany(w, o) = 0 <=> Holders(w, o) = {}
<1>1. Holders(w, o) \subseteq Places
  BY DEF Holders
<1>2. IsFiniteSet(Holders(w, o))
  BY <1>1, PlacesFinite, FS_Subset
<1> QED
  BY <1>2, FS_CardinalityType, FS_EmptySet DEF HowMany

LEMMA SetCounts ==
  ASSUME NEW S, IsFiniteSet(S), NEW x
  PROVE  /\ x \notin S => Cardinality(S \cup {x}) = Cardinality(S) + 1
         /\ x \in S => Cardinality(S \ {x}) = Cardinality(S) - 1
  BY FS_AddElement, FS_RemoveElement, Zenon

(* A place that had nothing gets an object.                                *)
LEMMA Fill ==
  ASSUME NEW w, NEW v, NEW x \in Places, NEW a \in Objects, w[x] = NoObject,
         \A s \in Places : v[s] = IF s = x THEN a ELSE w[s]
  PROVE  \A o \in Objects : HowMany(v, o) = HowMany(w, o) + IF o = a THEN 1 ELSE 0
<1> SUFFICES ASSUME NEW o \in Objects
             PROVE  HowMany(v, o) = HowMany(w, o) + IF o = a THEN 1 ELSE 0
  OBVIOUS
<1>1. CASE o = a
  <2>1. Holders(v, o) = Holders(w, o) \cup {x} /\ x \notin Holders(w, o)
    BY <1>1, PtrAssumption DEF Holders
  <2> QED BY <1>1, <2>1, HoldersFinite, SetCounts DEF HowMany
<1>2. CASE o # a
  <2>1. Holders(v, o) = Holders(w, o)
    BY <1>2, PtrAssumption DEF Holders
  <2> QED BY <1>2, <2>1, HoldersFinite DEF HowMany
<1> QED
  BY <1>1, <1>2

(* A place gives its object up.                                            *)
LEMMA Empty ==
  ASSUME NEW w, NEW v, NEW x \in Places, NEW a \in Objects, w[x] = a,
         \A s \in Places : v[s] = IF s = x THEN NoObject ELSE w[s]
  PROVE  \A o \in Objects : HowMany(v, o) = HowMany(w, o) - IF o = a THEN 1 ELSE 0
<1> SUFFICES ASSUME NEW o \in Objects
             PROVE  HowMany(v, o) = HowMany(w, o) - IF o = a THEN 1 ELSE 0
  OBVIOUS
<1>1. CASE o = a
  <2>1. Holders(v, o) = Holders(w, o) \ {x} /\ x \in Holders(w, o)
    BY <1>1, PtrAssumption DEF Holders
  <2> QED BY <1>1, <2>1, HoldersFinite, SetCounts DEF HowMany
<1>2. CASE o # a
  <2>1. Holders(v, o) = Holders(w, o)
    BY <1>2, PtrAssumption DEF Holders
  <2> QED BY <1>2, <2>1, HoldersFinite DEF HowMany
<1> QED
  BY <1>1, <1>2

(* Two places exchange what they have; a move is an exchange with a place  *)
(* that has nothing.                                                       *)
Exchanged(v, w, x, y) ==
  \A s \in Places : v[s] = IF s = x THEN w[y] ELSE IF s = y THEN w[x] ELSE w[s]

LEMMA Exchange ==
  ASSUME NEW w, NEW v, NEW x \in Places, NEW y \in Places, Exchanged(v, w, x, y)
  PROVE  \A o \in Objects : HowMany(v, o) = HowMany(w, o)
<1> SUFFICES ASSUME NEW o \in Objects PROVE HowMany(v, o) = HowMany(w, o)
  OBVIOUS
<1> USE DEF Exchanged
<1>1. CASE w[x] = o <=> w[y] = o
  BY <1>1 DEF Holders, HowMany
<1>2. ASSUME NEW a \in Places, NEW b \in Places, w[a] = o, w[b] # o, v[a] # o, v[b] = o,
             \A s \in Places \ {a, b} : v[s] = w[s]
      PROVE  HowMany(v, o) = HowMany(w, o)
  <2>1. /\ Holders(v, o) = (Holders(w, o) \ {a}) \cup {b}
        /\ a \in Holders(w, o) /\ b \notin Holders(w, o) \ {a}
    BY <1>2 DEF Holders
  <2>2. /\ IsFiniteSet(Holders(w, o) \ {a})
        /\ Cardinality(Holders(w, o) \ {a}) = Cardinality(Holders(w, o)) - 1
    BY <2>1, HoldersFinite, FS_RemoveElement
  <2>3. Cardinality(Holders(v, o)) = Cardinality(Holders(w, o) \ {a}) + 1
    BY <2>1, <2>2, SetCounts
  <2> QED BY <2>2, <2>3, HoldersFinite DEF HowMany
<1>3. CASE w[x] = o /\ w[y] # o
  BY <1>2, <1>3
<1>4. CASE w[x] # o /\ w[y] = o
  BY <1>2, <1>4
<1> QED
  BY <1>1, <1>3, <1>4

-----------------------------------------------------------------------------
(* What the places own now and after a step.                               *)
LEMMA OwnIs ==
  /\ \A p \in Pointers : Own[InPtr(p)] = IF p \in built THEN ptr_[p] ELSE NoObject
  /\ \A p \in Pointers : Own[InDying(p)] = IF dying[p].at = "reduce" THEN dying[p].ptr
                                           ELSE NoObject
  BY OwnOfIs DEF Own

LEMMA OwnWillBe ==
  /\ \A p \in Pointers : Own'[InPtr(p)] = IF p \in built' THEN ptr_'[p] ELSE NoObject
  /\ \A p \in Pointers : Own'[InDying(p)] = IF dying'[p].at = "reduce" THEN dying'[p].ptr
                                            ELSE NoObject
  BY OwnOfIs DEF Own

(* What a place owns has a count that is not zero, so nobody deletes it.   *)
LEMMA OwnedLive ==
  ASSUME PtrInv, NEW s \in Places, Own[s] # NoObject
  PROVE  /\ Own[s] \in counts /\ count_[Own[s]] \in Nat \ {0}
         /\ \A p \in Pointers : dying[p].at = "delete" => dying[p].ptr # Own[s]
<1>1. Own[s] \in counts
  BY PlaceFacts, OwnIs DEF PtrInv, Paired, PtrTypeOK
<1>2. s \in Holders(Own, Own[s])
  BY DEF Holders
<1>3. HowMany(Own, Own[s]) \in Nat \ {0}
  BY <1>2, HoldersFinite
<1> QED
  BY <1>1, <1>3 DEF PtrInv, Counted, OneDeletes

(* An object without a count has no owner.                                 *)
LEMMA UncountedFree ==
  ASSUME PtrInv, NEW o \in Objects, o \notin counts
  PROVE  HowMany(Own, o) = 0
<1>1. \A s \in Places : Own[s] # o
  BY OwnedLive, PtrAssumption
<1> QED
  BY <1>1, HoldersFinite DEF Holders

(* A step that leaves counts, destructors about to delete and the number   *)
(* of owners alone.                                                        *)
LEMMA CountsKept ==
  ASSUME PtrInv, counts' = counts, count_' = count_, deleted' = deleted, given' = given,
         \A o \in Objects : HowMany(Own', o) = HowMany(Own, o),
         \A p \in Pointers : /\ dying'[p].at = "delete" <=> dying[p].at = "delete"
                             /\ dying[p].at = "delete" => dying'[p] = dying[p]
  PROVE  Counted' /\ OneDeletes' /\ DeletedOnce'
<1>1. Counted'
  BY DEF PtrInv, PtrTypeOK, Counted
<1>2. OneDeletes'
  BY DEF PtrInv, OneDeletes
<1>3. DeletedOnce'
  BY DEF PtrInv, DeletedOnce
<1> QED
  BY <1>1, <1>2, <1>3

LEMMA PtrInitInv == PtrInit => PtrInv
<1> SUFFICES ASSUME PtrInit PROVE PtrInv
  OBVIOUS
<1>1. PtrTypeOK
  BY DEF PtrInit, PtrTypeOK, Alive, MaybeObjects
<1>2. Paired /\ Counted /\ OneDeletes /\ DeletedOnce
  BY DEF PtrInit, Paired, Counted, OneDeletes, DeletedOnce, Alive
<1> QED
  BY <1>1, <1>2 DEF PtrInv

LEMMA Construct ==
  ASSUME PtrInv, NEW p \in Pointers, NEW a \in Objects, construct(p, a)
  PROVE  PtrInv'
<1>1. /\ p \notin built /\ dying[p] = Alive /\ a \notin given /\ a \notin counts
      /\ given' = given \cup {a} /\ built' = built \cup {p}
      /\ ptr_' = [ptr_ EXCEPT ![p] = a] /\ shared_count_' = [shared_count_ EXCEPT ![p] = a]
      /\ counts' = counts \cup {a} /\ count_' = [count_ EXCEPT ![a] = 1]
      /\ dying' = dying /\ deleted' = deleted
  BY DEF construct, Unbuilt, PtrInv, PtrTypeOK
<1>2. PtrTypeOK'
  BY <1>1 DEF PtrInv, PtrTypeOK, MaybeObjects
<1>3. Paired'
  BY <1>1 DEF PtrInv, PtrTypeOK, Paired
<1>4. Own[InPtr(p)] = NoObject /\ \A s \in Places : Own'[s] = IF s = InPtr(p) THEN a ELSE Own[s]
  BY <1>1, PlaceFacts, OwnIs, OwnWillBe DEF PtrInv, PtrTypeOK
<1>5. \A o \in Objects : HowMany(Own', o) = HowMany(Own, o) + IF o = a THEN 1 ELSE 0
  BY <1>4, PlaceFacts, Fill
<1>6. \A o \in counts' : count_'[o] = IF o = a THEN 1 ELSE count_[o]
  BY <1>1 DEF PtrInv, PtrTypeOK
<1>7. Counted'
  <2>1. HowMany(Own, a) = 0
    BY <1>1, UncountedFree
  <2>2. \A o \in counts' : o \in Objects /\ (o # a => o \in counts)
    BY <1>1 DEF PtrInv, PtrTypeOK
  <2>3. \A o \in Objects : HowMany(Own, o) \in Nat
    BY HoldersFinite
  <2> QED BY <1>5, <1>6, <2>1, <2>2, <2>3 DEF PtrInv, Counted
<1>8. OneDeletes'
  BY <1>1, <1>6 DEF PtrInv, OneDeletes
<1>9. DeletedOnce'
  BY <1>1 DEF PtrInv, DeletedOnce
<1> QED
  BY <1>2, <1>3, <1>7, <1>8, <1>9 DEF PtrInv

LEMMA ConstructFails ==
  ASSUME PtrInv, NEW p \in Pointers, NEW a \in Objects, construct_fails(p, a)
  PROVE  PtrInv'
<1>1. /\ a \notin given /\ a \notin counts /\ given' = given \cup {a}
      /\ deleted' = [deleted EXCEPT ![a] = @ + 1]
      /\ UNCHANGED <<built, ptr_, shared_count_, count_, counts, dying>>
  BY DEF construct_fails, PtrInv, PtrTypeOK
<1>2. PtrTypeOK' /\ Paired' /\ OneDeletes'
  BY <1>1 DEF PtrInv, PtrTypeOK, Paired, OneDeletes
<1>3. Own' = Own
  BY <1>1 DEF Own
<1>4. Counted'
  BY <1>1, <1>3 DEF PtrInv, Counted
<1>5. DeletedOnce'
  BY <1>1 DEF PtrInv, PtrTypeOK, DeletedOnce
<1> QED
  BY <1>2, <1>4, <1>5 DEF PtrInv

LEMMA ConstructNull ==
  ASSUME PtrInv, NEW p \in Pointers, construct_null(p)
  PROVE  PtrInv'
<1>1. /\ p \notin built /\ built' = built \cup {p} /\ ptr_' = [ptr_ EXCEPT ![p] = NoObject]
      /\ UNCHANGED <<shared_count_, count_, counts, dying, deleted, given>>
  BY DEF construct_null, Unbuilt
<1>2. PtrTypeOK' /\ Paired'
  BY <1>1 DEF PtrInv, PtrTypeOK, Paired, MaybeObjects
<1>3. \A s \in Places : Own'[s] = Own[s]
  BY <1>1, PlaceFacts, OwnIs, OwnWillBe DEF PtrInv, PtrTypeOK
<1>4. \A o \in Objects : HowMany(Own', o) = HowMany(Own, o)
  BY <1>3 DEF HowMany, Holders
<1> QED
  BY <1>1, <1>2, <1>4, CountsKept DEF PtrInv

(* A step that adds one owner to an object that has one.                   *)
LEMMA OwnerAdded ==
  ASSUME PtrInv, counts' = counts, deleted' = deleted, given' = given,
         NEW a \in counts, count_[a] # 0, count_' = [count_ EXCEPT ![a] = @ + 1],
         \A o \in Objects : HowMany(Own', o) = HowMany(Own, o) + IF o = a THEN 1 ELSE 0,
         \A p \in Pointers : /\ dying'[p].at = "delete" <=> dying[p].at = "delete"
                             /\ dying[p].at = "delete" => dying'[p] = dying[p]
  PROVE  Counted' /\ OneDeletes' /\ DeletedOnce'
<1>1. /\ counts \subseteq Objects
      /\ \A o \in counts : count_'[o] = IF o = a THEN count_[o] + 1 ELSE count_[o]
      /\ \A o \in counts : count_[o] \in Nat /\ count_[o] = HowMany(Own, o)
  BY HoldersFinite DEF PtrInv, PtrTypeOK, Counted
<1>2. Counted'
  BY <1>1 DEF Counted
<1>3. \A o \in counts : count_'[o] = 0 <=> count_[o] = 0
  BY <1>1
<1>4. OneDeletes'
  BY <1>3 DEF PtrInv, OneDeletes
<1>5. DeletedOnce'
  BY DEF PtrInv, DeletedOnce
<1> QED
  BY <1>2, <1>4, <1>5

LEMMA CopyInv ==
  ASSUME PtrInv, NEW p \in Pointers, NEW q \in Pointers, copy(p, q)
  PROVE  PtrInv'
<1>1. /\ p \notin built /\ q \in built /\ built' = built \cup {p}
      /\ ptr_' = [ptr_ EXCEPT ![p] = ptr_[q]] /\ add_count(q) /\ Shares(p, q)
      /\ UNCHANGED <<counts, dying, deleted, given>>
  BY DEF copy, Unbuilt, Usable
<1>2. PICK a \in MaybeObjects : a = ptr_[q]
  BY DEF PtrInv, PtrTypeOK
<1>3. Own[InPtr(p)] = NoObject /\ Own[InPtr(q)] = a
      /\ \A s \in Places : Own'[s] = IF s = InPtr(p) THEN a ELSE Own[s]
  BY <1>1, <1>2, PlaceFacts, OwnIs, OwnWillBe DEF PtrInv, PtrTypeOK
<1>4. CASE a = NoObject
  <2>1. count_' = count_ /\ shared_count_' = shared_count_
    BY <1>1, <1>2, <1>4 DEF add_count, Shares
  <2>2. PtrTypeOK' /\ Paired'
    BY <1>1, <1>2, <1>4, <2>1 DEF PtrInv, PtrTypeOK, Paired
  <2>3. \A o \in Objects : HowMany(Own', o) = HowMany(Own, o)
    BY <1>3, <1>4 DEF HowMany, Holders
  <2> QED BY <1>1, <2>1, <2>2, <2>3, CountsKept DEF PtrInv
<1>5. CASE a # NoObject
  <2>1. a \in Objects /\ a \in counts /\ count_[a] # 0 /\ shared_count_[q] = a
    BY <1>1, <1>2, <1>3, <1>5, PlaceFacts, OwnedLive DEF PtrInv, Paired, MaybeObjects
  <2>2. /\ count_' = [count_ EXCEPT ![a] = @ + 1]
        /\ shared_count_' = [shared_count_ EXCEPT ![p] = a]
    BY <1>1, <1>2, <1>5, <2>1 DEF add_count, Shares
  <2>3. PtrTypeOK' /\ Paired'
    BY <1>1, <1>2, <2>1, <2>2 DEF PtrInv, PtrTypeOK, Paired
  <2>4. \A o \in Objects : HowMany(Own', o) = HowMany(Own, o) + IF o = a THEN 1 ELSE 0
    BY <1>3, <2>1, PlaceFacts, Fill
  <2> QED BY <1>1, <2>1, <2>2, <2>3, <2>4, OwnerAdded DEF PtrInv
<1> QED
  BY <1>4, <1>5

LEMMA MoveInv ==
  ASSUME PtrInv, NEW p \in Pointers, NEW q \in Pointers, move(p, q)
  PROVE  PtrInv'
<1>1. /\ p \notin built /\ q \in built /\ built' = built \cup {p} /\ p # q
      /\ ptr_' = [ptr_ EXCEPT ![p] = ptr_[q], ![q] = NoObject] /\ Shares(p, q)
      /\ UNCHANGED <<count_, counts, dying, deleted, given>>
  BY DEF move, Unbuilt, Usable
<1>2. PICK a \in MaybeObjects : a = ptr_[q]
  BY DEF PtrInv, PtrTypeOK
<1>3. \A r \in Pointers : ptr_'[r] = IF r = p THEN a ELSE IF r = q THEN NoObject ELSE ptr_[r]
  BY <1>1, <1>2 DEF PtrInv, PtrTypeOK
<1>4. PtrTypeOK'
  BY <1>1, <1>2 DEF PtrInv, PtrTypeOK, Shares, MaybeObjects
<1>5. Paired'
  BY <1>1, <1>2, <1>3 DEF PtrInv, PtrTypeOK, Paired, Shares
<1>6. Exchanged(Own', Own, InPtr(p), InPtr(q))
  BY <1>1, <1>2, <1>3, PlaceFacts, OwnIs, OwnWillBe DEF PtrInv, PtrTypeOK, Exchanged
<1>7. \A o \in Objects : HowMany(Own', o) = HowMany(Own, o)
  BY <1>6, PlaceFacts, Exchange
<1> QED
  BY <1>1, <1>4, <1>5, <1>7, CountsKept DEF PtrInv

LEMMA SwapInv ==
  ASSUME PtrInv, NEW p \in Pointers, NEW q \in Pointers, swap(p, q)
  PROVE  PtrInv'
<1>1. /\ p \in built /\ q \in built /\ p # q
      /\ ptr_' = [ptr_ EXCEPT ![p] = ptr_[q], ![q] = ptr_[p]]
      /\ shared_count_' = [shared_count_ EXCEPT ![p] = shared_count_[q],
                                                ![q] = shared_count_[p]]
      /\ UNCHANGED <<built, count_, counts, dying, deleted, given>>
  BY DEF swap, Usable
<1>2. /\ \A r \in Pointers : ptr_'[r] = IF r = p THEN ptr_[q] ELSE IF r = q THEN ptr_[p]
                                        ELSE ptr_[r]
      /\ \A r \in Pointers : shared_count_'[r] =
           IF r = p THEN shared_count_[q] ELSE IF r = q THEN shared_count_[p]
           ELSE shared_count_[r]
  BY <1>1 DEF PtrInv, PtrTypeOK
<1>3. PtrTypeOK'
  BY <1>1 DEF PtrInv, PtrTypeOK
<1>4. Paired'
  BY <1>1, <1>2 DEF PtrInv, PtrTypeOK, Paired
<1>5. Exchanged(Own', Own, InPtr(p), InPtr(q))
  BY <1>1, <1>2, PlaceFacts, OwnIs, OwnWillBe DEF PtrInv, PtrTypeOK, Exchanged
<1>6. \A o \in Objects : HowMany(Own', o) = HowMany(Own, o)
  BY <1>5, PlaceFacts, Exchange
<1> QED
  BY <1>1, <1>3, <1>4, <1>6, CountsKept DEF PtrInv

(* The destructor of p takes over what p owned.                            *)
LEMMA DestroyInv ==
  ASSUME PtrInv, NEW p \in Pointers, destroy(p)
  PROVE  PtrInv'
<1>1. /\ p \in built /\ dying[p] = Alive /\ built' = built \ {p}
      /\ dying' = [dying EXCEPT ![p] = Dying(ptr_[p], shared_count_[p])]
      /\ ptr_' = [ptr_ EXCEPT ![p] = NoObject]
      /\ UNCHANGED <<shared_count_, count_, counts, deleted, given>>
  BY DEF destroy, Usable
<1>2. /\ dying[p].at = "none" /\ dying'[p].at = "reduce"
      /\ dying'[p].ptr = ptr_[p] /\ dying'[p].cnt = shared_count_[p]
      /\ \A r \in Pointers \ {p} : dying'[r] = dying[r] /\ ptr_'[r] = ptr_[r]
  BY <1>1 DEF PtrInv, PtrTypeOK, Alive, Dying
<1>3. PtrTypeOK'
  BY <1>1 DEF PtrInv, PtrTypeOK, MaybeObjects, Dying
<1>4. Paired'
  BY <1>1, <1>2 DEF PtrInv, PtrTypeOK, Paired
<1>5. Exchanged(Own', Own, InPtr(p), InDying(p))
  BY <1>1, <1>2, PlaceFacts, OwnIs, OwnWillBe DEF PtrInv, PtrTypeOK, Exchanged
<1>6. \A o \in Objects : HowMany(Own', o) = HowMany(Own, o)
  BY <1>5, PlaceFacts, Exchange
<1>7. \A r \in Pointers : /\ dying'[r].at = "delete" <=> dying[r].at = "delete"
                          /\ dying[r].at = "delete" => dying'[r] = dying[r]
  BY <1>2
<1> QED
  BY <1>1, <1>3, <1>4, <1>6, <1>7, CountsKept DEF PtrInv

(* p = q: the old owner moves to the destructor of the parameter, and p    *)
(* becomes one more owner of what q has, p itself included.                *)
LEMMA AssignCopyInv ==
  ASSUME PtrInv, NEW p \in Pointers, NEW q \in Pointers, assign_copy(p, q)
  PROVE  PtrInv'
<1>1. /\ p \in built /\ q \in built /\ dying[p] = Alive
      /\ ptr_' = [ptr_ EXCEPT ![p] = ptr_[q]] /\ add_count(q) /\ Shares(p, q)
      /\ dying' = [dying EXCEPT ![p] = Dying(ptr_[p], shared_count_[p])]
      /\ UNCHANGED <<built, counts, deleted, given>>
  BY DEF assign_copy, Usable
<1>2. /\ dying[p].at = "none" /\ dying'[p].at = "reduce"
      /\ dying'[p].ptr = ptr_[p] /\ dying'[p].cnt = shared_count_[p]
      /\ \A r \in Pointers \ {p} : dying'[r] = dying[r] /\ ptr_'[r] = ptr_[r]
  BY <1>1 DEF PtrInv, PtrTypeOK, Alive, Dying
<1>3. \A r \in Pointers : /\ dying'[r].at = "delete" <=> dying[r].at = "delete"
                          /\ dying[r].at = "delete" => dying'[r] = dying[r]
  BY <1>2
<1>4. PICK a \in MaybeObjects : a = ptr_[q]
  BY DEF PtrInv, PtrTypeOK
<1> DEFINE w == [s \in Places |-> IF s = InPtr(p) THEN Own[InDying(p)]
                                  ELSE IF s = InDying(p) THEN Own[InPtr(p)] ELSE Own[s]]
<1>5. InPtr(p) \in Places /\ InDying(p) \in Places /\ InPtr(q) \in Places
  BY PlaceFacts
<1>6. \A o \in Objects : HowMany(w, o) = HowMany(Own, o)
  <2>1. Exchanged(w, Own, InPtr(p), InDying(p))
    BY DEF Exchanged
  <2> QED BY <1>5, <2>1, Exchange
<1>7. /\ w[InPtr(p)] = NoObject /\ Own[InPtr(q)] = a
      /\ \A s \in Places : Own'[s] = IF s = InPtr(p) THEN a ELSE w[s]
  BY <1>1, <1>2, <1>4, PlaceFacts, OwnIs, OwnWillBe DEF PtrInv, PtrTypeOK
<1> HIDE DEF w
<1>8. CASE a = NoObject
  <2>1. count_' = count_ /\ shared_count_' = shared_count_
    BY <1>1, <1>4, <1>8 DEF add_count, Shares
  <2>2. PtrTypeOK'
    BY <1>1, <1>4, <2>1 DEF PtrInv, PtrTypeOK, Dying
  <2>3. Paired'
    BY <1>1, <1>2, <1>4, <1>8, <2>1 DEF PtrInv, PtrTypeOK, Paired
  <2>4. \A s \in Places : Own'[s] = w[s]
    BY <1>7, <1>8
  <2>5. \A o \in Objects : HowMany(Own', o) = HowMany(w, o)
    BY <2>4 DEF HowMany, Holders
  <2> QED BY <1>1, <1>3, <1>6, <2>1, <2>2, <2>3, <2>5, CountsKept DEF PtrInv
<1>9. CASE a # NoObject
  <2>1. a \in Objects /\ a \in counts /\ count_[a] # 0 /\ shared_count_[q] = a
    BY <1>1, <1>4, <1>5, <1>7, <1>9, OwnedLive DEF PtrInv, Paired, MaybeObjects
  <2>2. /\ count_' = [count_ EXCEPT ![a] = @ + 1]
        /\ shared_count_' = [shared_count_ EXCEPT ![p] = a]
    BY <1>1, <1>4, <1>9, <2>1 DEF add_count, Shares
  <2>3. PtrTypeOK'
    BY <1>1, <1>4, <2>1, <2>2 DEF PtrInv, PtrTypeOK, Dying
  <2>4. Paired'
    BY <1>1, <1>2, <1>4, <2>1, <2>2 DEF PtrInv, PtrTypeOK, Paired
  <2>5. \A o \in Objects : HowMany(Own', o) = HowMany(Own, o) + IF o = a THEN 1 ELSE 0
    BY <1>5, <1>6, <1>7, <2>1, Fill
  <2> QED BY <1>1, <1>3, <2>1, <2>2, <2>3, <2>4, <2>5, OwnerAdded DEF PtrInv
<1> QED
  BY <1>8, <1>9

(* p = std::move(q): p's old owner moves to the destructor and q's to p; a *)
(* smart_ptr that is moved to itself keeps its object.                     *)
LEMMA AssignMoveInv ==
  ASSUME PtrInv, NEW p \in Pointers, NEW q \in Pointers, assign_move(p, q)
  PROVE  PtrInv'
<1>1. /\ p \in built /\ q \in built /\ dying[p] = Alive /\ Shares(p, q)
      /\ UNCHANGED <<built, count_, counts, deleted, given>>
  BY DEF assign_move, Usable
<1>2. PICK b \in MaybeObjects : b = IF p = q THEN NoObject ELSE ptr_[p]
  BY DEF PtrInv, PtrTypeOK, MaybeObjects
<1>3. /\ ptr_' \in [Pointers -> MaybeObjects]
      /\ \A r \in Pointers : ptr_'[r] = IF r = p THEN ptr_[q]
                                        ELSE IF r = q THEN NoObject ELSE ptr_[r]
      /\ dying' = [dying EXCEPT ![p] = Dying(b, shared_count_[p])]
  BY <1>2 DEF assign_move, PtrInv, PtrTypeOK, MaybeObjects
<1>4. /\ dying[p].at = "none" /\ dying'[p].at = "reduce"
      /\ dying'[p].ptr = b /\ dying'[p].cnt = shared_count_[p]
      /\ \A r \in Pointers \ {p} : dying'[r] = dying[r]
  BY <1>1, <1>3 DEF PtrInv, PtrTypeOK, Alive, Dying
<1>5. \A r \in Pointers : /\ dying'[r].at = "delete" <=> dying[r].at = "delete"
                          /\ dying[r].at = "delete" => dying'[r] = dying[r]
  BY <1>4
<1>6. PtrTypeOK'
  BY <1>1, <1>2, <1>3 DEF PtrInv, PtrTypeOK, Dying, Shares
<1>7. Paired'
  <2>1. \A r \in Pointers : shared_count_'[r] = IF r = p /\ ptr_[q] # NoObject
                                                THEN shared_count_[q] ELSE shared_count_[r]
    BY <1>1 DEF Shares, PtrInv, PtrTypeOK
  <2> QED BY <1>1, <1>2, <1>3, <1>4, <2>1 DEF PtrInv, PtrTypeOK, Paired
<1>8. InPtr(p) \in Places /\ InDying(p) \in Places /\ InPtr(q) \in Places
  BY PlaceFacts
<1>9. \A o \in Objects : HowMany(Own', o) = HowMany(Own, o)
  <2>1. CASE p = q
    <3>1. \A s \in Places : Own'[s] = Own[s]
      BY <1>1, <1>2, <1>3, <1>4, <2>1, PlaceFacts, OwnIs, OwnWillBe DEF PtrInv, PtrTypeOK
    <3> QED BY <3>1 DEF HowMany, Holders
  <2>2. CASE p # q
    <3> DEFINE w == [s \in Places |-> IF s = InPtr(p) THEN Own[InDying(p)]
                                      ELSE IF s = InDying(p) THEN Own[InPtr(p)] ELSE Own[s]]
    <3>1. \A o \in Objects : HowMany(w, o) = HowMany(Own, o)
      <4>1. Exchanged(w, Own, InPtr(p), InDying(p))
        BY DEF Exchanged
      <4> QED BY <1>8, <4>1, Exchange
    <3>2. /\ w[InPtr(p)] = NoObject /\ w[InPtr(q)] = ptr_[q]
          /\ \A s \in Places : Own'[s] = IF s = InPtr(p) THEN ptr_[q]
                                         ELSE IF s = InPtr(q) THEN NoObject ELSE w[s]
      BY <1>1, <1>2, <1>3, <1>4, <2>2, PlaceFacts, OwnIs, OwnWillBe DEF PtrInv, PtrTypeOK
    <3> HIDE DEF w
    <3>3. Exchanged(Own', w, InPtr(p), InPtr(q))
      BY <3>2, Zenon DEF Exchanged
    <3>4. \A o \in Objects : HowMany(Own', o) = HowMany(w, o)
      BY <1>8, <3>3, Exchange
    <3> QED BY <3>1, <3>4
  <2> QED BY <2>1, <2>2
<1> QED
  BY <1>1, <1>5, <1>6, <1>7, <1>9, CountsKept DEF PtrInv

(* reduce_count takes one owner away; the last one goes on to delete.      *)
LEMMA ReduceInv ==
  ASSUME PtrInv, NEW p \in Pointers, reduce_count(p)
  PROVE  PtrInv'
<1>1. dying[p].at = "reduce" /\ UNCHANGED <<built, ptr_, shared_count_, counts, deleted, given>>
  BY DEF reduce_count
<1>2. PICK a \in MaybeObjects : a = dying[p].ptr
  BY DEF PtrInv, PtrTypeOK
<1>3. CASE a = NoObject
  <2>1. count_' = count_ /\ dying' = [dying EXCEPT ![p] = Alive]
    BY <1>2, <1>3 DEF reduce_count
  <2>2. dying'[p].at = "none" /\ \A r \in Pointers \ {p} : dying'[r] = dying[r]
    BY <2>1 DEF PtrInv, PtrTypeOK, Alive
  <2>3. PtrTypeOK'
    BY <1>1, <2>1 DEF PtrInv, PtrTypeOK, Alive, MaybeObjects
  <2>4. Paired'
    BY <1>1, <2>2 DEF PtrInv, PtrTypeOK, Paired
  <2>5. \A s \in Places : Own'[s] = Own[s]
    <3>1. ASSUME NEW r \in Pointers PROVE Own'[InPtr(r)] = Own[InPtr(r)]
      BY <1>1, OwnIs, OwnWillBe
    <3>2. Own'[InDying(p)] = NoObject /\ Own[InDying(p)] = NoObject
      BY <1>1, <1>2, <1>3, <2>2, OwnIs, OwnWillBe
    <3>3. ASSUME NEW r \in Pointers \ {p} PROVE Own'[InDying(r)] = Own[InDying(r)]
      BY <2>2, OwnIs, OwnWillBe
    <3> QED BY <3>1, <3>2, <3>3, PlaceFacts
  <2>6. \A o \in Objects : HowMany(Own', o) = HowMany(Own, o)
    BY <2>5 DEF HowMany, Holders
  <2>7. \A r \in Pointers : /\ dying'[r].at = "delete" <=> dying[r].at = "delete"
                            /\ dying[r].at = "delete" => dying'[r] = dying[r]
    BY <1>1, <2>2
  <2> QED BY <1>1, <2>1, <2>3, <2>4, <2>6, <2>7, CountsKept DEF PtrInv
<1>4. CASE a # NoObject
  <2>1. /\ a \in counts /\ a \in Objects /\ dying[p].cnt = a
        /\ Own[InDying(p)] = a
    BY <1>1, <1>2, <1>4, OwnIs DEF PtrInv, Paired, MaybeObjects
  <2>2. /\ count_[a] \in Nat \ {0}
        /\ \A r \in Pointers : dying[r].at = "delete" => dying[r].ptr # a
    BY <1>4, <2>1, PlaceFacts, OwnedLive
  <2>3. PICK last \in BOOLEAN : last <=> count_[a] = 1
    OBVIOUS
  <2>4. /\ count_' = [count_ EXCEPT ![a] = @ - 1]
        /\ dying' = [dying EXCEPT ![p] = IF last THEN [dying[p] EXCEPT !.at = "delete"] ELSE Alive]
    BY <1>2, <1>4, <2>1, <2>3 DEF reduce_count
  <2>5. /\ dying'[p].at = IF last THEN "delete" ELSE "none"
        /\ last => dying'[p].ptr = a /\ dying'[p].cnt = a
        /\ dying'[p] \in [at : {"none", "reduce", "delete"}, ptr : MaybeObjects, cnt : MaybeObjects]
        /\ \A r \in Pointers \ {p} : dying'[r] = dying[r]
    <3>1. CASE last
      BY <1>2, <2>1, <2>4, <3>1 DEF PtrInv, PtrTypeOK
    <3>2. CASE ~last
      BY <2>4, <3>2 DEF PtrInv, PtrTypeOK, Alive, MaybeObjects
    <3> QED BY <3>1, <3>2
  <2>6. PtrTypeOK'
    <3>1. DOMAIN dying' = Pointers /\ dying' = [r \in Pointers |-> dying'[r]]
      BY <2>4 DEF PtrInv, PtrTypeOK
    <3>2. \A r \in Pointers :
            dying'[r] \in [at : {"none", "reduce", "delete"}, ptr : MaybeObjects, cnt : MaybeObjects]
      BY <2>5 DEF PtrInv, PtrTypeOK
    <3>3. dying' \in [Pointers -> [at : {"none", "reduce", "delete"},
                                   ptr : MaybeObjects, cnt : MaybeObjects]]
      BY <3>1, <3>2, Zenon
    <3>4. count_' \in [Objects -> Int]
      BY <2>1, <2>4 DEF PtrInv, PtrTypeOK
    <3> QED BY <1>1, <3>3, <3>4 DEF PtrInv, PtrTypeOK
  <2>7. Paired'
    BY <1>1, <2>1, <2>5 DEF PtrInv, Paired
  <2>8. \A s \in Places : Own'[s] = IF s = InDying(p) THEN NoObject ELSE Own[s]
    BY <1>1, <2>5, PlaceFacts, OwnIs, OwnWillBe
  <2>9. \A o \in Objects : HowMany(Own', o) = HowMany(Own, o) - IF o = a THEN 1 ELSE 0
    <3>1. PICK x \in Places : x = InDying(p)
      BY PlaceFacts
    <3>2. \A s \in Places : Own'[s] = IF s = x THEN NoObject ELSE Own[s]
      BY <2>8, <3>1
    <3> QED BY <2>1, <3>1, <3>2, Empty
  <2>10. /\ counts \subseteq Objects
         /\ \A o \in counts : count_'[o] = IF o = a THEN count_[o] - 1 ELSE count_[o]
         /\ \A o \in counts : count_[o] \in Nat /\ count_[o] = HowMany(Own, o)
    BY <2>4, HoldersFinite DEF PtrInv, PtrTypeOK, Counted
  <2>11. Counted'
    BY <1>1, <2>9, <2>10 DEF Counted
  <2>12. count_'[a] = 0 <=> last
    BY <2>1, <2>2, <2>3, <2>10
  <2>13. OneDeletes'
    <3>1. ASSUME NEW r \in Pointers, dying'[r].at = "delete"
          PROVE  /\ dying'[r].ptr \in counts /\ count_'[dying'[r].ptr] = 0
                 /\ \A q \in Pointers : dying'[q].at = "delete" /\ dying'[q].ptr = dying'[r].ptr => q = r
      <4>1. CASE r = p
        <5>1. last /\ dying'[r].ptr = a
          BY <2>5, <3>1, <4>1
        <5>2. \A q \in Pointers : dying'[q].at = "delete" /\ dying'[q].ptr = a => q = p
          BY <2>2, <2>5
        <5> QED BY <2>1, <2>12, <4>1, <5>1, <5>2
      <4>2. CASE r # p
        <5>1. dying'[r] = dying[r] /\ dying[r].ptr # a
          BY <2>2, <2>5, <3>1, <4>2
        <5>2. \A q \in Pointers : dying'[q].at = "delete" /\ dying'[q].ptr = dying[r].ptr
                => q # p /\ dying'[q] = dying[q]
          BY <2>5, <5>1
        <5> QED BY <2>10, <3>1, <5>1, <5>2 DEF PtrInv, OneDeletes
      <4> QED BY <4>1, <4>2
    <3>2. ASSUME NEW o \in counts, count_'[o] = 0
          PROVE  \E r \in Pointers : dying'[r].at = "delete" /\ dying'[r].ptr = o
      <4>1. CASE o = a
        BY <2>5, <2>12, <3>2, <4>1
      <4>2. CASE o # a
        <5>1. PICK r \in Pointers : dying[r].at = "delete" /\ dying[r].ptr = o
          BY <2>10, <3>2, <4>2 DEF PtrInv, OneDeletes
        <5> QED BY <1>1, <2>5, <5>1
      <4> QED BY <4>1, <4>2
    <3> QED BY <1>1, <3>1, <3>2 DEF OneDeletes
  <2>14. DeletedOnce'
    BY <1>1 DEF PtrInv, DeletedOnce
  <2> QED BY <2>6, <2>7, <2>11, <2>13, <2>14 DEF PtrInv
<1> QED
  BY <1>3, <1>4

(* The object and its shared_count go together; nobody owns them.          *)
LEMMA DeleteInv ==
  ASSUME PtrInv, NEW p \in Pointers, last_deletes(p)
  PROVE  PtrInv'
<1>1. dying[p].at = "delete" /\ UNCHANGED <<built, ptr_, shared_count_, count_, given>>
  BY DEF last_deletes
<1>2. PICK a \in counts : a = dying[p].ptr /\ count_[a] = 0
  BY <1>1 DEF PtrInv, OneDeletes
<1>3. a \in Objects /\ a # NoObject /\ dying[p].cnt = a
  BY <1>1, <1>2, PtrAssumption DEF PtrInv, PtrTypeOK, Paired
<1>4. /\ deleted' = [deleted EXCEPT ![a] = @ + 1] /\ counts' = counts \ {a}
      /\ dying' = [dying EXCEPT ![p] = Alive]
  BY <1>2, <1>3 DEF last_deletes
<1>5. dying'[p].at = "none" /\ \A r \in Pointers \ {p} : dying'[r] = dying[r]
  BY <1>4 DEF PtrInv, PtrTypeOK, Alive
<1>6. \A s \in Places : Own[s] # a
  BY <1>2, <1>3, OwnedLive
<1>7. PtrTypeOK'
  BY <1>1, <1>3, <1>4 DEF PtrInv, PtrTypeOK, Alive, MaybeObjects
<1>8. Paired'
  <2>1. ASSUME NEW q \in built, ptr_[q] # NoObject PROVE ptr_[q] # a
    BY <1>6, <2>1, PlaceFacts, OwnIs DEF PtrInv, PtrTypeOK
  <2>2. ASSUME NEW q \in Pointers \ {p}, dying[q].at # "none" PROVE dying[q].ptr # a
    <3>1. CASE dying[q].at = "reduce"
      BY <1>6, <3>1, PlaceFacts, OwnIs
    <3>2. CASE dying[q].at = "delete"
      BY <1>1, <1>2, <3>2 DEF PtrInv, OneDeletes
    <3> QED BY <2>2, <3>1, <3>2 DEF PtrInv, PtrTypeOK
  <2> QED BY <1>1, <1>4, <1>5, <2>1, <2>2 DEF PtrInv, Paired
<1>9. Counted'
  <2>1. \A s \in Places : Own'[s] = Own[s]
    BY <1>1, <1>5, PlaceFacts, OwnIs, OwnWillBe
  <2>2. \A o \in Objects : HowMany(Own', o) = HowMany(Own, o)
    BY <2>1 DEF HowMany, Holders
  <2> QED BY <1>1, <1>4, <2>2 DEF PtrInv, PtrTypeOK, Counted
<1>10. OneDeletes'
  BY <1>1, <1>2, <1>4, <1>5 DEF PtrInv, OneDeletes
<1>11. DeletedOnce'
  BY <1>1, <1>2, <1>3, <1>4 DEF PtrInv, PtrTypeOK, DeletedOnce
<1> QED
  BY <1>7, <1>8, <1>9, <1>10, <1>11 DEF PtrInv

LEMMA PtrNextInv ==
  ASSUME PtrInv, [PtrNext]_ptrvars
  PROVE  PtrInv'
<1>1. CASE UNCHANGED ptrvars
  <2>1. Own' = Own
    BY <1>1 DEF ptrvars, Own
  <2> QED BY <1>1, <2>1 DEF ptrvars, PtrInv, PtrTypeOK, Paired, Counted, OneDeletes, DeletedOnce
<1> QED
  BY <1>1, Construct, ConstructFails, ConstructNull, CopyInv, MoveInv, SwapInv, DestroyInv,
     AssignCopyInv, AssignMoveInv, ReduceInv, DeleteInv DEF PtrNext, PtrDies

LEMMA PtrInvariant == PtrSpec => []PtrInv
<1>1. PtrInit => PtrInv
  BY PtrInitInv
<1>2. PtrInv /\ [PtrNext]_ptrvars => PtrInv'
  BY PtrNextInv
<1> QED
  BY <1>1, <1>2, PTL DEF PtrSpec

(* The owners of the property are the places of the invariant.             *)
LEMMA OwnersAre ==
  ASSUME PtrInv, NEW o \in Objects
  PROVE  PtrOwners(o) = Holders(Own, o)
<1>1. \A s : s \in PtrOwners(o) <=> \E p \in Pointers :
        \/ s = InPtr(p) /\ p \in built /\ ptr_[p] = o
        \/ s = InDying(p) /\ dying[p].at = "reduce" /\ dying[p].ptr = o
  BY DEF PtrOwners, InPtr, InDying, PtrInv, PtrTypeOK
<1>2. \A s : s \in Holders(Own, o) <=> \E p \in Pointers :
        \/ s = InPtr(p) /\ Own[InPtr(p)] = o
        \/ s = InDying(p) /\ Own[InDying(p)] = o
  BY PlaceFacts DEF Holders
<1>3. \A s : s \in Holders(Own, o) <=> s \in PtrOwners(o)
  BY <1>1, <1>2, OwnIs, PtrAssumption
<1> QED
  BY <1>3

(* For any smart_ptrs that are copied, moved, swapped, assigned (to        *)
(* themselves too) and destroyed in any interleaving: use_count is the     *)
(* number of owners, no owner has a deleted object or shared_count, and    *)
(* each object is deleted exactly once, by its last owner.                 *)
THEOREM LastOwnerAlwaysDeletes == PtrSpec => []LastOwnerDeletes
<1>1. PtrInv => LastOwnerDeletes
  <2> SUFFICES ASSUME PtrInv PROVE LastOwnerDeletes
    OBVIOUS
  <2>1. \A o \in Objects : PtrOwners(o) = Holders(Own, o)
    BY OwnersAre
  <2>2. CountIsOwners
    BY <2>1 DEF CountIsOwners, PtrInv, PtrTypeOK, Counted, HowMany
  <2>3. PtrNoDangling
    BY DEF PtrNoDangling, PtrInv, PtrTypeOK, Paired, DeletedOnce
  <2>4. PtrNoLeak
    <3> SUFFICES ASSUME NEW o \in given
                 PROVE  o \in counts <=> \/ PtrOwners(o) # {}
                                         \/ \E p \in Pointers : dying[p].at = "delete" /\ dying[p].ptr = o
      BY DEF PtrNoLeak, PtrInv, PtrTypeOK, DeletedOnce
    <3>1. o \in Objects /\ (PtrOwners(o) = {} <=> HowMany(Own, o) = 0)
      BY <2>1, HoldersFinite DEF PtrInv, PtrTypeOK
    <3>2. CASE o \in counts
      BY <3>1, <3>2 DEF PtrInv, Counted, OneDeletes
    <3>3. CASE o \notin counts
      BY <3>1, <3>3, UncountedFree DEF PtrInv, OneDeletes
    <3> QED BY <3>2, <3>3
  <2> QED BY <2>2, <2>3, <2>4 DEF LastOwnerDeletes
<1> QED
  BY <1>1, PtrInvariant, PTL

=============================================================================

------------------------------ MODULE HashTable ------------------------------
(***************************************************************************)
(* One bucket of ThreadSafeHashTable of src/Books/                         *)
(* CPPCurrencyProgramming2th/xxx/ch5/design_5.cpp; the buckets share no    *)
(* state, and the keys here are those getBucketIndex sends to it.  A link  *)
(* is a node address with a mark bit.  The process dies when a thread      *)
(* follows a marked nullptr; a deleted node still shows what it held.      *)
(***************************************************************************)
EXTENDS Naturals, Sequences, FiniteSets

CONSTANTS
  TableThreads, Keys,
  Removers,          \* the threads that call remove (one in main)
  TableNodes, Null   \* addresses of nodes, and nullptr

ASSUME HtAssumption == /\ Null \notin TableNodes /\ IsFiniteSet(TableNodes)
                       /\ Removers \subseteq TableThreads

VARIABLES
  bucket,      \* head of the bucket: a link
  live,        \* nodes that are not deleted
  nkey, nnext, \* key and next of each node
  at,          \* each thread's call: its step, key, prev, current and next
  stored,      \* how often each key was inserted and not removed again
  apart        \* history: no remove has run beside another call yet

htvars == <<bucket, live, nkey, nnext, at, stored, apart>>

NoLink == [to |-> Null, marked |-> FALSE]
get_marked(l) == [l EXCEPT !.marked = TRUE]

NoCall == [pc |-> "none", key |-> Null, prev |-> Null, cur |-> NoLink, nxt |-> NoLink,
           was |-> FALSE]

HtInit == /\ bucket = NoLink /\ live = {}
          /\ nkey = [n \in TableNodes |-> Null] /\ nnext = [n \in TableNodes |-> NoLink]
          /\ at = [t \in TableThreads |-> NoCall]
          /\ stored = [k \in Keys |-> 0] /\ apart = TRUE

Sets(t, call) == at' = [at EXCEPT ![t] = call]
Returns(t) == Sets(t, NoCall)

Removing == {u \in TableThreads : at[u].pc \in {"seek", "mark", "unlink"}}

(* A call begins, whatever the other threads do; apart notes whether it    *)
(* runs beside a remove or is one that runs beside another call.           *)
Free(t) == at[t].pc = "none"
NotesReader == apart' = (apart /\ Removing = {})
NotesRemove == apart' = (apart /\ \A u \in TableThreads : Free(u))

-----------------------------------------------------------------------------
(* insert(key, value): the node is new, so that loading head into it is    *)
(* one step; an exchange that fails, and a weak one may, loads it again.   *)
insert_new(t, k) ==
  /\ Free(t) /\ NotesReader
  /\ \E n \in TableNodes \ live :
       /\ live' = live \cup {n}
       /\ nkey' = [nkey EXCEPT ![n] = k]
       /\ nnext' = [nnext EXCEPT ![n] = bucket]
       /\ Sets(t, [NoCall EXCEPT !.pc = "push", !.key = k, !.prev = n])
  /\ UNCHANGED <<bucket, stored>>

(* Mutant: head is overwritten, whatever was pushed since.                 *)
insert_push_blind(t) ==
  /\ at[t].pc = "push"
  /\ bucket' = [to |-> at[t].prev, marked |-> FALSE]
  /\ stored' = [stored EXCEPT ![at[t].key] = @ + 1]
  /\ Returns(t) /\ UNCHANGED <<live, nkey, nnext, apart>>

insert_push(t) ==
  /\ at[t].pc = "push" /\ bucket = nnext[at[t].prev]
  /\ bucket' = [to |-> at[t].prev, marked |-> FALSE]
  /\ stored' = [stored EXCEPT ![at[t].key] = @ + 1]
  /\ Returns(t) /\ UNCHANGED <<live, nkey, nnext, apart>>

insert_again(t) ==
  /\ at[t].pc = "push" /\ bucket # nnext[at[t].prev]
  /\ nnext' = [nnext EXCEPT ![at[t].prev] = bucket]
  /\ UNCHANGED <<bucket, live, nkey, at, stored, apart>>

-----------------------------------------------------------------------------
(* find(key, result).                                                      *)
find(t, k) ==
  /\ Free(t) /\ NotesReader
  /\ Sets(t, [NoCall EXCEPT !.pc = "walk", !.key = k, !.cur = bucket, !.was = stored[k] > 0])
  /\ UNCHANGED <<bucket, live, nkey, nnext, stored>>

find_step(t) ==
  LET l == at[t].cur  n == l.to IN
  /\ at[t].pc = "walk"
  /\ IF l = NoLink THEN Sets(t, [at[t] EXCEPT !.pc = "missed"])
     ELSE /\ n # Null
          /\ IF nkey[n] = at[t].key /\ ~l.marked
             THEN Sets(t, [at[t] EXCEPT !.pc = "found"])
             ELSE Sets(t, [at[t] EXCEPT !.cur = nnext[n]])
  /\ UNCHANGED <<bucket, live, nkey, nnext, stored, apart>>

find_returns(t) == /\ at[t].pc \in {"found", "missed"} /\ Returns(t)
                   /\ UNCHANGED <<bucket, live, nkey, nnext, stored, apart>>

-----------------------------------------------------------------------------
(* remove(key).                                                            *)
Seek(t, k) == Sets(t, [NoCall EXCEPT !.pc = "seek", !.key = k, !.cur = bucket])

remove(t, k) == /\ Free(t) /\ NotesRemove /\ Seek(t, k)
                /\ UNCHANGED <<bucket, live, nkey, nnext, stored>>

remove_step(t) ==
  LET n == at[t].cur.to IN
  /\ at[t].pc = "seek"
  /\ IF at[t].cur = NoLink THEN Returns(t)
     ELSE /\ n # Null
          /\ IF nkey[n] = at[t].key
             THEN Sets(t, [at[t] EXCEPT !.pc = "mark", !.nxt = nnext[n]])
             ELSE Sets(t, [at[t] EXCEPT !.prev = n, !.cur = nnext[n]])
  /\ UNCHANGED <<bucket, live, nkey, nnext, stored, apart>>

remove_mark(t) ==
  LET n == at[t].cur.to IN
  /\ at[t].pc = "mark" /\ nnext[n] = at[t].nxt
  /\ nnext' = [nnext EXCEPT ![n] = get_marked(at[t].nxt)]
  /\ Sets(t, [at[t] EXCEPT !.pc = "unlink"])
  /\ UNCHANGED <<bucket, live, nkey, stored, apart>>

(* The weak exchange may also fail for no reason.                          *)
remove_mark_fails(t) == /\ at[t].pc = "mark"
                        /\ Seek(t, at[t].key)
                        /\ UNCHANGED <<bucket, live, nkey, nnext, stored, apart>>

(* What current must still be: head, or next of the node before.           *)
Before(t) == IF at[t].prev = Null THEN bucket ELSE nnext[at[t].prev]

(* The node is unlinked and deleted at once: nobody meets it in between    *)
(* who has not its address already.  When current is not there any more,   *)
(* the search starts again.                                                *)
unlink(t, hit, to) ==
  /\ at[t].pc = "unlink"
  /\ bucket' = IF hit /\ at[t].prev = Null THEN to ELSE bucket
  /\ nnext' = IF hit /\ at[t].prev # Null THEN [nnext EXCEPT ![at[t].prev] = to] ELSE nnext
  /\ live' = IF hit THEN live \ {at[t].cur.to} ELSE live
  /\ stored' = IF hit THEN [stored EXCEPT ![at[t].key] = @ - 1] ELSE stored
  /\ IF hit THEN Returns(t) ELSE Seek(t, at[t].key)
  /\ UNCHANGED <<nkey, apart>>

(* Mutants: the marked link is put in place; head is overwritten, whatever *)
(* was pushed since.                                                       *)
remove_unlink_marked(t) == unlink(t, Before(t) = at[t].cur, nnext[at[t].cur.to])
remove_unlink_blind(t) == unlink(t, TRUE, at[t].nxt)

remove_unlink(t) == unlink(t, Before(t) = at[t].cur, at[t].nxt)

-----------------------------------------------------------------------------
HtReads(t) == (\E k \in Keys : find(t, k)) \/ find_step(t) \/ find_returns(t)
HtInserts(t) == (\E k \in Keys : insert_new(t, k)) \/ insert_push(t) \/ insert_again(t)
HtRemoves(t) == \/ \E k \in Keys : remove(t, k)
                \/ remove_step(t) \/ remove_mark(t) \/ remove_mark_fails(t)
                \/ remove_unlink(t)

(* A thread has come to a marked nullptr, which it takes for a node.       *)
table_crashes == /\ \E t \in TableThreads : /\ at[t].pc \in {"walk", "seek"}
                                           /\ at[t].cur = get_marked(NoLink)
                 /\ UNCHANGED htvars

HtNext == \/ \E t \in TableThreads : HtReads(t) \/ HtInserts(t)
          \/ \E t \in Removers : HtRemoves(t)
          \/ table_crashes

HtSpec == HtInit /\ [][HtNext]_htvars

-----------------------------------------------------------------------------
(* The links a walk from head follows, up to the first nullptr.            *)
Follow[i \in 1 .. Cardinality(TableNodes)] ==
  IF i = 1 THEN bucket
  ELSE IF Follow[i - 1].to = Null THEN NoLink ELSE nnext[Follow[i - 1].to]
Walk == {l \in {Follow[i] : i \in DOMAIN Follow} : l.to # Null}

(* As long as no remove has run beside another call, find never looks into *)
(* a deleted node or through a marked nullptr; it misses only a key that   *)
(* was not in the table when it was called, and finds only keys that were  *)
(* inserted and not removed again.                                         *)
HtFindCorrect ==
  apart => \A t \in TableThreads :
    /\ at[t].pc = "walk" /\ at[t].cur # NoLink => at[t].cur.to \in live
    /\ at[t].pc = "missed" => ~at[t].was
    /\ at[t].pc = "found" => stored[at[t].key] > 0

(* While nobody is in a call, find would find exactly the keys that were   *)
(* inserted more often than removed.                                       *)
HtKeepsKeys ==
  (\A t \in TableThreads : at[t].pc = "none") =>
    \A k \in Keys : stored[k] > 0 <=> \E l \in Walk : ~l.marked /\ nkey[l.to] = k

(* A node is deleted exactly when it has left the bucket, so that ~Bucket  *)
(* frees all the others.                                                   *)
HtNoLeak == live = {l.to : l \in Walk}
                   \cup {at[t].prev : t \in {u \in TableThreads : at[u].pc = "push"}}

(* remove never stands on a deleted node.                                  *)
HtNoDangling ==
  \A t \in Removing : {at[t].cur.to, at[t].prev} \subseteq live \cup {Null}

(* Every insert that returned, and no remove that did not, shows in the    *)
(* chain: it holds each key as often as it was inserted and not removed.   *)
HtCounts ==
  \A k \in Keys : stored[k] = Cardinality({n \in {l.to : l \in Walk} : nkey[n] = k})

(* With one thread that removes, and any number that insert and find       *)
(* beside it, no node is lost, deleted twice or used by remove after its   *)
(* deletion, and none takes another one out of the chain with it, though   *)
(* a failed exchange of head leaves marks behind.                          *)
HtNodesSound == HtNoLeak /\ HtNoDangling /\ HtCounts

=============================================================================

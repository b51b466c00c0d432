-------------------------------- MODULE Fifo --------------------------------
(***************************************************************************)
(* What the bounded queues of chapters 4 and 5 promise to the threads that *)
(* use them: a producer's next item joins the end of one queue of at most  *)
(* Bound items, and a consumer takes the item at its front.                *)
(***************************************************************************)
EXTENDS Naturals, Sequences

CONSTANTS Putters, Takers, Quota, Bound

VARIABLES queue,  \* the items in the queue, oldest first
          put,    \* how many items each producer has put
          taken   \* what each consumer has taken, in order

fifovars == <<queue, put, taken>>

Init == /\ queue = <<>>
        /\ put = [p \in Putters |-> 0]
        /\ taken = [c \in Takers |-> <<>>]

Put(p) == /\ put[p] < Quota /\ Len(queue) < Bound
          /\ put' = [put EXCEPT ![p] = @ + 1]
          /\ queue' = Append(queue, <<p, put[p] + 1>>)
          /\ UNCHANGED taken

Take(c) == /\ queue # <<>>
           /\ taken' = [taken EXCEPT ![c] = Append(@, Head(queue))]
           /\ queue' = Tail(queue)
           /\ UNCHANGED put

Next == (\E p \in Putters : Put(p)) \/ (\E c \in Takers : Take(c))

Spec == Init /\ [][Next]_fifovars

=============================================================================

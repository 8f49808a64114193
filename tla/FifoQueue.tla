----------------------------- MODULE FifoQueue ------------------------------
(* What a lock-free queue promises: one atomic step per successful call.    *)
EXTENDS Sequences

CONSTANTS Queues, Values

VARIABLES
    items,  \* what is in each queue
    out     \* what was taken from each queue so far

Init == items = [i \in Queues |-> <<>>] /\ out = [i \in Queues |-> <<>>]

Put(i) ==
    /\ \E v \in Values : items' = [items EXCEPT ![i] = Append(@, v)]
    /\ UNCHANGED out

Get(i) ==
    /\ items[i] # <<>>
    /\ items' = [items EXCEPT ![i] = Tail(@)]
    /\ out' = [out EXCEPT ![i] = Append(@, Head(items[i]))]

Next == \E i \in Queues : Put(i) \/ Get(i)

Spec == Init /\ [][Next]_<<items, out>>
=============================================================================

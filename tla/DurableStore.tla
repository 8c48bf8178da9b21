--------------------------- MODULE DurableStore ---------------------------
(***************************************************************************)
(* What a store of rows promises its writers as long as only the process   *)
(* stops: batches are applied whole and in the order of their arrival;     *)
(* what was answered stays; a batch that was not answered when the process *)
(* stopped may have been applied, with all that came before it.            *)
(***************************************************************************)
EXTENDS Integers, Sequences, FiniteSets, FiniteSetsExt

CONSTANTS Key, Batches

VARIABLES
    rows,    \* of every key the number of its last put, 0 if there is none
    stamp,   \* the number of the last entry
    pending  \* the batches that wait for an answer

vars == <<rows, stamp, pending>>

\* The number of entries of the first n batches.
Count(n) == Cardinality(UNION {{i} \X DOMAIN pending[i] : i \in 1..n})

\* The rows after the first n batches.
RowsAfter(n) ==
    [k \in Key |->
        LET in   == {i \in 1..n : k \in DOMAIN pending[i]}
            last == Max(in)
            b    == pending[last]
        IN  IF in = {} THEN rows[k]
            ELSE IF b[k]
            THEN stamp + Count(last - 1) + Cardinality({j \in DOMAIN b : j <= k})
            ELSE 0]

Init == rows = [k \in Key |-> 0] /\ stamp = 0 /\ pending = <<>>

Submit ==
    /\ \E b \in Batches : pending' = Append(pending, b)
    /\ UNCHANGED <<rows, stamp>>

Apply(n, rest) ==
    /\ pending' = rest
    /\ stamp' = stamp + Count(n)
    /\ rows' = RowsAfter(n)

Answer == \E n \in DOMAIN pending : Apply(n, SubSeq(pending, n + 1, Len(pending)))

Stop == \E n \in 0 .. Len(pending) : Apply(n, <<>>)

Next == Submit \/ Answer \/ Stop

Spec == Init /\ [][Next]_vars
=============================================================================

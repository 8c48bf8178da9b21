-------------------------- MODULE TransactionView --------------------------
(***************************************************************************)
(* What a transaction over a table of rows promises: an edit shows at      *)
(* once, a cursor steps from its entry to the first one after it in the    *)
(* rows as they are then, and a commit makes the rows the committed ones.  *)
(***************************************************************************)
EXTENDS Integers

CONSTANTS Key, Value

VARIABLES
    committed, \* the rows as of the last commit
    open,      \* is there a transaction?
    rows,      \* the rows as the transaction has made them
    cursor     \* an entry, or not valid

vars == <<committed, open, rows, cursor>>

NoKey   == -1
NoValue == "none"

Empty   == [k \in {} |-> NoValue]
Nowhere == [valid |-> FALSE, key |-> NoKey, value |-> NoValue]

\* A cursor at the first row of f at or after k.
At(f, k) ==
    IF \E j \in DOMAIN f : k <= j
    THEN LET first == CHOOSE j \in DOMAIN f :
                          k <= j /\ \A i \in DOMAIN f : k <= i => j <= i
         IN  [valid |-> TRUE, key |-> first, value |-> f[first]]
    ELSE Nowhere

Init == committed = Empty /\ open = FALSE /\ rows = Empty /\ cursor = Nowhere

Begin ==
    /\ ~open
    /\ open' = TRUE /\ rows' = committed /\ cursor' = Nowhere
    /\ UNCHANGED committed

NewCursor ==
    /\ open
    /\ cursor' = Nowhere
    /\ UNCHANGED <<committed, open, rows>>

Place(k) ==
    /\ open
    /\ cursor' = At(rows, k)
    /\ UNCHANGED <<committed, open, rows>>

Step ==
    /\ open /\ cursor.valid
    /\ cursor' = At(rows, cursor.key + 1)
    /\ UNCHANGED <<committed, open, rows>>

Write(k, v) ==
    /\ open
    /\ rows' = [j \in DOMAIN rows \cup {k} |-> IF j = k THEN v ELSE rows[j]]
    /\ UNCHANGED <<committed, open, cursor>>

Remove(k) ==
    /\ open
    /\ rows' = [j \in DOMAIN rows \ {k} |-> rows[j]]
    /\ UNCHANGED <<committed, open, cursor>>

Commit ==
    /\ open
    /\ committed' = rows /\ open' = FALSE
    /\ UNCHANGED <<rows, cursor>>

Next ==
    \/ Begin \/ NewCursor \/ Step \/ Commit
    \/ \E k \in Key : Place(k) \/ Remove(k)
    \/ \E k \in Key, v \in Value : Write(k, v)

Spec == Init /\ [][Next]_vars
=============================================================================

------------------------------ MODULE SkipList ------------------------------
(***************************************************************************)
(* The list a memtable of leveldb is made of (db/skiplist.h).  One thread  *)
(* inserts, under the lock of its caller; iterators read with no lock at   *)
(* all while it does.  A node is named by its key, keys are numbers, and   *)
(* the levels are counted from 0 as in the code.  The writer's two stores  *)
(* per level are separate steps, in the order of the release store that    *)
(* publishes a node; max_height_ is read without a barrier, so a reader    *)
(* may be given any value that was ever stored.  Readers change nothing    *)
(* another thread reads, so one iterator stands for all of them.           *)
(***************************************************************************)
EXTENDS Integers

CONSTANTS
  NumKeys,      \* the keys are 1..NumKeys
  MaxHeight     \* kMaxHeight

ASSUME SkipListAssumption ==
  /\ NumKeys \in Nat \ {0}
  /\ MaxHeight \in Nat \ {0}

VARIABLES
  next,         \* next[i][n]: the pointer next_[i] of node n
  heights,      \* the values max_height_ has had
  writer,       \* Insert: where it is
  iter          \* an iterator: where it is, and what its pass has met

listVars == <<next, heights, writer, iter>>

Key == 1..NumKeys
head_ == 0
Nil == NumKeys + 1            \* NULL
Garbage == NumKeys + 2        \* memory of the arena nobody has written yet
Node == {head_} \cup Key
Level == 0..(MaxHeight - 1)
Pointer == Node \cup {Nil, Garbage}

GetMaxHeight == CHOOSE h \in heights : \A g \in heights : g <= h

\* The nodes linked at level i.
OnLevel(i) == {k \in Key : \E n \in Node : next[i][n] = k}

----------------------------------------------------------------------------
(***************************************************************************)
(* The three searches.  s holds the loop's x and level, and the mode:      *)
(* "ge" for FindGreaterOrEqual, "lt" for FindLessThan, "last" for FindLast.*)
(***************************************************************************)
Idle == [pc |-> "idle", mode |-> "ge", key |-> 1, x |-> head_, level |-> 0]

Search(mode, key, height) ==
  [pc |-> "find", mode |-> mode, key |-> key, x |-> head_, level |-> height - 1]

\* NULL counts as infinite; FindLast goes on up to it.
KeyIsAfterNode(s, n) ==
  IF s.mode = "last" THEN n \in Key ELSE n < s.key

NextOf(s) == next[s.level][s.x]

Descends(s) == ~KeyIsAfterNode(s, NextOf(s)) /\ s.level > 0

\* Fault: the last level searched is level 1.
EndsEarly(s) == ~KeyIsAfterNode(s, NextOf(s)) /\ s.level <= 1

Ends(s) == ~KeyIsAfterNode(s, NextOf(s)) /\ s.level = 0

\* One turn of the loop that does not return.
FindStep(s) ==
  IF Descends(s) THEN [s EXCEPT !.level = @ - 1] ELSE [s EXCEPT !.x = NextOf(s)]

\* What the search returns: the node, or NULL where the code has head_.
Result(s) ==
  IF s.mode = "ge" THEN NextOf(s) ELSE IF s.x = head_ THEN Nil ELSE s.x

----------------------------------------------------------------------------
(* Insert *)

InsertStart(k) ==
  /\ writer.search.pc = "idle" /\ writer.height = 0
  /\ k \notin OnLevel(0)
  /\ writer' = [writer EXCEPT !.search = Search("ge", k, GetMaxHeight)]
  /\ UNCHANGED <<next, heights, iter>>

InsertFind ==
  LET s == writer.search IN
  /\ s.pc = "find" /\ ~Ends(s)
  /\ writer' = [writer EXCEPT
       !.search = FindStep(s),
       !.prev = IF Descends(s) THEN [@ EXCEPT ![s.level] = s.x] ELSE @]
  /\ UNCHANGED <<next, heights, iter>>

\* The search is over: a height is drawn, and the list made that high.
InsertHeight(h) ==
  /\ writer.search.pc = "find" /\ Ends(writer.search)
  /\ heights' = heights \cup (IF h > GetMaxHeight THEN {h} ELSE {})
  /\ writer' = [writer EXCEPT !.search = [@ EXCEPT !.pc = "idle"],
       !.height = h, !.level = 0, !.filled = FALSE,
       !.prev = [i \in Level |->
                   IF i = 0 THEN writer.search.x
                   ELSE IF i >= GetMaxHeight /\ i < h THEN head_ ELSE @[i]]]
  /\ UNCHANGED <<next, iter>>

Linking == writer.height > 0 /\ writer.level < writer.height
X == writer.search.key
Prev(i) == writer.prev[i]

\* Fault: x is published first, and given its successor afterwards.
PublishFirst ==
  LET i == writer.level IN
  /\ Linking /\ ~writer.filled
  /\ next' = [next EXCEPT ![i][Prev(i)] = X]
  /\ writer' = [writer EXCEPT !.filled = TRUE]
  /\ UNCHANGED <<heights, iter>>

\* x->NoBarrier_SetNext(i, prev[i]->NoBarrier_Next(i))
InsertFill ==
  LET i == writer.level IN
  /\ Linking /\ ~writer.filled
  /\ next' = [next EXCEPT ![i][X] = next[i][Prev(i)]]
  /\ writer' = [writer EXCEPT !.filled = TRUE]
  /\ UNCHANGED <<heights, iter>>

\* Where the loop over the levels goes on, or that it is done.
NextLevel ==
  [writer EXCEPT !.level = @ + 1, !.filled = FALSE,
                 !.height = IF writer.level + 1 = @ THEN 0 ELSE @]

\* prev[i]->SetNext(i, x)
InsertPublish ==
  LET i == writer.level IN
  /\ Linking /\ writer.filled
  /\ next' = [next EXCEPT ![i][Prev(i)] = X]
  /\ writer' = NextLevel
  /\ UNCHANGED <<heights, iter>>

----------------------------------------------------------------------------
(***************************************************************************)
(* The iterator.  pass.due are the keys a pass that began with a Seek or   *)
(* a SeekToFirst still has to meet: those linked when it began.            *)
(***************************************************************************)
NoPass == [on |-> FALSE, due |-> {}]

\* A node the iterator stands on, or not.
Valid == iter.search.pc = "idle" /\ iter.node \in Key

\* The pass goes on from the node just reached.
Meets(pass, n) == [pass EXCEPT !.due = @ \ {n}]

Seek(k) ==
  /\ iter.search.pc = "idle"
  /\ \E h \in heights : iter' = [search |-> Search("ge", k, h), node |-> Nil,
       pass |-> [on |-> TRUE, due |-> {j \in OnLevel(0) : j >= k}]]
  /\ UNCHANGED <<next, heights, writer>>

SeekToFirst ==
  /\ iter.search.pc = "idle"
  /\ iter' = [search |-> Idle, node |-> next[0][head_],
              pass |-> [on |-> TRUE, due |-> OnLevel(0) \ {next[0][head_]}]]
  /\ UNCHANGED <<next, heights, writer>>

SeekToLast ==
  /\ iter.search.pc = "idle"
  /\ \E h \in heights :
       iter' = [search |-> Search("last", 1, h), node |-> Nil, pass |-> NoPass]
  /\ UNCHANGED <<next, heights, writer>>

IterNext ==
  /\ Valid
  /\ iter' = [iter EXCEPT !.node = next[0][iter.node],
                          !.pass = Meets(@, next[0][iter.node])]
  /\ UNCHANGED <<next, heights, writer>>

IterPrev ==
  /\ Valid
  /\ \E h \in heights : iter' = [search |-> Search("lt", iter.node, h),
                                 node |-> Nil, pass |-> NoPass]
  /\ UNCHANGED <<next, heights, writer>>

IterFind ==
  /\ iter.search.pc = "find" /\ ~Ends(iter.search)
  /\ iter' = [iter EXCEPT !.search = FindStep(@)]
  /\ UNCHANGED <<next, heights, writer>>

IterFound ==
  LET s == iter.search IN
  /\ s.pc = "find" /\ Ends(s)
  /\ iter' = [search |-> Idle, node |-> Result(s), pass |-> Meets(iter.pass, Result(s))]
  /\ UNCHANGED <<next, heights, writer>>

----------------------------------------------------------------------------
ListInit ==
  /\ next = [i \in Level |-> [n \in Node |-> IF n = head_ THEN Nil ELSE Garbage]]
  /\ heights = {1}
  /\ writer = [search |-> Idle, prev |-> [i \in Level |-> head_],
               height |-> 0, level |-> 0, filled |-> FALSE]
  /\ iter = [search |-> Idle, node |-> Nil, pass |-> NoPass]

ListNext ==
  \/ \E k \in Key : InsertStart(k)
  \/ InsertFind
  \/ \E h \in 1..MaxHeight : InsertHeight(h)
  \/ InsertFill
  \/ InsertPublish
  \/ \E k \in Key : Seek(k)
  \/ SeekToFirst
  \/ SeekToLast
  \/ IterNext
  \/ IterPrev
  \/ IterFind
  \/ IterFound

ListSpec == ListInit /\ [][ListNext]_listVars

----------------------------------------------------------------------------
(* Properties *)

SearchState ==
  [pc : {"idle", "find"}, mode : {"ge", "lt", "last"}, key : Key,
   x : Node, level : Level]

(* The type invariant: what every variable holds. *)
ListTypeOK ==
  /\ next \in [Level -> [Node -> Pointer]]
  /\ heights \subseteq 1..MaxHeight /\ heights # {}
  /\ writer \in [search : SearchState, prev : [Level -> Node],
                 height : 0..MaxHeight, level : 0..MaxHeight, filled : BOOLEAN]
  /\ iter \in [search : SearchState, node : Key \cup {Nil},
               pass : [on : BOOLEAN, due : SUBSET Key]]

(* At every instant, also between two stores of Insert, each level is the  *)
(* sorted list of the nodes linked there, ends in NULL, and is part of the *)
(* level below: the levels are linked from the lowest up.                  *)
LevelsAreSublists ==
  \A i \in Level :
    LET linked == OnLevel(i) IN
    /\ i > 0 => linked \subseteq OnLevel(i - 1)
    /\ \A n \in linked \cup {head_} :
         /\ n < next[i][n]
         /\ next[i][n] \in linked \cup {Nil}
         /\ \A k \in linked : k <= n \/ next[i][n] <= k

(* A reader without a lock never follows a pointer nobody has written: at  *)
(* the level where a search stands, the node it stands on has its pointer. *)
ReadsInitialised ==
  \A s \in {iter.search, writer.search} : s.pc = "find" => NextOf(s) # Garbage

(* What a search that ends in this step returns: the first key at or after *)
(* the target, the last before it, or the last, or NULL for none.          *)
ReturnsExact ==
  LET s == iter.search
      r == iter'.node
      fits == CASE s.mode = "ge" -> {k \in OnLevel(0) : k >= s.key}
                [] s.mode = "lt" -> {k \in OnLevel(0) : k < s.key}
                [] s.mode = "last" -> OnLevel(0)
  IN s.pc = "find" /\ iter'.search.pc = "idle" =>
       IF fits = {} THEN r = Nil
       ELSE /\ r \in fits
            /\ \A k \in fits : IF s.mode = "ge" THEN r <= k ELSE k <= r

(* A search that overlaps any number of inserts, begun with whatever stale *)
(* height, returns what the list holds at the instant it returns.          *)
SearchIsExact == [][ReturnsExact]_listVars

(* A pass forward misses no key that was in the list when it began,        *)
(* however many are inserted before, at and behind the iterator.           *)
PassMissesNothing ==
  iter.pass.on /\ iter.search.pc = "idle" =>
    \A k \in iter.pass.due : iter.node < k /\ k \in OnLevel(0)

(* db/skiplist.h: at every instant, between any two stores of Insert, the  *)
(* list is a list on every level, a reader follows no pointer that was not *)
(* written, and a pass forward misses no key.                              *)
ListInv == ListTypeOK /\ LevelsAreSublists /\ ReadsInitialised /\ PassMissesNothing
=============================================================================

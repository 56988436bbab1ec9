-------------------------------- MODULE BTree --------------------------------
(***************************************************************************)
(* The B-tree of src/include/data/btree.h: btree<T> and btree_map<K, V>,   *)
(* the ordered map behind the large heap tier (heap.cpp: ptr_size), the   *)
(* method-argument window of a process (process.h) and the PCI BAR cache. *)
(*                                                                         *)
(* Nodes live in a store mem: NodeId -> node, a node being the C++ struct  *)
(* btree_node: the arrays data[2M-1] and children[2M] and size.  An       *)
(* element is its key (btree_map compares pairs by key only); the value   *)
(* T{} that the code writes into cleared slots is the key 0, and "new     *)
(* node()" value-initialises, so fresh slots hold 0 too.  Keys are drawn  *)
(* from Keys, a set of positive integers.  The code's M follows from the  *)
(* page size and sizeof(T) (85 for btree_map<uint64_t, uint64_t>); every  *)
(* loop is written for any M, so the model takes it as a constant.        *)
(*                                                                         *)
(* insert and remove are single steps: every caller runs on the boot CPU  *)
(* under its own lock.  Callers insert keys that are not in the map and   *)
(* remove keys that are (heap.cpp:519-527 finds the key first).           *)
(***************************************************************************)
EXTENDS Integers, Sequences, FiniteSets, SequencesExt, TLC

CONSTANTS
    M,          \* btree<T>::M, the minimum degree
    Keys,       \* the keys callers use, positive integers
    MaxNodes    \* bound: the node store

ASSUME M >= 2 /\ Keys \subseteq Nat \ {0} /\ MaxNodes \in Nat

NodeId == 1 .. MaxNodes
Null == 0
Empty == 0                      \* T{}: a cleared or never written slot
DataIdx == 0 .. 2 * M - 2
ChildIdx == 0 .. 2 * M - 1
Full == 2 * M - 1               \* node::max_data_count
Least == M - 1                  \* the fewest keys a non-root node keeps

VARIABLES
    mem,        \* the allocated nodes
    root,       \* m_root
    m_size,     \* m_size
    keys,       \* the keys callers hold in the map (history)
    fault       \* "none", or how the kernel stopped

vars == <<mem, root, m_size, keys, fault>>

NewNode == [data |-> [j \in DataIdx |-> Empty],
            children |-> [j \in ChildIdx |-> Null], size |-> 0]

\* new node(): the free id is the least one.
Fresh(h) == Min(NodeId \ DOMAIN h)

Leaf(X) == X.children[0] = Null

\* find_offset, and the break loops of remove_impl: the first offset whose
\* key is not below k.
Offset(X, k) == Min({o \in 0 .. X.size : o = X.size \/ ~(X.data[o] < k)})

\* The position insert_non_full's backward loop stops at.
Pos(X, k) == Min({p \in 0 .. X.size : \A t \in p .. X.size - 1 : X.data[t] > k})

\* Delete data[i] of X, moving the keys after it down one slot.
Drop(X, i) ==
    [X EXCEPT !.data = [t \in DataIdx |->
                          IF t >= i /\ t < X.size - 1 THEN X.data[t + 1]
                          ELSE IF t = X.size - 1 THEN Empty ELSE X.data[t]],
              !.size = @ - 1]

Hit(X, k) == {i \in 0 .. X.size - 1 : X.data[i] = k}

-----------------------------------------------------------------------------
(* Lookup and iteration                                                    *)

\* btree::find.
RECURSIVE FindFrom(_, _, _)
FindFrom(h, n, k) ==
    IF n = Null THEN FALSE
    ELSE LET X == h[n]
             off == Offset(X, k)
         IN  IF off < X.size /\ X.data[off] = k THEN TRUE
             ELSE FindFrom(h, X.children[off], k)

\* iter_impl: children[i], data[i] for i < size, then children[size].
RECURSIVE InOrder(_, _)
InOrder(h, n) ==
    IF n = Null THEN <<>>
    ELSE LET X == h[n]
             RECURSIVE Walk(_)
             Walk(i) == IF i = X.size THEN InOrder(h, X.children[i])
                        ELSE InOrder(h, X.children[i]) \o <<X.data[i]>> \o Walk(i + 1)
         IN  Walk(0)

-----------------------------------------------------------------------------
(* Insertion                                                               *)

\* split_child(x, i): the upper M-1 keys (and M children) of the full
\* child go to a new right node, the middle key to x.data[i].  x's
\* children after i move up one; its keys do not (the data loop is
\* commented out), so x.data[i] is overwritten and the slot x.size,
\* counted by size++, holds whatever it held.
SplitChild(h, x, i) ==
    LET X == h[x]
        l == X.children[i]
        L == h[l]
        r == Fresh(h)
        R == [NewNode EXCEPT
                !.size = Least,
                !.data = [j \in DataIdx |-> IF j < Least THEN L.data[j + M] ELSE Empty],
                !.children = IF Leaf(L) THEN NewNode.children
                             ELSE [j \in ChildIdx |-> IF j < M THEN L.children[j + M] ELSE Null]]
        L2 == [L EXCEPT
                !.size = Least,
                !.data = [j \in DataIdx |-> IF j >= Least THEN Empty ELSE L.data[j]],
                !.children = IF Leaf(L) THEN L.children
                             ELSE [j \in ChildIdx |-> IF j >= M THEN Null ELSE L.children[j]]]
        X2 == [X EXCEPT
                !.children = [j \in ChildIdx |->
                                IF j = i + 1 THEN r
                                ELSE IF i + 1 < j /\ j <= X.size + 1 THEN X.children[j - 1]
                                ELSE X.children[j]],
                !.data[i] = L.data[Least],
                !.size = @ + 1]
    IN  (r :> R) @@ [h EXCEPT ![l] = L2, ![x] = X2]

Ok(h, rt, res) == [h |-> h, root |-> rt, res |-> res, fault |-> "none"]
Crash(why) == [h |-> <<>>, root |-> Null, res |-> FALSE, fault |-> why]

\* insert_non_full(x, k), the set of outcomes it can have.  After a split
\* it compares k with x.data[i - 1]; for i = 0 that reads the element in
\* front of the node's data array, memory outside the node, so either
\* branch may be taken.  A null child is dereferenced: a page fault.
RECURSIVE InsertNonFull(_, _, _, _)
InsertNonFull(h, rt, x, k) ==
    LET X == h[x]
        i == Pos(X, k)
    IN  IF Leaf(X)
        THEN {Ok([h EXCEPT ![x] = [X EXCEPT
                 !.data = [t \in DataIdx |->
                             IF t < i THEN X.data[t]
                             ELSE IF t = i THEN k
                             ELSE IF t <= X.size THEN X.data[t - 1]
                             ELSE X.data[t]],
                 !.size = @ + 1]], rt, TRUE)}
        ELSE IF X.children[i] = Null THEN {Crash("null")}
        ELSE IF h[X.children[i]].size = Full
        THEN LET h2 == SplitChild(h, x, i)
                 right == IF i = 0 THEN BOOLEAN ELSE {h2[x].data[i - 1] < k}
             IN  UNION {InsertNonFull(h2, rt, h2[x].children[IF g THEN i + 1 ELSE i], k) : g \in right}
        ELSE InsertNonFull(h, rt, X.children[i], k)

\* btree::insert: a first root, or a new root over a full one, split.
InsertImpl(h, rt, k) ==
    LET n == Fresh(h)
    IN  IF rt = Null
        THEN {Ok((n :> [NewNode EXCEPT !.data[0] = k, !.size = 1]) @@ h, n, TRUE)}
        ELSE IF h[rt].size = Full
        THEN InsertNonFull(SplitChild((n :> [NewNode EXCEPT !.children[0] = rt]) @@ h, n, 0), n, n, k)
        ELSE InsertNonFull(h, rt, rt, k)

insert(k) ==
    \E r \in InsertImpl(mem, root, k) :
        IF r.fault # "none"
        THEN fault' = r.fault /\ UNCHANGED <<mem, root, m_size>>
        ELSE /\ mem' = r.h /\ root' = r.root /\ m_size' = m_size + 1
             /\ UNCHANGED fault

-----------------------------------------------------------------------------
(* Removal                                                                 *)

\* shift_key_to_sibling(p, k, shift_right).  Left (FALSE): the separator
\* data[k-1] goes down to the end of children[k-1], the first key of
\* children[k] up, with its first child.  Right (TRUE): the separator goes
\* to the front of children[k], the last key of children[k-1] up, with
\* its last child.
shift_key_to_sibling(h, p, k, shift_right) ==
    LET P == h[p]
        l == P.children[k - 1]
        r == P.children[k]
        L == h[l]
        R == h[r]
    IN  IF ~shift_right
        THEN LET L2 == [L EXCEPT !.data[L.size] = P.data[k - 1], !.size = @ + 1]
                 R2 == [Drop(R, 0) EXCEPT
                          !.children = IF Leaf(L) THEN R.children
                                       ELSE [t \in ChildIdx |->
                                               IF t < R.size - 1 THEN R.children[t + 1]
                                               ELSE IF t = R.size - 1 THEN Null
                                               ELSE R.children[t]]]
                 L3 == IF Leaf(L) THEN L2
                       ELSE [L2 EXCEPT !.children[L2.size] = R.children[0]]
             IN  [h EXCEPT ![p].data[k - 1] = R.data[0], ![l] = L3, ![r] = R2]
        ELSE LET R2 == [R EXCEPT
                          !.data = [t \in DataIdx |->
                                      IF t = 0 THEN P.data[k - 1]
                                      ELSE IF t <= R.size THEN R.data[t - 1]
                                      ELSE R.data[t]],
                          !.children = IF Leaf(L) THEN R.children
                                       ELSE [t \in ChildIdx |->
                                               IF t = 0 THEN L.children[L.size - 1]
                                               ELSE IF t <= R.size + 1 THEN R.children[t - 1]
                                               ELSE R.children[t]],
                          !.size = @ + 1]
                 L2 == [L EXCEPT !.data[L.size - 1] = Empty, !.size = @ - 1,
                                 !.children = IF Leaf(L) THEN @ ELSE [@ EXCEPT ![L.size - 1] = Null]]
             IN  [h EXCEPT ![p].data[k - 1] = L.data[L.size - 1], ![l] = L2, ![r] = R2]

\* merge_two_siblings(p, k): k is decremented first, then children[k]
\* takes the separator data[k] and all of children[k+1], which is deleted,
\* and p closes the gap.  The new size is 2M-1 whatever the two held.
merge_two_siblings(h, p, k0) ==
    LET k == k0 - 1
        P == h[p]
        p1 == P.children[k]
        p2 == P.children[k + 1]
        P1 == h[p1]
        P2 == h[p2]
        P1n == [P1 EXCEPT
                  !.data = [t \in DataIdx |->
                              IF t = Least THEN P.data[k]
                              ELSE IF t >= M THEN P2.data[t - M] ELSE P1.data[t]],
                  !.children = [t \in ChildIdx |->
                                  IF t >= M THEN P2.children[t - M] ELSE P1.children[t]],
                  !.size = Full]
        Pn == [P EXCEPT
                 !.data = [t \in DataIdx |->
                             IF t >= k /\ t < P.size - 1 THEN P.data[t + 1]
                             ELSE IF t = P.size - 1 THEN Empty ELSE P.data[t]],
                 !.children = [t \in ChildIdx |->
                                 IF t > k /\ t < P.size THEN P.children[t + 1]
                                 ELSE IF t = P.size THEN Null ELSE P.children[t]],
                 !.size = @ - 1]
    IN  [n \in DOMAIN h \ {p2} |-> IF n = p THEN Pn ELSE IF n = p1 THEN P1n ELSE h[n]]

\* remove_impl's merge of a root holding one key over two minimal children.
MergeRoot(h, p) ==
    LET P == h[p]
        P1 == h[P.children[0]]
        P2 == h[P.children[1]]
        Pn == [P EXCEPT
                 !.data = [t \in DataIdx |->
                             IF t = Least THEN P.data[0]
                             ELSE IF t < Least THEN P1.data[t] ELSE P2.data[t - M]],
                 !.children = [t \in ChildIdx |->
                                 IF t <= Least THEN P1.children[t] ELSE P2.children[t - M]],
                 !.size = Full]
    IN  [n \in DOMAIN h \ {P.children[0], P.children[1]} |-> IF n = p THEN Pn ELSE h[n]]

\* The while (true) loop of remove_impl from node p, with q the node
\* that held k on the way down (found).  A null child is dereferenced
\* (a page fault at 0); merge_two_siblings(p, 0) decrements k below 0.
RECURSIVE RemoveLoop(_, _, _, _, _, _), Descend(_, _, _, _, _, _)
RemoveLoop(h, rt, p, q, found, k) ==
    IF p = Null THEN Crash("null")
    ELSE
    LET P == h[p] IN
    IF Leaf(P)
    THEN IF Hit(P, k) # {}
         THEN Ok([h EXCEPT ![p] = Drop(P, Min(Hit(P, k)))], rt, TRUE)
         ELSE IF found /\ Hit(h[q], k) # {}
         THEN IF P.size = 0 THEN Crash("ub")
              ELSE Ok([h EXCEPT ![q].data[Min(Hit(h[q], k))] = P.data[P.size - 1],
                                ![p] = [P EXCEPT !.data[P.size - 1] = Empty, !.size = @ - 1]],
                      rt, TRUE)
         ELSE Ok(h, rt, FALSE)
    ELSE
    LET kk == Offset(P, k)
        nb == IF kk = P.size THEN kk - 1 ELSE kk + 1
        ch(j) == P.children[j]
    IN  IF nb < 0 THEN Crash("ub")
        ELSE IF ch(kk) = Null \/ ch(nb) = Null THEN Crash("null")
        ELSE IF h[ch(kk)].size # Least
        THEN Descend(h, rt, p, q, found, k)
        ELSE IF h[ch(nb)].size = Least
        THEN IF kk = P.size /\ nb = 0 THEN Crash("ub")
             ELSE IF kk = P.size /\ ch(nb - 1) = Null THEN Crash("null")
             ELSE Descend(merge_two_siblings(h, p, nb), rt, p, q, found, k)
        ELSE IF h[ch(nb)].size = 0 THEN Crash("ub")
        ELSE IF kk = P.size THEN Descend(shift_key_to_sibling(h, p, kk, TRUE), rt, p, q, found, k)
        ELSE Descend(shift_key_to_sibling(h, p, nb, FALSE), rt, p, q, found, k)

\* The end of an iteration: note p as q when it now holds k, and go down
\* to the child find_offset names.
Descend(h, rt, p, q, found, k) ==
    LET hit == Hit(h[p], k) # {}
    IN  RemoveLoop(h, rt, h[p].children[Offset(h[p], k)], IF hit THEN p ELSE q, found \/ hit, k)

\* remove_impl: a leaf root, a root with one key (merged with its two
\* children, or one child topped up before the descent), or the loop.
RemoveImpl(h, rt, k) ==
    LET P == h[rt]
        c0 == P.children[0]
        c1 == P.children[1]
    IN  IF rt = Null THEN Ok(h, rt, FALSE)
        ELSE IF Leaf(P)
        THEN IF Hit(P, k) = {} THEN Ok(h, rt, FALSE)
             ELSE IF P.size = 1 THEN Ok([n \in DOMAIN h \ {rt} |-> h[n]], Null, TRUE)
             ELSE Ok([h EXCEPT ![rt] = Drop(P, Min(Hit(P, k)))], rt, TRUE)
        ELSE IF P.size # 1 THEN RemoveLoop(h, rt, rt, Null, FALSE, k)
        ELSE IF c0 = Null \/ c1 = Null THEN Crash("null")
        ELSE IF h[c0].size = h[c1].size /\ h[c1].size = Least
        THEN RemoveLoop(MergeRoot(h, rt), rt, rt, Null, FALSE, k)
        ELSE LET left == k <= P.data[0]
                 donor == IF left THEN c1 ELSE c0
                 lend == h[IF left THEN c0 ELSE c1].size = Least
                 h2 == IF ~lend THEN h
                       ELSE shift_key_to_sibling(h, rt, 1, ~left)
                 hit == h2[rt].data[0] = k
             IN  IF lend /\ h[donor].size = 0 THEN Crash("ub")
                 ELSE RemoveLoop(h2, rt, h2[rt].children[IF left THEN 0 ELSE 1],
                                 IF hit THEN rt ELSE Null, hit, k)

\* btree::remove: m_size drops when remove_impl reports success.
remove(k) ==
    LET r == RemoveImpl(mem, root, k)
    IN  IF r.fault # "none"
        THEN fault' = r.fault /\ UNCHANGED <<mem, root, m_size>>
        ELSE /\ mem' = r.h /\ root' = r.root
             /\ m_size' = IF r.res THEN m_size - 1 ELSE m_size
             /\ UNCHANGED fault
-----------------------------------------------------------------------------
(* The callers                                                             *)

\* The levels below a node, along its first children.
RECURSIVE Height(_, _)
Height(h, n) == IF n = Null THEN 0 ELSE 1 + Height(h, h[n].children[0])

Init ==
    /\ mem = <<>> /\ root = Null /\ m_size = 0 /\ keys = {} /\ fault = "none"

\* A caller inserts a key it does not hold; insert takes at most one new
\* node per level and one for a new root.
InsertKey(k) ==
    /\ fault = "none" /\ k \notin keys
    /\ Cardinality(DOMAIN mem) + Height(mem, root) + 1 <= MaxNodes
    /\ insert(k)
    /\ keys' = keys \cup {k}
    /\ UNCHANGED fault

\* A caller removes a key it holds.
RemoveKey(k) ==
    /\ fault = "none" /\ k \in keys
    /\ remove(k)
    /\ keys' = keys \ {k}

\* The kernel has stopped.
Halted == fault # "none" /\ UNCHANGED vars

Next == (\E k \in Keys : InsertKey(k) \/ RemoveKey(k)) \/ Halted

Spec == Init /\ [][Next]_vars

-----------------------------------------------------------------------------
\* The tree is the map its callers built: iterate visits exactly the keys
\* inserted and not removed, in ascending order (what the large heap
\* tier's first-fit search and free rely on), find reports each of them
\* and no other, and no step of insert or remove faults.
BTreeIsMap ==
    /\ fault = "none"
    /\ LET s == InOrder(mem, root)
       IN  IsSorted(s, <) /\ Len(s) = Cardinality(keys) /\ ToSet(s) = keys
    /\ \A k \in Keys : FindFrom(mem, root, k) <=> k \in keys
====

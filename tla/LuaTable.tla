------------------------------ MODULE LuaTable ------------------------------
(***************************************************************************)
(* Lua tables (ltable.c): an array part and a hash part of chained nodes   *)
(* that share one vector, resized when it is full; their traversal, their  *)
(* length, and the functions of the table library over them (ltablib.c).   *)
(*                                                                         *)
(* Keys are numbers; those above LastInt stand for strings.  Hash is what  *)
(* the hash function makes of a key.  0 is nil, as a key and as a value.   *)
(***************************************************************************)
EXTENDS Integers, Sequences, FiniteSets, FiniteSetsExt

CONSTANTS Keys, LastInt,
          Hash,     \* a function on Keys
          Vals,     \* values, in the order of sort
          Programs  \* what a program does: at most max ops on some keys, from a list

VARIABLES t,     \* the table
          ref,   \* what it should hold, a function on the keys that have a value
          trav,  \* a traversal: its key, what it has seen
          hist

vars == <<t, ref, trav, hist>>

nil == 0

NoNode == [key |-> nil, val |-> nil, next |-> 0]

\* hashmod avoids a power of two: (size - 1) | 1.
hashmod(n, size) == n % (IF size = 1 THEN 1 ELSE size - 1)

sizenode(h) == Len(h.node)

mainposition(h, k) ==
    1 + (IF k <= LastInt THEN hashmod(Hash[k], sizenode(h)) ELSE Hash[k] % sizenode(h))

\* The node of a key in a chain, or 0.
RECURSIVE InChain(_, _, _)
InChain(h, n, k) ==
    IF n = 0 \/ h.node[n].key = k THEN n ELSE InChain(h, h.node[n].next, k)

InArray(h, k) == k <= LastInt /\ k <= Len(h.array)

NodeOf(h, k) == InChain(h, mainposition(h, k), k)

luaH_get(h, k) ==
    IF InArray(h, k) THEN h.array[k]
    ELSE IF NodeOf(h, k) = 0 THEN nil ELSE h.node[NodeOf(h, k)].val

-----------------------------------------------------------------------------
(* Sizes. *)

RECURSIVE ceillog2From(_, _)
ceillog2From(n, i) == IF 2^i >= n THEN i ELSE ceillog2From(n, i + 1)

ceillog2(n) == ceillog2From(n, 0)

NodesInUse(h) == {n \in DOMAIN h.node : h.node[n].val # nil}

\* Integer keys in use, and the key to be added.
CountedInts(h, k) ==
    {i \in DOMAIN h.array : h.array[i] # nil}
    \cup {i \in {h.node[n].key : n \in NodesInUse(h)} \cup {k} : i <= LastInt}

\* The largest power of two such that more than half the slots are in use.
RECURSIVE computesizes(_, _, _, _)
computesizes(ints, i, a, best) ==
    LET more == Cardinality({x \in ints : ceillog2(x) = i})
        b == IF more > 0 /\ a + more > (2^i) \div 2 THEN [n |-> 2^i, na |-> a + more] ELSE best
    IN  IF (2^i) \div 2 >= Cardinality(ints) THEN best
        ELSE IF a + more = Cardinality(ints) THEN b
        ELSE computesizes(ints, i + 1, a + more, b)

\* The common dummy node stands for a hash part of none.
setnodevector(h, size) ==
    LET n == IF size = 0 THEN 1 ELSE 2^ceillog2(size)
    IN  [h EXCEPT !.node = [i \in 1..n |-> NoNode], !.dummy = size = 0,
                  !.lastfree = IF size = 0 THEN 0 ELSE n]

luaH_new(narray, nhash) ==
    setnodevector([array |-> [i \in 1..narray |-> nil], node |-> <<NoNode>>, dummy |-> TRUE,
                   lastfree |-> 0], nhash)

-----------------------------------------------------------------------------
(* Inserting. *)

\* The highest free node below lastfree, or 0; a node is free if it never had a key.
getfreepos(h) ==
    Max({0} \cup {n \in 1..h.lastfree : h.node[n].key = nil})

\* The node before mp in the chain that starts at a node.
RECURSIVE Previous(_, _, _)
Previous(h, n, mp) == IF h.node[n].next = mp THEN n ELSE Previous(h, h.node[n].next, mp)

\* Mutant of Moved: what follows the node that is moved is left behind.
MovedAlone(h, mp, n) ==
    LET prev == Previous(h, mainposition(h, h.node[mp].key), mp)
    IN  [h EXCEPT !.node[prev].next = n, !.node[n] = [h.node[mp] EXCEPT !.next = 0],
                  !.node[mp] = NoNode]

\* A node that is not where its key belongs makes room: it moves to n.
Moved(h, mp, n) ==
    LET prev == Previous(h, mainposition(h, h.node[mp].key), mp)
    IN  [h EXCEPT !.node[prev].next = n, !.node[n] = h.node[mp], !.node[mp] = NoNode]

Placed(h, n, k, v) == [h EXCEPT !.node[n].key = k, !.node[n].val = v]

\* What a resize puts back: the slice the array loses in order, then the
\* elements of the old hash part from the last node on.
Slice(h, nasize) ==
    SelectSeq([i \in DOMAIN h.array |-> <<i, h.array[i]>>], LAMBDA p : p[1] > nasize /\ p[2] # nil)

Nodes(h) ==
    LET n == sizenode(h)
    IN  SelectSeq([i \in 1..n |-> <<h.node[n + 1 - i].key, h.node[n + 1 - i].val>>], LAMBDA p : p[2] # nil)

Emptied(h, nasize, nhsize) ==
    setnodevector([h EXCEPT !.array = [i \in 1..nasize |-> IF i <= Len(@) THEN @[i] ELSE nil]], nhsize)

\* The sizes of the two parts that hold what the table has and k.
rehash(h, k) ==
    LET best == computesizes(CountedInts(h, k), 0, 0, [n |-> 0, na |-> 0])
        total == Cardinality({i \in DOMAIN h.array : h.array[i] # nil})
                 + Cardinality(NodesInUse(h)) + 1
    IN  [nasize |-> best.n, nhsize |-> total - best.na]

newkey(h, k, v) ==
    LET mp == mainposition(h, k)
        n == getfreepos(h)
        f == [h EXCEPT !.lastfree = n - 1]
    IN  IF h.node[mp].val = nil /\ ~h.dummy THEN Placed(h, mp, k, v)
        ELSE IF mainposition(h, h.node[mp].key) # mp THEN Placed(Moved(f, mp, n), mp, k, v)
        ELSE Placed([f EXCEPT !.node[n].next = h.node[mp].next, !.node[mp].next = n], n, k, v)

\* luaH_set, and the assignment of the value: nil leaves the node where it is.
luaH_set(h, k, v) ==
    IF InArray(h, k) THEN [h EXCEPT !.array[k] = v]
    ELSE IF NodeOf(h, k) # 0 THEN [h EXCEPT !.node[NodeOf(h, k)].val = v]
    ELSE newkey(h, k, v)

\* A new key finds no node.
Full(h, k) ==
    /\ ~InArray(h, k) /\ NodeOf(h, k) = 0
    /\ h.node[mainposition(h, k)].val # nil \/ h.dummy
    /\ getfreepos(h) = 0

Regrown(x, z) == [h |-> Emptied(x.h, z.nasize, z.nhsize),
                  todo |-> Slice(x.h, z.nasize) \o Nodes(x.h) \o x.todo]

\* Sets the keys and values todo one after the other.  A full table is resized:
\* what it holds is put back first, and may fill the new one in its turn.
RECURSIVE PutPairs(_)
PutPairs(x) ==
    IF x.todo = <<>> THEN x.h
    ELSE LET k == Head(x.todo)[1] IN
         PutPairs(IF Full(x.h, k) THEN Regrown(x, rehash(x.h, k))
                  ELSE [h |-> luaH_set(x.h, k, Head(x.todo)[2]), todo |-> Tail(x.todo)])

Put(h, k, v) == PutPairs([h |-> h, todo |-> <<<<k, v>>>>])

resize(h, nasize, nhsize) == PutPairs(Regrown([h |-> h, todo |-> <<>>], [nasize |-> nasize, nhsize |-> nhsize]))

-----------------------------------------------------------------------------
(* Traversal and length. *)

\* The place of a key: the array first, then the nodes; 0 to start, -1 for none.
findindex(h, k) ==
    IF k = nil THEN 0
    ELSE IF InArray(h, k) THEN k
    ELSE IF NodeOf(h, k) = 0 THEN -1 ELSE Len(h.array) + NodeOf(h, k)

KeyAt(h, i) == IF i <= Len(h.array) THEN i ELSE h.node[i - Len(h.array)].key

luaH_next(h, i) ==
    LET all == (i + 1)..(Len(h.array) + sizenode(h))
        used == {j \in all : IF j <= Len(h.array) THEN h.array[j] # nil
                              ELSE h.node[j - Len(h.array)].val # nil}
    IN  IF used = {} THEN nil ELSE KeyAt(h, Min(used))

getnum(h, k) == IF k \in Keys /\ k <= LastInt THEN luaH_get(h, k) ELSE nil

RECURSIVE Between(_, _, _)
Between(h, i, j) ==
    LET m == (i + j) \div 2 IN
    IF j - i <= 1 THEN i
    ELSE IF getnum(h, m) = nil THEN Between(h, i, m) ELSE Between(h, m, j)

RECURSIVE unbound_search(_, _, _)
unbound_search(h, i, j) ==
    IF getnum(h, j) = nil THEN Between(h, i, j) ELSE unbound_search(h, j, 2 * j)

luaH_getn(h) ==
    LET j == Len(h.array) IN
    IF j > 0 /\ h.array[j] = nil THEN Between(h, 0, j)
    ELSE IF h.dummy THEN j ELSE unbound_search(h, j, j + 1)

-----------------------------------------------------------------------------
(* The table library. *)

\* t[i] = t[i - 1] from e down to pos + 1, then t[pos] = v.
RECURSIVE MoveUp(_, _, _)
MoveUp(h, i, pos) == IF i <= pos THEN h ELSE MoveUp(Put(h, i, luaH_get(h, i - 1)), i - 1, pos)

tinsert(h, pos, v) ==
    LET e == Max({luaH_getn(h) + 1, pos}) IN Put(MoveUp(h, e, pos), pos, v)

RECURSIVE MoveDown(_, _, _)
MoveDown(h, pos, e) == IF pos >= e THEN h ELSE MoveDown(Put(h, pos, luaH_get(h, pos + 1)), pos + 1, e)

tremove(h, pos) ==
    LET e == luaH_getn(h) IN
    IF ~(1 <= pos /\ pos <= e) THEN h ELSE Put(MoveDown(h, pos, e), e, nil)

RECURSIVE maxnFrom(_, _, _)
maxnFrom(h, k, max) ==
    LET n == luaH_next(h, findindex(h, k)) IN
    IF n = nil THEN max ELSE maxnFrom(h, n, IF n <= LastInt /\ n > max THEN n ELSE max)

maxn(h) == maxnFrom(h, nil, 0)

\* Quicksort over a sequence, on l..u.
Swap(a, i, j) == [a EXCEPT ![i] = a[j], ![j] = a[i]]

RECURSIVE Up(_, _, _), Down(_, _, _), Partition(_, _, _, _), auxsort(_, _, _)

Up(a, i, p) == IF a[i] < p THEN Up(a, i + 1, p) ELSE i

Down(a, j, p) == IF p < a[j] THEN Down(a, j - 1, p) ELSE j

\* a[l..i] <= p <= a[j..u]
Partition(a, i, j, p) ==
    LET x == Up(a, i + 1, p)
        y == Down(a, j - 1, p)
    IN  IF y < x THEN [a |-> a, i |-> x] ELSE Partition(Swap(a, x, y), x, y, p)

\* The ends and the middle are put in order; the middle is the pivot.
Medians(a, l, u) ==
    LET i == (l + u) \div 2
        b == IF a[u] < a[l] THEN Swap(a, l, u) ELSE a
    IN  IF u - l = 1 THEN b
        ELSE IF b[i] < b[l] THEN Swap(b, i, l)
        ELSE IF b[u] < b[i] THEN Swap(b, i, u) ELSE b

auxsort(a, l, u) ==
    IF l >= u THEN a
    ELSE LET m == Medians(a, l, u)
             i == (l + u) \div 2
             c == Swap(m, i, u - 1)
             p == Partition(c, l, u - 1, m[i])
             d == Swap(p.a, u - 1, p.i)
         IN  IF u - l <= 2 THEN m
             ELSE IF p.i - l < u - p.i THEN auxsort(auxsort(d, l, p.i - 1), p.i + 1, u)
             ELSE auxsort(auxsort(d, p.i + 1, u), l, p.i - 1)

RECURSIVE PutAll(_, _, _)
PutAll(h, a, i) == IF i = 0 THEN h ELSE PutAll(Put(h, i, a[i]), a, i - 1)

sort(h) ==
    LET n == luaH_getn(h) IN PutAll(h, auxsort([i \in 1..n |-> luaH_get(h, i)], 1, n), n)

-----------------------------------------------------------------------------
(* The program. *)

Op(name) == hist.ops < hist.program.max /\ name \in hist.program.ops

Counted == hist' = [hist EXCEPT !.ops = @ + 1]

NoTrav == [on |-> FALSE, key |-> nil, seen |-> {}, twice |-> FALSE, must |-> {}]

Without(f, k) == [x \in DOMAIN f \ {k} |-> f[x]]

With(f, k, v) ==
    IF v = nil THEN Without(f, k) ELSE [x \in DOMAIN f \cup {k} |-> IF x = k THEN v ELSE f[x]]

\* An assignment; during a traversal only to a field there is.
Assign ==
    /\ Op("assign")
    /\ \E k \in hist.program.keys, v \in Vals \cup {nil} :
          /\ trav.on => k \in DOMAIN ref
          /\ t' = Put(t, k, v) /\ ref' = With(ref, k, v)
          /\ trav' = IF v = nil THEN [trav EXCEPT !.must = @ \ {k}] ELSE trav
    /\ Counted

\* The list part of the table, when it has no hole.
List == {i \in DOMAIN ref : i <= LastInt}

IsList == List = 1..Cardinality(List)

Insert ==
    /\ Op("insert") /\ IsList /\ ~trav.on
    /\ LET n == Cardinality(List) IN
       \E pos \in 1..(n + 1), v \in Vals :
          /\ n + 1 \in Keys /\ n + 1 <= LastInt
          /\ t' = tinsert(t, pos, v)
          /\ ref' = [k \in DOMAIN ref \cup {n + 1} |->
                       IF k > LastInt \/ k < pos THEN ref[k] ELSE IF k = pos THEN v ELSE ref[k - 1]]
    /\ Counted /\ UNCHANGED trav

Remove ==
    /\ Op("remove") /\ IsList /\ List # {} /\ ~trav.on
    /\ LET n == Cardinality(List) IN
       \E pos \in 0..(n + 1) :
          /\ t' = tremove(t, pos)
          /\ ref' = IF pos \notin 1..n THEN ref
                    ELSE [k \in DOMAIN ref \ {n} |-> IF k > LastInt \/ k < pos THEN ref[k] ELSE ref[k + 1]]
    /\ Counted /\ UNCHANGED trav

Sort ==
    /\ Op("sort") /\ IsList /\ Cardinality(List) > 1 /\ ~trav.on
    /\ t' = sort(t)
    /\ LET n == Cardinality(List)
           Rank(i) == Cardinality({j \in 1..n : ref[j] < ref[i] \/ (ref[j] = ref[i] /\ j < i)}) + 1
       IN  ref' = [k \in DOMAIN ref |->
                     IF k > LastInt THEN ref[k] ELSE ref[CHOOSE i \in 1..n : Rank(i) = k]]
    /\ Counted /\ UNCHANGED trav

\* OP_SETLIST grows the array part.
luaH_resizearray ==
    /\ Op("resize") /\ ~trav.on
    /\ \E n \in 1..LastInt :
          n > Len(t.array) /\ t' = resize(t, n, IF t.dummy THEN 0 ELSE sizenode(t))
    /\ Counted /\ UNCHANGED <<ref, trav>>

Start ==
    /\ ~trav.on /\ Op("next") /\ DOMAIN ref # {}
    /\ trav' = [NoTrav EXCEPT !.on = TRUE, !.must = DOMAIN ref] /\ Counted /\ UNCHANGED <<t, ref>>

Step ==
    /\ trav.on
    /\ LET i == findindex(t, trav.key)
           k == luaH_next(t, i)
       IN  trav' = IF i = -1 THEN [trav EXCEPT !.twice = TRUE]
                   ELSE IF k = nil THEN [trav EXCEPT !.on = FALSE]
                   ELSE [trav EXCEPT !.key = k, !.seen = @ \cup {k}, !.twice = @ \/ k \in trav.seen]
    /\ UNCHANGED <<t, ref, hist>>

Init ==
    /\ trav = NoTrav
    /\ \E p \in Programs, narray \in {0, 3}, nhash \in {0, 4} :
          /\ t = PutAll(luaH_new(narray, nhash), p.list, Len(p.list)) /\ ref = p.list
          /\ hist = [program |-> p, ops |-> 0]

Next == Assign \/ Insert \/ Remove \/ Sort \/ luaH_resizearray \/ Start \/ Step

Spec == Init /\ [][Next]_vars

-----------------------------------------------------------------------------
(* Properties. *)

\* Whatever is assigned, inserted, removed or sorted, and however keys collide,
\* move and are rehashed, every key is found with the value last given to it
\* and no other has one (newkey, rehash, resize; tinsert, tremove, auxsort); the
\* length is a border, an index with a value, or 0, before one without (luaH_getn).
TableIsMap ==
    /\ \A k \in Keys : luaH_get(t, k) = IF k \in DOMAIN ref THEN ref[k] ELSE nil
    /\ LET n == luaH_getn(t) IN
       (n > 0 => n \in DOMAIN ref) /\ (n + 1 \in DOMAIN ref => n + 1 > LastInt)

\* A traversal that clears and assigns fields the table has meets every key
\* that keeps its value, and none twice (luaH_next and findindex: the nodes of
\* cleared keys stay where they are); maxn, which is one, finds the largest.
TraversalIsWhole ==
    /\ ~trav.twice /\ (~trav.on => trav.must \subseteq trav.seen)
    /\ maxn(t) = Max({0} \cup List)
=============================================================================

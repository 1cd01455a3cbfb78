------------------------- MODULE PrefixStoreProofs -------------------------
(***************************************************************************)
(* Proofs about the prefix cache, for every number of slots, every set of  *)
(* prompts, contexts and names and every budget: the bytes on the books,   *)
(* the rows of slots and snapshots, the entries that exports read and the  *)
(* contexts that requests have checked.                                    *)
(*                                                                         *)
(* The operations on the store (Drop, Touch, Insert and what is made of    *)
(* them) are first shown to leave a good store good and to lose no entry   *)
(* that is read or pinned; then what a reuse installs in a slot; then, an  *)
(* action at a time, the inductive invariant PrefixInv.                    *)
(***************************************************************************)
EXTENDS PrefixStore, SetLemmas, SequenceTheorems, TLAPS

\* The state of the linked list: every entry has a place of its own, and the bytes
\* on the books are those of the entries; a snapshot's rows are those of its tokens,
\* and what was unlinked is still read.
Placed(L) ==
    /\ L \subseteq Entries /\ IsFiniteSet(L)
    /\ \A d, e \in L : d.born = e.born => d = e

Stores == [list : SUBSET Entries, bytes : Int, dropped : SUBSET Entries]

GoodStore(st) ==
    /\ st \in Stores /\ Placed(st.list)
    /\ \A e \in st.list : e.born \in 1 .. Cardinality(st.list)
    /\ st.bytes = Bytes(st.list)
    /\ \A e \in st.list \cup st.dropped : e.kv = e.toks
    /\ \A e \in st.dropped : e.readers # {}

\* What a step on the store may not lose: an entry that is read, and an entry that is
\* pinned under a name other than those of a set.
ReadersKept(st, st2) ==
    \A e \in st.list \cup st.dropped : e.readers # {} =>
        \E d \in st2.list \cup st2.dropped : d.readers = e.readers /\ d.toks = e.toks

PinsKept(st, st2, names) ==
    \A e \in st.list : Pinned(e) /\ e.name \notin names =>
        \E d \in st2.list : d.name = e.name /\ d.toks = e.toks

-----------------------------------------------------------------------------
\* The size of an entry, and of a set of entries that falls into two parts.
LEMMA SizeNat ==
    ASSUME fold \in Nat, NEW e \in Entries
    PROVE  Size(e) \in Nat
BY DEF Size, EntryBytes, Entries

LEMMA BytesNat ==
    ASSUME fold \in Nat, NEW L, Placed(L), NEW S \in SUBSET L
    PROVE  /\ Bytes(S) \in Nat
           /\ Bytes(L) = Bytes(L \ S) + Bytes(S)
<1> DEFINE f == [e \in L |-> Size(e)]
           Of(T) == [e \in T |-> Size(e)]
<1>1. \A e \in L : f[e] \in Nat /\ f[e] \in Int /\ f[e] = Size(e)
  BY SizeNat DEF Placed
<1>2. ASSUME NEW T \in SUBSET L
      PROVE  Bytes(T) = SumFunctionOnSet(f, T) /\ Bytes(T) \in Nat /\ IsFiniteSet(T)
  <2>1. IsFiniteSet(T)
    BY FS_Subset DEF Placed
  <2>2. \A e \in T : f[e] \in Int /\ Of(T)[e] = f[e]
    BY <1>1
  <2>3. \A e \in T : f[e] \in Nat
    BY <1>1
  <2>4. SumFunctionOnSet(f, T) = SumFunctionOnSet(Of(T), T)
    <3> HIDE DEF f, Of
    <3> QED
      BY <2>1, <2>2, SumSame
  <2>5. SumFunctionOnSet(f, T) \in Nat
    <3> HIDE DEF f
    <3> QED
      BY <2>1, <2>3, SumNat
  <2> QED
    BY <2>1, <2>4, <2>5 DEF Bytes
<1>3. S \in SUBSET L /\ L \ S \in SUBSET L /\ L \in SUBSET L
      /\ (L \ S) \cap S = {} /\ (L \ S) \cup S = L
  OBVIOUS
<1>4. \A e \in (L \ S) \cup S : f[e] \in Int
  BY <1>1
<1>5. SumFunctionOnSet(f, (L \ S) \cup S)
         = SumFunctionOnSet(f, L \ S) + SumFunctionOnSet(f, S)
  <2> HIDE DEF f
  <2>1. IsFiniteSet(S) /\ IsFiniteSet(L \ S)
    BY <1>2, <1>3
  <2> QED
    BY <1>3, <1>4, <2>1, SumUnion
<1> HIDE DEF f
<1> QED
  BY <1>2, <1>3, <1>5

\* Ranks: each entry's place among those inserted no later.
LEMMA RankFacts ==
    ASSUME NEW L, Placed(L)
    PROVE  /\ \A e \in L : Cardinality({d \in L : d.born <= e.born}) \in 1 .. Cardinality(L)
           /\ \A e \in L : Cardinality({d \in L : d.used <= e.used}) \in Nat
           /\ \A d, e \in L : Cardinality({x \in L : x.born <= d.born})
                              = Cardinality({x \in L : x.born <= e.born}) => d = e
<1> DEFINE Upto(e) == {d \in L : d.born <= e.born}
<1>1. \A e \in L : e.born \in Nat
  BY DEF Placed, Entries
<1>2. \A A \in SUBSET L : IsFiniteSet(A) /\ Cardinality(A) \in Nat /\ Cardinality(A) <= Cardinality(L)
  BY FS_Subset, FS_CardinalityType DEF Placed
<1>3. ASSUME NEW e \in L PROVE Cardinality(Upto(e)) \in 1 .. Cardinality(L)
  <2>1. Upto(e) \in SUBSET L /\ e \in Upto(e) /\ L \in SUBSET L
    BY <1>1
  <2>2. Cardinality(Upto(e)) # 0
    BY <1>2, <2>1, FS_EmptySet
  <2> HIDE DEF Upto
  <2> QED
    BY <1>2, <2>1, <2>2
<1>4. ASSUME NEW d \in L, NEW e \in L, d.born < e.born
      PROVE  Cardinality(Upto(d)) # Cardinality(Upto(e))
  <2>1. Upto(d) \in SUBSET Upto(e)
    BY <1>1, <1>4
  <2>2. e \in Upto(e) /\ e \notin Upto(d)
    BY <1>1, <1>4
  <2>3. IsFiniteSet(Upto(e))
    BY <1>2
  <2> HIDE DEF Upto
  <2> QED
    BY <2>1, <2>2, <2>3, FS_Subset
<1>5. \A d, e \in L : d # e => d.born < e.born \/ e.born < d.born
  BY <1>1 DEF Placed
<1>6. \A e \in L : Cardinality({d \in L : d.used <= e.used}) \in Nat
  BY <1>2
<1> QED
  BY <1>3, <1>4, <1>5, <1>6

\* Re-ranking keeps every entry apart from its ranks.
LEMMA RankType ==
    ASSUME NEW L, Placed(L), NEW e \in L
    PROVE  /\ Rank(e, L) \in Entries
           /\ Rank(e, L).born = Cardinality({d \in L : d.born <= e.born})
           /\ Rank(e, L).toks = e.toks /\ Rank(e, L).kv = e.kv /\ Rank(e, L).name = e.name
           /\ Rank(e, L).hit = e.hit /\ Rank(e, L).readers = e.readers
<1>1. e \in Entries
  BY DEF Placed
<1>2. /\ Cardinality({d \in L : d.born <= e.born}) \in Nat
      /\ Cardinality({d \in L : d.used <= e.used}) \in Nat
  <2>1. /\ Cardinality({d \in L : d.born <= e.born}) \in 1 .. Cardinality(L)
        /\ Cardinality({d \in L : d.used <= e.used}) \in Nat
    BY RankFacts
  <2>2. Cardinality(L) \in Nat
    BY FS_CardinalityType DEF Placed
  <2> QED
    BY <2>1, <2>2
<1> QED
  BY <1>1, <1>2 DEF Rank, Entries

\* Entries that change without their tokens or their distinctness stay on the books.
Moves(g, L) ==
    /\ \A e \in L : /\ g[e] \in Entries /\ g[e].toks = e.toks
                    /\ g[e].born \in 1 .. Cardinality(L)
    /\ \A d, e \in L : g[d].born = g[e].born => d = e

LEMMA MovesGood ==
    ASSUME fold \in Nat, NEW L, Placed(L), NEW g, Moves(g, L),
           NEW Im, Im = {g[e] : e \in L}
    PROVE  /\ Placed(Im) /\ Bytes(Im) = Bytes(L)
           /\ \A e \in Im : e.born \in 1 .. Cardinality(Im)
<1> DEFINE f == [e \in L |-> Size(e)]
           h == [e \in Im |-> Size(e)]
<1>1. \A e \in L : g[e] \in Entries /\ g[e].toks = e.toks /\ g[e].born \in 1 .. Cardinality(L)
  BY DEF Moves
<1>2. \A d, e \in L : g[d].born = g[e].born => d = e
  BY DEF Moves
<1>3. \A d, e \in L : g[d] = g[e] => d = e
  BY <1>2
<1>4. IsFiniteSet(L)
  BY DEF Placed
<1>5. IsFiniteSet(Im) /\ Cardinality(Im) = Cardinality(L)
  BY <1>3, <1>4, ImageCard
<1>6. Im \subseteq Entries /\ \A d, e \in Im : d.born = e.born => d = e
  <2>1. ASSUME NEW x \in Im, NEW y \in Im, x.born = y.born PROVE x = y
    <3>1. PICK d \in L : x = g[d]
      OBVIOUS
    <3>2. PICK e \in L : y = g[e]
      OBVIOUS
    <3> QED
      BY <1>2, <2>1, <3>1, <3>2
  <2> QED
    BY <1>1, <2>1
<1>7. \A e \in Im : e.born \in 1 .. Cardinality(Im)
  <2>1. \A e \in L : g[e].born \in 1 .. Cardinality(Im)
    BY <1>1, <1>5
  <2> QED
    BY <2>1
<1>8. /\ \A e \in L : f[e] \in Int
      /\ \A e \in L : h[g[e]] = f[e]
  <2>1. \A e \in L : Size(e) \in Int
    BY SizeNat DEF Placed
  <2>2. \A e \in L : Size(g[e]) = Size(e) /\ g[e] \in Im
    BY <1>1 DEF Size
  <2> QED
    BY <2>1, <2>2
<1>9. SumFunctionOnSet(h, Im) = SumFunctionOnSet(f, L)
  <2> HIDE DEF f, h
  <2> QED
    BY <1>3, <1>4, <1>8, SumImage
<1>10. Bytes(Im) = Bytes(L)
  BY <1>9 DEF Bytes
<1> QED
  BY <1>5, <1>6, <1>7, <1>10 DEF Placed

\* Re-ranking leaves a list in order, with the same bytes.
LEMMA RankedGood ==
    ASSUME fold \in Nat, NEW L, Placed(L)
    PROVE  /\ Placed(Ranked(L))
           /\ \A e \in Ranked(L) : e.born \in 1 .. Cardinality(Ranked(L))
           /\ Bytes(Ranked(L)) = Bytes(L)
<1> DEFINE g == [e \in L |-> Rank(e, L)]
           Pos(e) == Cardinality({d \in L : d.born <= e.born})
<1>1. Ranked(L) = {g[e] : e \in L}
  BY DEF Ranked
<1>2. \A e \in L : g[e] \in Entries /\ g[e].born = Pos(e) /\ g[e].toks = e.toks
  BY RankType
<1>3. /\ \A e \in L : Pos(e) \in 1 .. Cardinality(L)
      /\ \A d, e \in L : Pos(d) = Pos(e) => d = e
  BY RankFacts
<1> HIDE DEF g, Pos
<1>4. Moves(g, L)
  BY <1>2, <1>3 DEF Moves
<1> DEFINE Im == Ranked(L)
<1>5. Im = {g[e] : e \in L}
  BY <1>1
<1> HIDE DEF Im
<1>6. /\ Placed(Im) /\ Bytes(Im) = Bytes(L)
      /\ \A e \in Im : e.born \in 1 .. Cardinality(Im)
  BY <1>4, <1>5, MovesGood
<1> QED
  BY <1>6 DEF Im
-----------------------------------------------------------------------------
\* What the operations on the store leave as it should be.
LEMMA DropGood ==
    ASSUME fold \in Nat, NEW st, GoodStore(st), NEW out \in SUBSET st.list,
           NEW names, \A e \in out : Pinned(e) => e.name \in names
    PROVE  /\ GoodStore(Drop(st, out))
           /\ ReadersKept(st, Drop(st, out))
           /\ PinsKept(st, Drop(st, out), names)
           /\ Drop(st, out).bytes <= st.bytes
           /\ Drop(st, out).bytes = st.bytes - Bytes(out)
           /\ Drop(st, out).list = Ranked(st.list \ out)
<1> DEFINE L == st.list \ out
           Moved(e) == [e EXCEPT !.used = 0, !.born = 0]
           D == {Moved(e) : e \in {d \in out : d.readers # {}}}
           st2 == Drop(st, out)
<1>1. /\ st2.list = Ranked(L) /\ st2.bytes = st.bytes - Bytes(out)
      /\ st2.dropped = st.dropped \cup D
      /\ st2 = [list |-> Ranked(L), bytes |-> st.bytes - Bytes(out),
                dropped |-> st.dropped \cup D]
  BY DEF Drop
<1>2. /\ st.list \subseteq Entries /\ st.dropped \subseteq Entries
      /\ Placed(st.list) /\ st.bytes = Bytes(st.list)
  BY DEF GoodStore, Stores
<1>3. Placed(L)
  <2>1. L \in SUBSET st.list
    OBVIOUS
  <2>2. IsFiniteSet(L)
    BY <1>2, <2>1, FS_Subset DEF Placed
  <2> QED
    BY <1>2, <2>1, <2>2 DEF Placed
<1>4. /\ Bytes(out) \in Nat /\ Bytes(L) \in Nat
      /\ Bytes(st.list) = Bytes(L) + Bytes(out)
  <2>1. Bytes(out) \in Nat /\ Bytes(st.list) = Bytes(L) + Bytes(out)
    BY <1>2, BytesNat
  <2>2. L \in SUBSET L
    OBVIOUS
  <2>3. Bytes(L) \in Nat
    <3> HIDE DEF L
    <3> QED
      BY <1>3, <2>2, BytesNat
  <2> QED
    BY <2>1, <2>3
<1>5. \A e \in out : /\ Moved(e) \in Entries /\ Moved(e).kv = e.kv /\ Moved(e).toks = e.toks
                     /\ Moved(e).readers = e.readers
  BY <1>2 DEF Entries
<1>6. D \subseteq Entries /\ \A e \in D : e.readers # {} /\ e.kv = e.toks
  <2>1. \A e \in out : e.kv = e.toks
    BY DEF GoodStore
  <2> HIDE DEF Moved
  <2> QED
    BY <1>5, <2>1
<1>7. /\ Placed(Ranked(L))
      /\ \A e \in Ranked(L) : e.born \in 1 .. Cardinality(Ranked(L))
      /\ Bytes(Ranked(L)) = Bytes(L)
  <2> HIDE DEF L
  <2> QED
    BY <1>3, RankedGood
<1>8. \A e \in L : /\ Rank(e, L) \in Ranked(L)
                   /\ Rank(e, L).toks = e.toks /\ Rank(e, L).kv = e.kv
                   /\ Rank(e, L).name = e.name /\ Rank(e, L).readers = e.readers
  <2> HIDE DEF L
  <2> QED
    BY <1>3, RankType DEF Ranked
<1>9. \A e \in Ranked(L) : e.kv = e.toks
  <2>1. \A e \in L : e.kv = e.toks
    BY DEF GoodStore
  <2> HIDE DEF L
  <2> QED
    BY <1>8, <2>1 DEF Ranked
<1>10. GoodStore(st2)
  <2>1. st2 \in Stores
    <3>1. Ranked(L) \subseteq Entries
      BY <1>7 DEF Placed
    <3> HIDE DEF st2, L, D
    <3> QED
      BY <1>1, <1>2, <1>4, <1>6, <3>1 DEF Stores
  <2>2. st2.bytes = Bytes(st2.list)
    <3>1. st2.bytes = st.bytes - Bytes(out) /\ st2.list = Ranked(L)
      BY <1>1
    <3> HIDE DEF st2, L
    <3> QED
      BY <1>2, <1>4, <1>7, <3>1
  <2>3. \A e \in st2.list \cup st2.dropped : e.kv = e.toks
    <3>1. \A e \in st.dropped : e.kv = e.toks
      BY DEF GoodStore
    <3> HIDE DEF st2, L, D
    <3> QED
      BY <1>1, <1>6, <1>9, <3>1
  <2>4. \A e \in st2.dropped : e.readers # {}
    <3>1. \A e \in st.dropped : e.readers # {}
      BY DEF GoodStore
    <3> HIDE DEF st2, L, D
    <3> QED
      BY <1>1, <1>6, <3>1
  <2> HIDE DEF st2, L, D
  <2> QED
    BY <1>1, <1>7, <2>1, <2>2, <2>3, <2>4 DEF GoodStore
<1>11. ReadersKept(st, st2)
  <2>1. ASSUME NEW e \in st.list \cup st.dropped, e.readers # {}
        PROVE  \E d \in st2.list \cup st2.dropped : d.readers = e.readers /\ d.toks = e.toks
    <3>1. CASE e \in st.dropped
      BY <1>1, <3>1
    <3>2. CASE e \in out
      <4>1. Moved(e) \in D
        BY <2>1, <3>2
      <4> HIDE DEF D, st2, Moved
      <4> QED
        BY <1>1, <1>5, <3>2, <4>1
    <3>3. CASE e \in L
      <4> HIDE DEF L, st2
      <4> QED
        BY <1>1, <1>8, <3>3
    <3> QED
      BY <3>1, <3>2, <3>3
  <2> HIDE DEF st2
  <2> QED
    BY <2>1 DEF ReadersKept
<1>12. PinsKept(st, st2, names)
  <2>1. ASSUME NEW e \in st.list, Pinned(e), e.name \notin names
        PROVE  \E d \in st2.list : d.name = e.name /\ d.toks = e.toks
    <3>1. e \in L
      BY <2>1
    <3> HIDE DEF L, st2
    <3> QED
      BY <1>1, <1>8, <3>1
  <2> HIDE DEF st2
  <2> QED
    BY <2>1 DEF PinsKept
<1>13. st2.bytes <= st.bytes
  <2>1. st2.bytes = st.bytes - Bytes(out)
    BY <1>1
  <2> HIDE DEF L, st2
  <2> QED
    BY <1>2, <1>4, <2>1
<1> HIDE DEF st2
<1> QED
  BY <1>1, <1>10, <1>11, <1>12, <1>13 DEF st2

\* An entry is used: it changes its place in the order of use, and nothing else does.
LEMMA TouchGood ==
    ASSUME fold \in Nat, NEW st, GoodStore(st), NEW e \in st.list, NEW hit \in BOOLEAN
    PROVE  /\ GoodStore(Touch(st, e, hit))
           /\ ReadersKept(st, Touch(st, e, hit))
           /\ PinsKept(st, Touch(st, e, hit), {})
           /\ Touch(st, e, hit).bytes = st.bytes
<1> DEFINE new == [e EXCEPT !.used = Cardinality(st.list) + 1, !.hit = hit]
           L == (st.list \ {e}) \cup {new}
           st2 == Touch(st, e, hit)
<1>1. /\ st.list \subseteq Entries /\ st.dropped \subseteq Entries /\ st.bytes \in Int
      /\ Placed(st.list) /\ st.bytes = Bytes(st.list) /\ IsFiniteSet(st.list)
      /\ \A d \in st.list \cup st.dropped : d.kv = d.toks
      /\ \A d \in st.dropped : d.readers # {}
  BY DEF GoodStore, Stores, Placed
<1>2. /\ st2 = [list |-> Ranked(L), bytes |-> st.bytes, dropped |-> st.dropped]
  <2>1. st2 = [st EXCEPT !.list = Ranked(L)]
    BY DEF Touch
  <2> HIDE DEF L, st2
  <2> QED
    BY <2>1 DEF GoodStore, Stores
<1>3. Cardinality(st.list) \in Nat
  BY <1>1, FS_CardinalityType
<1>4. /\ new \in Entries /\ new.toks = e.toks /\ new.kv = e.kv /\ new.name = e.name
      /\ new.born = e.born /\ new.readers = e.readers
  <2>1. e \in Entries
    BY <1>1
  <2> DEFINE n == Cardinality(st.list) + 1
  <2>2. n \in Nat
    BY <1>3
  <2> HIDE DEF n
  <2>3. /\ [e EXCEPT !.used = n, !.hit = TRUE] \in Entries
        /\ [e EXCEPT !.used = n, !.hit = TRUE].toks = e.toks
        /\ [e EXCEPT !.used = n, !.hit = TRUE].kv = e.kv
        /\ [e EXCEPT !.used = n, !.hit = TRUE].name = e.name
        /\ [e EXCEPT !.used = n, !.hit = TRUE].born = e.born
        /\ [e EXCEPT !.used = n, !.hit = TRUE].readers = e.readers
    BY <2>1, <2>2 DEF Entries
  <2>4. /\ [e EXCEPT !.used = n, !.hit = FALSE] \in Entries
        /\ [e EXCEPT !.used = n, !.hit = FALSE].toks = e.toks
        /\ [e EXCEPT !.used = n, !.hit = FALSE].kv = e.kv
        /\ [e EXCEPT !.used = n, !.hit = FALSE].name = e.name
        /\ [e EXCEPT !.used = n, !.hit = FALSE].born = e.born
        /\ [e EXCEPT !.used = n, !.hit = FALSE].readers = e.readers
    BY <2>1, <2>2 DEF Entries
  <2>5. CASE hit
    BY <2>3, <2>5 DEF n
  <2>6. CASE ~hit
    BY <2>4, <2>6 DEF n
  <2> QED
    BY <2>5, <2>6
<1> HIDE DEF new
<1>5. Placed(L) /\ Bytes(L) = Bytes(st.list)
  <2> DEFINE sub == [d \in st.list |-> IF d = e THEN new ELSE d]
  <2>1. \A d \in st.list : d.born \in 1 .. Cardinality(st.list)
    BY DEF GoodStore
  <2>2. Moves(sub, st.list)
    BY <1>1, <1>4, <2>1 DEF Moves, Placed
  <2>3. L = {sub[d] : d \in st.list}
    OBVIOUS
  <2> HIDE DEF L, sub
  <2> QED
    BY <1>1, <2>2, <2>3, MovesGood
<1>6. /\ Placed(Ranked(L))
      /\ \A d \in Ranked(L) : d.born \in 1 .. Cardinality(Ranked(L))
      /\ Bytes(Ranked(L)) = Bytes(L)
  <2> HIDE DEF L
  <2> QED
    BY <1>5, RankedGood
<1>7. \A d \in L : /\ Rank(d, L) \in Ranked(L)
                   /\ Rank(d, L).toks = d.toks /\ Rank(d, L).kv = d.kv
                   /\ Rank(d, L).name = d.name /\ Rank(d, L).readers = d.readers
  <2> HIDE DEF L
  <2> QED
    BY <1>5, RankType DEF Ranked
<1>8. \A d \in Ranked(L) : d.kv = d.toks
  <2>1. \A d \in L : d.kv = d.toks
    BY <1>1, <1>4
  <2> HIDE DEF L
  <2> QED
    BY <1>7, <2>1 DEF Ranked
<1>9. \A d \in st.list : \E x \in Ranked(L) :
          x.toks = d.toks /\ x.name = d.name /\ x.readers = d.readers
  <2>1. \A d \in st.list : \E x \in L :
           x.toks = d.toks /\ x.name = d.name /\ x.readers = d.readers
    BY <1>4
  <2> HIDE DEF L
  <2> QED
    BY <1>7, <2>1
<1>10. Ranked(L) \subseteq Entries
  BY <1>6 DEF Placed
<1> HIDE DEF L, st2
<1>11. st2.list = Ranked(L) /\ st2.bytes = st.bytes /\ st2.dropped = st.dropped /\ st2 \in Stores
  BY <1>1, <1>2, <1>10 DEF Stores
<1>12. GoodStore(st2)
  BY <1>1, <1>5, <1>6, <1>8, <1>11 DEF GoodStore
<1>13. ReadersKept(st, st2)
  BY <1>9, <1>11 DEF ReadersKept
<1>14. PinsKept(st, st2, {})
  BY <1>9, <1>11 DEF PinsKept
<1> QED
  BY <1>11, <1>12, <1>13, <1>14 DEF st2

\* A new entry is on the books and the youngest.
LEMMA InsertGood ==
    ASSUME fold \in Nat, NEW st, GoodStore(st), NEW toks \in Seq(Nat),
           NEW name \in Names \cup {NoName}
    PROVE  /\ GoodStore(Insert(st, toks, toks, name))
           /\ ReadersKept(st, Insert(st, toks, toks, name))
           /\ PinsKept(st, Insert(st, toks, toks, name), {})
           /\ Insert(st, toks, toks, name).bytes = st.bytes + EntryBytes(Len(toks))
<1> DEFINE c == Cardinality(st.list) + 1
           new == [toks |-> toks, kv |-> toks, name |-> name, hit |-> FALSE, readers |-> {},
                   used |-> c, born |-> c]
           L == st.list \cup {new}
           st2 == Insert(st, toks, toks, name)
<1>1. /\ st.list \subseteq Entries /\ st.dropped \subseteq Entries /\ st.bytes \in Int
      /\ Placed(st.list) /\ st.bytes = Bytes(st.list) /\ IsFiniteSet(st.list)
      /\ \A d \in st.list \cup st.dropped : d.kv = d.toks
      /\ \A d \in st.dropped : d.readers # {}
      /\ \A d \in st.list : d.born \in 1 .. Cardinality(st.list)
  BY DEF GoodStore, Stores, Placed
<1>2. Cardinality(st.list) \in Nat
  BY <1>1, FS_CardinalityType
<1>3. /\ new \in Entries /\ new.kv = new.toks /\ new.born = c /\ new.toks = toks
  <2>1. FALSE \in BOOLEAN /\ {} \in SUBSET Slots /\ c \in Nat
    BY <1>2
  <2> HIDE DEF c
  <2> QED
    BY <2>1 DEF Entries
<1>4. /\ st2 = [list |-> L, bytes |-> st.bytes + EntryBytes(Len(toks)), dropped |-> st.dropped]
  <2>1. st2 = [st EXCEPT !.list = L, !.bytes = @ + EntryBytes(Len(toks))]
    BY DEF Insert
  <2> HIDE DEF L, st2
  <2> QED
    BY <2>1 DEF GoodStore, Stores
<1> HIDE DEF new
<1>5. new \notin st.list /\ \A d \in st.list : d.born < new.born
  BY <1>1, <1>2, <1>3
<1>6. IsFiniteSet(L) /\ Cardinality(L) = c
  BY <1>1, <1>5, FS_AddElement
<1>7. Placed(L) /\ \A d \in L : d.born \in 1 .. Cardinality(L)
  <2>1. \A d \in L : d.born \in 1 .. Cardinality(L)
    BY <1>1, <1>2, <1>3, <1>6
  <2>2. \A d1, d2 \in L : d1.born = d2.born => d1 = d2
    <3>1. \A d \in st.list : d.born # new.born
      BY <1>1, <1>2, <1>3
    <3> QED
      BY <1>1, <3>1 DEF Placed
  <2> QED
    BY <1>1, <1>3, <1>6, <2>1, <2>2 DEF Placed
<1>8. Bytes(L) = Bytes(st.list) + EntryBytes(Len(toks)) /\ EntryBytes(Len(toks)) \in Int
  <2>1. {new} \in SUBSET L /\ L \ {new} = st.list
    BY <1>5
  <2>2. Bytes(L) = Bytes(L \ {new}) + Bytes({new})
    <3> HIDE DEF L
    <3> QED
      BY <1>7, <2>1, BytesNat
  <2>3. Bytes({new}) = Size(new)
    <3> DEFINE f == [d \in {new} |-> Size(d)]
    <3>1. f[new] = Size(new) /\ Size(new) \in Nat
      BY <1>3, SizeNat
    <3>2. {} \cup {new} = {new}
      OBVIOUS
    <3>3. \A y \in {} \cup {new} : f[y] \in Int
      BY <3>1, <3>2
    <3>4. SumFunctionOnSet(f, {} \cup {new}) = f[new] + SumFunctionOnSet(f, {})
      <4> HIDE DEF f
      <4> QED
        BY <3>3, FS_EmptySet, SumAdd
    <3>5. SumFunctionOnSet(f, {}) = 0
      BY SumEmpty
    <3> QED
      BY <3>1, <3>2, <3>4, <3>5 DEF Bytes
  <2>4. Size(new) = EntryBytes(Len(toks)) /\ Size(new) \in Int
    BY <1>3, SizeNat DEF Size
  <2> HIDE DEF L
  <2> QED
    BY <2>1, <2>2, <2>3, <2>4
<1>9. \A d \in L : d.kv = d.toks
  BY <1>1, <1>3
<1>10. L \subseteq Entries
  BY <1>7 DEF Placed
<1>11. st.list \subseteq L
  OBVIOUS
<1> HIDE DEF L, st2
<1>12. /\ st2.list = L /\ st2.bytes = st.bytes + EntryBytes(Len(toks))
       /\ st2.dropped = st.dropped /\ st2 \in Stores
  BY <1>1, <1>4, <1>8, <1>10 DEF Stores
<1>13. GoodStore(st2)
  BY <1>1, <1>7, <1>8, <1>9, <1>12 DEF GoodStore
<1>14. ReadersKept(st, st2)
  BY <1>11, <1>12 DEF ReadersKept
<1>15. PinsKept(st, st2, {})
  BY <1>11, <1>12 DEF PinsKept
<1> QED
  BY <1>12, <1>13, <1>14, <1>15 DEF st2
-----------------------------------------------------------------------------
\* Token sequences.
LEMMA TakeFacts ==
    ASSUME NEW t \in Seq(Nat), NEW n \in 0 .. Len(t)
    PROVE  /\ Take(t, n) \in Seq(Nat) /\ Len(Take(t, n)) = n
           /\ \A i \in 1 .. n : Take(t, n)[i] = t[i]
           /\ Take(t, Len(t)) = t /\ Take(t, 0) = <<>>
BY DEF Take

\* Sequences that agree on a beginning agree on a shorter one.
LEMMA TakeShorter ==
    ASSUME NEW s \in Seq(Nat), NEW t \in Seq(Nat), NEW n \in Nat, n <= Len(s), n <= Len(t),
           Take(s, n) = Take(t, n), NEW m \in 0 .. n
    PROVE  Take(s, m) = Take(t, m)
BY DEF Take

\* A beginning and what follows it.
LEMMA TakeAppend ==
    ASSUME NEW t \in Seq(Nat), NEW a \in 0 .. Len(t), NEW b \in a .. Len(t)
    PROVE  Take(t, a) \o SubSeq(t, a + 1, b) = Take(t, b)
BY DEF Take

\* A prefix is a beginning, and a prefix of a prefix is one.
LEMMA PrefixTake ==
    ASSUME NEW s \in Seq(Nat), NEW t \in Seq(Nat)
    PROVE  IsPrefix(s, t) <=> Len(s) <= Len(t) /\ s = Take(t, Len(s))
BY DEF Take, IsPrefix

LEMMA PrefixTrans ==
    ASSUME NEW s \in Seq(Nat), NEW t \in Seq(Nat), NEW u \in Seq(Nat),
           IsPrefix(s, t), IsPrefix(t, u)
    PROVE  IsPrefix(s, u)
BY DEF IsPrefix

\* A beginning of a beginning.
LEMMA TakeTake ==
    ASSUME NEW t \in Seq(Nat), NEW b \in 0 .. Len(t), NEW a \in 0 .. b
    PROVE  /\ Take(t, a) \in Seq(Nat) /\ Take(t, b) \in Seq(Nat)
           /\ Len(Take(t, a)) = a /\ IsPrefix(Take(t, a), Take(t, b))
           /\ IsPrefix(Take(t, b), t)
<1>1. Len(t) \in Nat /\ a \in 0 .. Len(t)
  OBVIOUS
<1>2. /\ Take(t, a) \in Seq(Nat) /\ Len(Take(t, a)) = a
      /\ Take(t, b) \in Seq(Nat) /\ Len(Take(t, b)) = b
  BY <1>1, TakeFacts
<1>3. Take(Take(t, b), b) = Take(t, b) /\ b <= Len(t) /\ b \in Nat
  BY <1>1, <1>2, TakeFacts
<1>4. Take(Take(t, b), a) = Take(t, a)
  BY <1>2, <1>3, TakeShorter
<1>5. IsPrefix(Take(t, b), t)
  BY <1>2, <1>3, PrefixTake
<1>6. IsPrefix(Take(t, a), Take(t, b))
  BY <1>2, <1>4, PrefixTake
<1> QED
  BY <1>2, <1>5, <1>6

\* Common is the longest beginning that two sequences share.
LEMMA CommonFacts ==
    ASSUME NEW s \in Seq(Nat), NEW t \in Seq(Nat)
    PROVE  /\ Common(s, t) \in Nat /\ Common(s, t) <= Len(s) /\ Common(s, t) <= Len(t)
           /\ Take(s, Common(s, t)) = Take(t, Common(s, t))
           /\ \A m \in Nat : m <= Len(s) /\ m <= Len(t) /\ Take(s, m) = Take(t, m)
                             => m <= Common(s, t)
<1> DEFINE low == Min({Len(s), Len(t)})
           S == {n \in 0 .. low : Take(s, n) = Take(t, n)}
<1>1. Len(s) \in Nat /\ Len(t) \in Nat
  OBVIOUS
<1>2. low = IF Len(s) <= Len(t) THEN Len(s) ELSE Len(t)
  <2>1. \A a, b \in Int : Min({a, b}) = IF a <= b THEN a ELSE b
    BY MinOfTwo
  <2>2. Len(s) \in Int /\ Len(t) \in Int
    BY <1>1
  <2> QED
    BY <2>1, <2>2
<1>3. low \in Nat /\ low <= Len(s) /\ low <= Len(t)
  BY <1>1, <1>2
<1>4. \A m \in Nat : m <= Len(s) /\ m <= Len(t) => m \in 0 .. low
  BY <1>1, <1>2
<1> HIDE DEF low
<1>5. 0 \in S
  BY <1>3 DEF Take
<1>6. IsFiniteSet(S) /\ S \in SUBSET Int
  <2>1. S \in SUBSET (0 .. low)
    OBVIOUS
  <2>2. IsFiniteSet(0 .. low)
    BY <1>3, FS_Interval
  <2>3. IsFiniteSet(S)
    <3> HIDE DEF S
    <3> QED
      BY <2>1, <2>2, FS_Subset
  <2> QED
    BY <1>3, <2>3
<1>7. Common(s, t) = Max(S)
  BY DEF Common, low
<1>8. Max(S) \in S /\ \A x \in S : x <= Max(S)
  <2> HIDE DEF S
  <2> QED
    BY <1>5, <1>6, MaxFacts
<1>9. Common(s, t) \in S /\ \A x \in S : x <= Common(s, t)
  BY <1>7, <1>8
<1> QED
  BY <1>3, <1>4, <1>9

\* What an entry offers to a prompt: a beginning of both, short of the last token, and
\* all of the entry if the prompt strictly extends it.
LEMMA SharedFacts ==
    ASSUME NEW e \in Entries, NEW toks \in Seq(Nat), toks # <<>>
    PROVE  /\ Shared(e, toks) \in Nat /\ Shared(e, toks) <= Len(toks) - 1
           /\ Shared(e, toks) <= Len(e.toks)
           /\ Take(e.toks, Shared(e, toks)) = Take(toks, Shared(e, toks))
           /\ IsStrictPrefix(e.toks, toks) => Len(e.toks) <= Shared(e, toks)
<1>1. e.toks \in Seq(Nat) /\ Len(toks) \in Nat /\ Len(toks) # 0 /\ Len(e.toks) \in Nat
  BY DEF Entries
<1> DEFINE c == Common(e.toks, toks)
           t == e.toks
<1>2. /\ c \in Nat /\ c <= Len(t) /\ c <= Len(toks) /\ Take(t, c) = Take(toks, c)
      /\ \A m \in Nat : m <= Len(t) /\ m <= Len(toks) /\ Take(t, m) = Take(toks, m) => m <= c
  BY <1>1, CommonFacts
<1>3. Shared(e, toks) = IF c <= Len(toks) - 1 THEN c ELSE Len(toks) - 1
  <2>1. c \in Int /\ Len(toks) - 1 \in Int
    BY <1>1, <1>2
  <2> HIDE DEF c
  <2> QED
    BY <2>1, MinOfTwo DEF Shared, c
<1> HIDE DEF c, t
<1>4. Shared(e, toks) \in 0 .. c /\ Shared(e, toks) <= Len(toks) - 1
  BY <1>1, <1>2, <1>3
<1>5. Take(t, Shared(e, toks)) = Take(toks, Shared(e, toks))
  <2> DEFINE m == Shared(e, toks)
  <2>1. m \in 0 .. c /\ t \in Seq(Nat)
    BY <1>1, <1>4 DEF t
  <2> HIDE DEF m
  <2>2. Take(t, m) = Take(toks, m)
    BY <1>2, <2>1, TakeShorter
  <2> QED
    BY <2>2 DEF m
<1>6. ASSUME IsStrictPrefix(t, toks) PROVE Len(t) <= Shared(e, toks)
  <2>1. t \in Seq(Nat)
    BY <1>1 DEF t
  <2>2. Len(t) <= Len(toks) /\ t = Take(toks, Len(t)) /\ t # toks
    BY <1>6, <2>1, PrefixTake DEF IsStrictPrefix
  <2>3. Len(t) \in Nat /\ Take(t, Len(t)) = t /\ Take(toks, Len(toks)) = toks
    BY <1>1, <2>1 DEF Take
  <2>4. Len(t) # Len(toks)
    BY <2>2, <2>3
  <2>5. Len(t) <= c
    BY <1>2, <2>2, <2>3
  <2> QED
    BY <1>1, <1>2, <1>3, <2>2, <2>3, <2>4, <2>5
<1> QED
  BY <1>1, <1>2, <1>4, <1>5, <1>6 DEF t

-----------------------------------------------------------------------------
\* Scans.
LEMMA NewestIn ==
    ASSUME NEW L, Placed(L), NEW S \in SUBSET L, S # {}
    PROVE  Newest(S) \in S
<1> DEFINE r == [e \in S |-> e.born]
<1>1. IsFiniteSet(S)
  BY FS_Subset DEF Placed
<1>2. \A e \in S : r[e] \in Int /\ r[e] = e.born
  BY DEF Placed, Entries
<1>3. \E m \in S : \A e \in S : r[e] <= r[m]
  <2> HIDE DEF r
  <2> QED
    BY <1>1, <1>2, GreatestRank
<1>4. \E m \in S : \A d \in S : d.born <= m.born
  BY <1>2, <1>3
<1> QED
  BY <1>4 DEF Newest

\* I holds the figures that g gives to the members of S.
FiguresOf(I, g, S) == I = {g[e] : e \in S} /\ \A e \in S : g[e] \in Nat

\* The greatest of some figures over a finite set, or zero.
LEMMA GreatestOf ==
    ASSUME NEW S, IsFiniteSet(S), NEW g, NEW I, FiguresOf(I, g, S)
    PROVE  /\ Max({0} \cup I) \in Nat
           /\ \A e \in S : g[e] <= Max({0} \cup I)
           /\ Max({0} \cup I) # 0 => \E e \in S : g[e] = Max({0} \cup I)
<1> DEFINE M == {0} \cup I
<1>1. IsFiniteSet(I)
  BY FiniteImage DEF FiguresOf
<1>2. IsFiniteSet(M)
  <2>1. M = I \cup {0}
    OBVIOUS
  <2> HIDE DEF M
  <2> QED
    BY <1>1, <2>1, FS_AddElement
<1>3. M \in SUBSET Int /\ M # {} /\ M \subseteq Nat
  BY DEF FiguresOf
<1>4. Max(M) \in M /\ \A x \in M : x <= Max(M)
  <2> HIDE DEF M
  <2> QED
    BY <1>2, <1>3, MaxFacts
<1> QED
  BY <1>3, <1>4 DEF FiguresOf

\* The entry that engine_prefix_reuse settles on offers the most.
LEMMA BestFacts ==
    ASSUME NEW st, GoodStore(st), NEW toks \in Seq(Nat), toks # <<>>
    PROVE  /\ Best(st, toks) \in Nat
           /\ \A e \in st.list : Shared(e, toks) <= Best(st, toks)
           /\ Best(st, toks) # 0 =>
                 Hit(st, toks) \in st.list /\ Shared(Hit(st, toks), toks) = Best(st, toks)
<1> DEFINE g == [e \in st.list |-> Shared(e, toks)]
           b == Best(st, toks)
           S == {e \in st.list : Shared(e, toks) = b}
<1>1. IsFiniteSet(st.list) /\ st.list \subseteq Entries /\ Placed(st.list)
  BY DEF GoodStore, Placed
<1>2. \A e \in st.list : g[e] \in Nat /\ g[e] = Shared(e, toks)
  BY <1>1, SharedFacts
<1>3. {g[e] : e \in st.list} = {Shared(e, toks) : e \in st.list}
  BY <1>2
<1>4. b = Max({0} \cup {g[e] : e \in st.list})
  BY <1>3 DEF Best
<1>5. /\ b \in Nat /\ \A e \in st.list : g[e] <= b
      /\ b # 0 => \E e \in st.list : g[e] = b
  <2> DEFINE L == st.list
             I == {g[e] : e \in L}
             M == Max({0} \cup I)
  <2>1. \A e \in st.list : g[e] \in Nat
    BY <1>2
  <2>2. /\ M \in Nat /\ \A e \in st.list : g[e] <= M
        /\ M # 0 => \E e \in st.list : g[e] = M
    <3>1. FiguresOf(I, g, L)
      BY <2>1 DEF FiguresOf
    <3>2. IsFiniteSet(L)
      BY <1>1
    <3> HIDE DEF g, L, I
    <3>3. /\ M \in Nat /\ \A e \in L : g[e] <= M
          /\ M # 0 => \E e \in L : g[e] = M
      BY <3>1, <3>2, GreatestOf
    <3> QED
      BY <3>3 DEF L
  <2>3. b = M
    BY <1>4
  <2> HIDE DEF g, b, M
  <2> QED
    BY <2>2, <2>3
<1>6. ASSUME b # 0 PROVE Hit(st, toks) \in S
  <2>1. S \in SUBSET st.list /\ S # {}
    BY <1>2, <1>5, <1>6
  <2>2. Newest(S) \in S
    <3> HIDE DEF S
    <3> QED
      BY <1>1, <2>1, NewestIn
  <2> QED
    BY <2>2 DEF Hit
<1> QED
  BY <1>2, <1>5, <1>6
-----------------------------------------------------------------------------
\* The critical sections.  Each leaves a good store, loses no entry that is read and
\* no context but those of the given names.
Carries(st, st2, names) ==
    GoodStore(st2) /\ ReadersKept(st, st2) /\ PinsKept(st, st2, names)

\* Leaving the store alone loses nothing, and steps that lose nothing compose.
LEMMA CarriesSelf ==
    ASSUME NEW st, GoodStore(st), NEW names
    PROVE  Carries(st, st, names)
BY DEF Carries, ReadersKept, PinsKept

LEMMA CarriesOn ==
    ASSUME NEW st, NEW st1, NEW st2, NEW n1, NEW n2, NEW n3,
           Carries(st, st1, n1), Carries(st1, st2, n2), n1 \subseteq n3, n2 \subseteq n3
    PROVE  Carries(st, st2, n3)
<1>1. ReadersKept(st, st2)
  <2>1. ASSUME NEW e \in st.list \cup st.dropped, e.readers # {}
        PROVE  \E d \in st2.list \cup st2.dropped : d.readers = e.readers /\ d.toks = e.toks
    <3>1. PICK d \in st1.list \cup st1.dropped : d.readers = e.readers /\ d.toks = e.toks
      BY <2>1 DEF Carries, ReadersKept
    <3>2. PICK x \in st2.list \cup st2.dropped : x.readers = d.readers /\ x.toks = d.toks
      BY <2>1, <3>1 DEF Carries, ReadersKept
    <3> QED
      BY <3>1, <3>2
  <2> QED
    BY <2>1 DEF ReadersKept
<1>2. PinsKept(st, st2, n3)
  <2>1. ASSUME NEW e \in st.list, Pinned(e), e.name \notin n3
        PROVE  \E d \in st2.list : d.name = e.name /\ d.toks = e.toks
    <3>1. PICK d \in st1.list : d.name = e.name /\ d.toks = e.toks
      BY <2>1 DEF Carries, PinsKept
    <3>2. PICK x \in st2.list : x.name = d.name /\ x.toks = d.toks
      BY <2>1, <3>1 DEF Carries, PinsKept, Pinned
    <3> QED
      BY <3>1, <3>2
  <2> QED
    BY <2>1 DEF PinsKept
<1> QED
  BY <1>1, <1>2 DEF Carries

\* Dropping entries that are not pinned.
LEMMA DropUnpinned ==
    ASSUME fold \in Nat, NEW st, GoodStore(st), NEW out \in SUBSET st.list,
           \A e \in out : ~Pinned(e)
    PROVE  Carries(st, Drop(st, out), {}) /\ Drop(st, out).bytes <= st.bytes
<1>1. \A e \in out : Pinned(e) => e.name \in {}
  OBVIOUS
<1> QED
  BY <1>1, DropGood DEF Carries

\* pfx_expire and pfx_trim drop no pinned entry.
LEMMA ExpireGood ==
    ASSUME fold \in Nat, NEW st, GoodStore(st), NEW k
    PROVE  Carries(st, Expire(st, k), {}) /\ Expire(st, k).bytes <= st.bytes
<1> DEFINE out == {e \in st.list : e.used <= k /\ ~Pinned(e)}
<1>1. out \in SUBSET st.list /\ \A e \in out : ~Pinned(e)
  OBVIOUS
<1>2. Expire(st, k) = Drop(st, out)
  BY DEF Expire
<1> HIDE DEF out
<1> QED
  BY <1>1, <1>2, DropUnpinned

LEMMA TrimGood ==
    ASSUME fold \in Nat, NEW st, GoodStore(st), NEW need
    PROVE  Carries(st, Trim(st, need), {}) /\ Trim(st, need).bytes <= st.bytes
<1>1. PICK k : Trim(st, need) = Drop(st, Victims(st, k))
  BY DEF Trim
<1>2. Victims(st, k) \in SUBSET st.list /\ \A e \in Victims(st, k) : ~Pinned(e)
  BY DEF Victims, Evictable
<1> QED
  BY <1>1, <1>2, DropUnpinned

\* A use and an insertion drop nothing.
LEMMA TouchCarries ==
    ASSUME fold \in Nat, NEW st, GoodStore(st), NEW e \in st.list, NEW hit \in BOOLEAN
    PROVE  Carries(st, Touch(st, e, hit), {}) /\ Touch(st, e, hit).bytes = st.bytes
BY TouchGood DEF Carries

LEMMA InsertCarries ==
    ASSUME fold \in Nat, NEW st, GoodStore(st), NEW toks \in Seq(Nat),
           NEW name \in Names \cup {NoName}
    PROVE  /\ Carries(st, Insert(st, toks, toks, name), {})
           /\ Insert(st, toks, toks, name).bytes = st.bytes + EntryBytes(Len(toks))
BY InsertGood DEF Carries

\* engine_prefix_publish.
LEMMA PublishedGood ==
    ASSUME PrefixAssumption, fold \in Nat, NEW st, GoodStore(st), st.bytes <= Budget,
           NEW toks \in Seq(Nat), NEW alloc
    PROVE  /\ Carries(st, Published(st, toks, toks, alloc), {})
           /\ Published(st, toks, toks, alloc).bytes <= Budget
<1> DEFINE st1     == Drop(st, Superseded(st, toks))
           covers  == Covers(st1, toks)
           diverge == DivergeAt(st1, toks)
           alike   == {e \in st1.list : Common(e.toks, toks) >= diverge}
           need    == EntryBytes(Len(toks))
           st2     == Trim(st1, need)
           pub     == Published(st, toks, toks, alloc)
<1>1. Carries(st, st1, {}) /\ st1.bytes <= st.bytes
  <2>1. /\ Superseded(st, toks) \in SUBSET st.list
        /\ \A e \in Superseded(st, toks) : ~Pinned(e)
    BY DEF Superseded
  <2> QED
    BY <2>1, DropUnpinned
<1> HIDE DEF st1
<1>2. /\ GoodStore(st1) /\ Placed(st1.list) /\ st1.list \subseteq Entries
      /\ IsFiniteSet(st1.list) /\ st1.bytes \in Int
  BY <1>1 DEF Carries, GoodStore, Placed, Stores
<1>3. st.bytes \in Int /\ Budget \in Int
  BY DEF PrefixAssumption, GoodStore, Stores
<1>4. st1.bytes <= Budget
  BY <1>1, <1>2, <1>3
<1>5. Carries(st1, st2, {}) /\ st2.bytes <= st1.bytes
  BY <1>2, TrimGood
<1> HIDE DEF st2
<1>6. GoodStore(st2) /\ st2.bytes \in Int
  BY <1>5 DEF Carries, GoodStore, Stores
<1>7. \A e \in st1.list : e.hit \in BOOLEAN
  BY <1>2 DEF Entries
<1>8. CASE covers # {}
  <2>1. Newest(covers) \in st1.list
    <3>1. covers \in SUBSET st1.list
      BY DEF Covers
    <3>2. Newest(covers) \in covers
      <4> HIDE DEF covers
      <4> QED
        BY <1>2, <1>8, <3>1, NewestIn
    <3> HIDE DEF covers
    <3> QED
      BY <3>1, <3>2
  <2>2. pub = Touch(st1, Newest(covers), Newest(covers).hit)
    BY <1>8 DEF Published, st1
  <2>3. Newest(covers).hit \in BOOLEAN
    BY <1>7, <2>1
  <2> HIDE DEF covers, pub
  <2>4. Carries(st1, pub, {}) /\ pub.bytes = st1.bytes
    BY <1>2, <2>1, <2>2, <2>3, TouchCarries
  <2>5. Carries(st, pub, {})
    BY <1>1, <2>4, CarriesOn
  <2> QED
    BY <1>4, <2>4, <2>5 DEF pub
<1>9. CASE covers = {} /\ ~Recurrent /\ diverge >= MinTokens /\ diverge < Len(toks)
  <2> DEFINE far == {d \in st1.list : ~IsPrefix(toks, d.toks) /\ ~IsPrefix(d.toks, toks)}
             g == [e \in far |-> Common(e.toks, toks)]
             I == {g[e] : e \in far}
  <2>1. \A e \in far : Common(e.toks, toks) \in Nat /\ g[e] = Common(e.toks, toks)
    BY <1>2, CommonFacts DEF Entries
  <2>2. diverge = Max({0} \cup I)
    <3>1. I = {Common(e.toks, toks) : e \in far}
      BY <2>1
    <3> QED
      BY <3>1 DEF DivergeAt
  <2>3. FiguresOf(I, g, far)
    BY <2>1 DEF FiguresOf
  <2>4. IsFiniteSet(far) /\ far \subseteq st1.list
    <3>1. far \in SUBSET st1.list
      OBVIOUS
    <3> HIDE DEF far
    <3> QED
      BY <1>2, <3>1, FS_Subset
  <2> HIDE DEF far, g, I, diverge
  <2>5. diverge \in Nat /\ (diverge # 0 => \E e \in far : g[e] = diverge)
    BY <2>2, <2>3, <2>4, GreatestOf
  <2>6. diverge # 0
    BY <1>9, <2>5 DEF PrefixAssumption
  <2>7. alike \in SUBSET st1.list /\ alike # {}
    BY <2>1, <2>4, <2>5, <2>6
  <2>8. Newest(alike) \in st1.list
    <3>1. Newest(alike) \in alike
      <4> HIDE DEF alike
      <4> QED
        BY <1>2, <2>7, NewestIn
    <3> HIDE DEF alike
    <3> QED
      BY <2>7, <3>1
  <2>9. pub = Touch(st1, Newest(alike), Newest(alike).hit)
    BY <1>9 DEF Published, st1, diverge
  <2>10. Newest(alike).hit \in BOOLEAN
    BY <1>7, <2>8
  <2> HIDE DEF alike, pub
  <2>11. Carries(st1, pub, {}) /\ pub.bytes = st1.bytes
    BY <1>2, <2>8, <2>9, <2>10, TouchCarries
  <2>12. Carries(st, pub, {})
    BY <1>1, <2>11, CarriesOn
  <2> QED
    BY <1>4, <2>11, <2>12 DEF pub
<1>10. CASE /\ covers = {} /\ ~(~Recurrent /\ diverge >= MinTokens /\ diverge < Len(toks))
            /\ st2.bytes + need > Budget \/ ~alloc
  <2>1. pub = st2
    BY <1>10 DEF Published, st1, st2
  <2>2. Carries(st, st2, {})
    BY <1>1, <1>5, CarriesOn
  <2> HIDE DEF pub
  <2> QED
    BY <1>2, <1>3, <1>4, <1>5, <1>6, <2>1, <2>2 DEF pub
<1>11. CASE /\ covers = {} /\ ~(~Recurrent /\ diverge >= MinTokens /\ diverge < Len(toks))
            /\ ~(st2.bytes + need > Budget \/ ~alloc)
  <2>1. pub = Insert(st2, toks, toks, NoName)
    BY <1>11 DEF Published, st1, st2
  <2>2. need \in Int
    BY DEF EntryBytes
  <2> HIDE DEF pub
  <2>3. Carries(st2, pub, {}) /\ pub.bytes = st2.bytes + need
    BY <1>6, <2>1, InsertCarries
  <2> HIDE DEF need
  <2>4. Carries(st, st2, {})
    BY <1>1, <1>5, CarriesOn
  <2>5. Carries(st, pub, {})
    BY <2>3, <2>4, CarriesOn
  <2>6. pub.bytes <= Budget
    BY <1>3, <1>6, <1>11, <2>2, <2>3
  <2> QED
    BY <2>5, <2>6 DEF pub
<1> HIDE DEF covers, diverge, need
<1> QED
  BY <1>8, <1>9, <1>10, <1>11
-----------------------------------------------------------------------------
\* A slot's own cache.  What a reuse may install for a prompt: fewer tokens than the
\* prompt has, the rows of exactly these, and a turn mark among them.
Fitting(keep, rows, turn, toks) ==
    /\ keep \in 0 .. Len(toks) - 1
    /\ rows = Take(toks, keep)
    /\ turn \in Seq(Nat) /\ IsPrefix(turn, Take(toks, keep))

SlotRows(s) ==
    /\ hist[s] \in Seq(Nat) /\ mark[s] \in Seq(Nat)
    /\ state[s] = hist[s] /\ IsPrefix(mark[s], hist[s])

\* engine_rewind: whatever the history and the turn mark were.
LEMMA RewindFits ==
    ASSUME NEW s \in Slots, SlotRows(s), NEW toks \in Seq(Nat), toks # <<>>
    PROVE  Fitting(Rewind(s, toks).keep, Rewind(s, toks).state, Rewind(s, toks).mark, toks)
<1> DEFINE h == hist[s]
           m == mark[s]
           c == Common(h, toks)
           agree == Min({c, Len(toks) - 1})
           onMark == m # <<>> /\ Len(m) <= agree /\ IsPrefix(m, toks)
           keep == IF ~Recurrent \/ agree = Len(h) THEN agree
                   ELSE IF onMark THEN Len(m) ELSE 0
           rows == IF ~Recurrent \/ keep = Len(h) THEN Take(state[s], keep)
                   ELSE IF keep > 0 THEN m ELSE <<>>
           turn == IF Len(m) > keep THEN <<>> ELSE m
<1>1. /\ Rewind(s, toks).keep = keep /\ Rewind(s, toks).state = rows
      /\ Rewind(s, toks).mark = turn
  BY DEF Rewind
<1>2. /\ h \in Seq(Nat) /\ m \in Seq(Nat) /\ state[s] = h /\ IsPrefix(m, h)
      /\ Len(h) \in Nat /\ Len(m) \in Nat /\ Len(toks) \in Nat /\ Len(toks) # 0
  BY DEF SlotRows
<1>3. c \in Nat /\ c <= Len(h) /\ c <= Len(toks) /\ Take(h, c) = Take(toks, c)
  BY <1>2, CommonFacts
<1>4. agree = IF c <= Len(toks) - 1 THEN c ELSE Len(toks) - 1
  <2>1. c \in Int /\ Len(toks) - 1 \in Int
    BY <1>2, <1>3
  <2>2. \A a, b \in Int : Min({a, b}) = IF a <= b THEN a ELSE b
    BY MinOfTwo
  <2> HIDE DEF c
  <2> QED
    BY <2>1, <2>2
<1> HIDE DEF agree, c, h, m
<1>5. agree \in 0 .. c /\ agree <= Len(toks) - 1 /\ agree <= Len(h)
  BY <1>2, <1>3, <1>4
<1>6. \A n \in 0 .. agree : Take(h, n) = Take(toks, n)
  <2>1. ASSUME NEW n \in 0 .. agree PROVE Take(h, n) = Take(toks, n)
    <3>1. n \in 0 .. c
      BY <1>3, <1>5
    <3> QED
      BY <1>2, <1>3, <3>1, TakeShorter
  <2> QED
    BY <2>1
<1>7. Len(m) <= Len(h) /\ m = Take(h, Len(m))
  BY <1>2, PrefixTake
<1>8. keep \in 0 .. agree
  BY <1>2, <1>5
<1>9. keep \in 0 .. Len(toks) - 1
  BY <1>2, <1>3, <1>5, <1>8
<1>10. rows = Take(toks, keep)
  <2>1. CASE ~Recurrent \/ keep = Len(h)
    <3>1. rows = Take(h, keep)
      BY <1>2, <2>1
    <3> QED
      BY <1>6, <1>8, <3>1
  <2>2. CASE ~(~Recurrent \/ keep = Len(h)) /\ keep > 0
    <3>1. rows = m /\ onMark /\ keep = Len(m)
      BY <1>5, <2>2
    <3> QED
      BY <1>2, <3>1, PrefixTake
  <2>3. CASE ~(~Recurrent \/ keep = Len(h)) /\ ~(keep > 0)
    <3>1. rows = <<>> /\ keep = 0
      BY <1>8, <1>5, <1>3, <2>3
    <3>2. Take(toks, 0) = <<>>
      BY DEF Take
    <3> HIDE DEF keep, rows
    <3> QED
      BY <3>1, <3>2
  <2> QED
    BY <2>1, <2>2, <2>3
<1> HIDE DEF keep, rows
<1>11. Take(toks, keep) \in Seq(Nat) /\ Len(Take(toks, keep)) = keep
  BY <1>9, <1>2 DEF Take
<1>12. turn \in Seq(Nat) /\ IsPrefix(turn, Take(toks, keep))
  <2>1. CASE Len(m) > keep
    <3>1. turn = <<>> /\ <<>> \in Seq(Nat) /\ Len(<<>>) = 0
      BY <2>1
    <3>2. IsPrefix(<<>>, Take(toks, keep))
      BY <1>11 DEF IsPrefix
    <3> QED
      BY <3>1, <3>2
  <2>2. CASE ~(Len(m) > keep)
    <3>1. turn = m /\ Len(m) <= keep /\ Len(m) \in 0 .. agree /\ keep <= Len(toks)
      BY <1>2, <1>3, <1>5, <1>8, <1>9, <2>2
    <3>2. m = Take(toks, Len(m))
      BY <1>6, <1>7, <3>1
    <3>3. Take(Take(toks, keep), Len(m)) = Take(toks, Len(m))
      BY <1>2, <1>9, <1>11, <3>1 DEF Take
    <3> QED
      BY <1>2, <1>11, <3>1, <3>2, <3>3, PrefixTake
  <2> QED
    BY <2>1, <2>2
<1> HIDE DEF turn
<1> QED
  BY <1>1, <1>9, <1>10, <1>12 DEF Fitting

\* engine_prefix_reuse: what it installs fits the prompt, and a context that the prompt
\* extends is forked at least as a whole, unless a fold is in the way.
LEMMA ReuseFits ==
    ASSUME PrefixAssumption, fold \in Nat, GoodStore(Store), bytes <= Budget,
           NEW s \in Slots, SlotRows(s), NEW toks \in Seq(Nat), toks # <<>>, NEW k
    PROVE  /\ Fitting(Reuse(s, toks, k).keep, Reuse(s, toks, k).state,
                      Reuse(s, toks, k).mark, toks)
           /\ Carries(Store, Reuse(s, toks, k).store, {})
           /\ Reuse(s, toks, k).store.bytes <= Budget
           /\ \A e \in list : /\ Pinned(e) /\ IsStrictPrefix(e.toks, toks)
                              /\ Len(e.toks) >= MinTokens /\ ~Recurrent
                              => Len(e.toks) <= Reuse(s, toks, k).keep
<1> DEFINE own == Rewind(s, toks)
           st == IF Len(toks) < 2 THEN Store ELSE Expire(Store, k)
           best == Best(st, toks)
           e == Hit(st, toks)
           r == Reuse(s, toks, k)
           forks == Len(toks) >= 2 /\ Forkable(st, toks, own.keep)
<1>1. Fitting(own.keep, own.state, own.mark, toks)
  BY RewindFits
<1>2. Store.bytes = bytes /\ Store.list = list /\ bytes \in Int /\ Budget \in Int
  BY DEF Store, GoodStore, Stores, PrefixAssumption
<1>3. Carries(Store, st, {}) /\ st.bytes <= Budget
  <2>1. CASE Len(toks) < 2
    BY <1>2, <2>1, CarriesSelf
  <2>2. CASE ~(Len(toks) < 2)
    <3>1. st = Expire(Store, k)
      BY <2>2
    <3>2. Carries(Store, st, {}) /\ st.bytes <= Store.bytes
      BY <3>1, ExpireGood
    <3>3. st.bytes \in Int
      BY <3>2 DEF Carries, GoodStore, Stores
    <3> HIDE DEF st
    <3> QED
      BY <1>2, <3>2, <3>3
  <2> QED
    BY <2>1, <2>2
<1>4. /\ forks => /\ r.keep = best /\ r.mark = own.mark /\ r.store = Touch(st, e, TRUE)
                  /\ r.state = IF Recurrent THEN e.kv ELSE Take(e.kv, best)
      /\ ~forks => /\ r.keep = own.keep /\ r.mark = own.mark /\ r.state = own.state
                   /\ r.store = st
  BY DEF Reuse
<1> HIDE DEF st, own, r
<1>5. GoodStore(st) /\ st.list \subseteq Entries
  BY <1>3 DEF Carries, GoodStore, Stores
<1>6. /\ best \in Nat /\ \A d \in st.list : Shared(d, toks) <= best
      /\ best # 0 => e \in st.list /\ Shared(e, toks) = best
  BY <1>5, BestFacts
<1>7. forks => /\ best >= MinTokens /\ best > own.keep /\ best # 0
               /\ (~Recurrent \/ best = Len(e.toks))
  BY <1>6 DEF Forkable, Sliceable, PrefixAssumption
<1>8. own.keep \in 0 .. Len(toks) - 1 /\ own.mark \in Seq(Nat) /\ Len(toks) \in Nat
      /\ IsPrefix(own.mark, Take(toks, own.keep))
  BY <1>1 DEF Fitting
<1>9. ASSUME forks
      PROVE  /\ Fitting(r.keep, r.state, r.mark, toks)
             /\ Carries(Store, r.store, {}) /\ r.store.bytes <= Budget
  <2>1. e \in st.list /\ Shared(e, toks) = best /\ e \in Entries
    BY <1>5, <1>6, <1>7, <1>9
  <2> HIDE DEF best, e, forks
  <2>2. /\ best <= Len(toks) - 1 /\ best <= Len(e.toks) /\ Take(e.toks, best) = Take(toks, best)
    BY <2>1, SharedFacts
  <2>3. e.kv = e.toks /\ e.toks \in Seq(Nat)
    BY <1>5, <2>1 DEF GoodStore, Entries
  <2>4. r.state = Take(toks, best)
    <3>1. CASE Recurrent
      <4>1. r.state = e.toks /\ best = Len(e.toks)
        BY <1>4, <1>7, <1>9, <2>3, <3>1
      <4>2. Take(e.toks, Len(e.toks)) = e.toks
        BY <2>3 DEF Take
      <4> QED
        BY <2>2, <4>1, <4>2
    <3>2. CASE ~Recurrent
      BY <1>4, <1>9, <2>2, <2>3, <3>2
    <3> QED
      BY <3>1, <3>2
  <2>5. IsPrefix(own.mark, Take(toks, best))
    <3> DEFINE a == own.keep
    <3>1. best \in 0 .. Len(toks) /\ a \in 0 .. best
      BY <1>6, <1>7, <1>8, <1>9, <2>2
    <3> HIDE DEF a
    <3>2. /\ Take(toks, a) \in Seq(Nat) /\ Take(toks, best) \in Seq(Nat)
          /\ IsPrefix(Take(toks, a), Take(toks, best))
      BY <3>1, TakeTake
    <3>3. IsPrefix(own.mark, Take(toks, a))
      BY <1>8 DEF a
    <3> QED
      BY <1>8, <3>2, <3>3, PrefixTrans
  <2>6. Fitting(r.keep, r.state, r.mark, toks)
    <3>1. r.keep = best /\ r.mark = own.mark /\ best \in 0 .. Len(toks) - 1
      BY <1>4, <1>6, <1>8, <1>9, <2>2
    <3> QED
      BY <1>8, <2>4, <2>5, <3>1 DEF Fitting
  <2>7. Carries(st, r.store, {}) /\ r.store.bytes = st.bytes
    <3>1. r.store = Touch(st, e, TRUE)
      BY <1>4, <1>9
    <3>2. TRUE \in BOOLEAN
      OBVIOUS
    <3>3. GoodStore(st) /\ e \in st.list
      BY <1>5, <2>1
    <3>4. Carries(st, Touch(st, e, TRUE), {}) /\ Touch(st, e, TRUE).bytes = st.bytes
      BY <3>2, <3>3, TouchCarries
    <3> QED
      BY <3>1, <3>4
  <2>8. Carries(Store, r.store, {}) /\ r.store.bytes <= Budget
    BY <1>3, <2>7, CarriesOn
  <2> QED
    BY <2>6, <2>8
<1>10. ASSUME ~forks
       PROVE  /\ Fitting(r.keep, r.state, r.mark, toks)
              /\ Carries(Store, r.store, {}) /\ r.store.bytes <= Budget
  <2>1. r.keep = own.keep /\ r.mark = own.mark /\ r.state = own.state /\ r.store = st
    BY <1>4, <1>10
  <2> QED
    BY <1>1, <1>3, <2>1
<1>11. ASSUME NEW d \in list, Pinned(d), IsStrictPrefix(d.toks, toks),
              Len(d.toks) >= MinTokens, ~Recurrent
       PROVE  Len(d.toks) <= r.keep
  <2>1. PICK x \in st.list : x.toks = d.toks
    BY <1>2, <1>3, <1>11 DEF Carries, PinsKept
  <2>2. x \in Entries
    BY <1>5
  <2>3. Len(x.toks) <= Shared(x, toks) /\ Shared(x, toks) \in Nat /\ Shared(x, toks) <= Len(toks) - 1
    BY <1>11, <2>1, <2>2, SharedFacts
  <2>4. Len(x.toks) \in Nat /\ MinTokens \in Nat /\ MinTokens # 0
    BY <2>2 DEF Entries, PrefixAssumption
  <2>5. Len(x.toks) <= best /\ best >= MinTokens /\ Len(toks) >= 2
    <3>1. Len(x.toks) >= MinTokens
      BY <1>11, <2>1
    <3>2. Shared(x, toks) <= best
      BY <1>6, <2>1
    <3>3. \A lx, sh, b, lt, low \in Int :
             lx <= sh /\ sh <= lt - 1 /\ sh <= b /\ lx >= low /\ low >= 1
             => lx <= b /\ b >= low /\ lt >= 2
      OBVIOUS
    <3> HIDE DEF best
    <3>4. /\ Len(x.toks) \in Int /\ Shared(x, toks) \in Int /\ best \in Int
          /\ Len(toks) \in Int /\ MinTokens \in Int /\ MinTokens >= 1
      BY <1>6, <1>8, <2>3, <2>4
    <3> QED
      BY <2>3, <3>1, <3>2, <3>3, <3>4
  <2>6. best > own.keep => forks
    BY <1>11, <2>5 DEF Forkable, Sliceable
  <2>7. CASE best > own.keep
    BY <1>4, <2>1, <2>5, <2>6, <2>7
  <2>8. CASE ~(best > own.keep)
    <3>1. r.keep = own.keep
      BY <1>4, <1>7, <2>8
    <3>2. /\ Len(x.toks) \in Int /\ best \in Int /\ own.keep \in Int
          /\ Len(d.toks) = Len(x.toks)
      BY <1>6, <1>8, <2>1, <2>4
    <3> HIDE DEF best
    <3> QED
      BY <2>5, <2>8, <3>1, <3>2
  <2> QED
    BY <2>7, <2>8
<1> QED
  BY <1>9, <1>10, <1>11 DEF r
-----------------------------------------------------------------------------
\* The inductive invariant.
Phases == {"idle", "fork", "refused", "feed", "generate", "pin", "export"}
Requests == [toks : Seq(Nat), name : Names \cup {NoName}, len : Nat, mode : AllModes]

SlotTypes ==
    /\ fold \in Folds /\ gone \subseteq Slots
    /\ pc \in [Slots -> Phases] /\ req \in [Slots -> Requests]
    /\ hist \in [Slots -> Seq(Nat)] /\ state \in [Slots -> Seq(Nat)]
    /\ mark \in [Slots -> Seq(Nat)]

\* Between the fork and the feed a slot holds part of its prompt, and never all of it.
FedRight(p, q, h) ==
    /\ p \in {"fork", "feed", "pin"} => q.toks # <<>>
    /\ p \in {"feed", "pin"} => /\ IsPrefix(h, q.toks) /\ Len(h) < Len(q.toks)
                                /\ q.mode = "score" => h = <<>>
    /\ p = "pin" => q.name \in Names

\* The context that a request has checked: pinned, and the beginning of its prompt.
ContextIn(L, q) ==
    \E e \in L : /\ e.name = q.name /\ Len(e.toks) = q.len
                 /\ IsStrictPrefix(e.toks, q.toks)

\* A request that waits for its fork finds the context it checked, unless that was
\* taken from it.
ContextHeld(s) ==
    pc[s] = "fork" /\ req[s].name # NoName =>
        req[s].mode = "share" /\ (s \in gone \/ ContextIn(list, req[s]))

ReadBy(s, S, toks) == \E e \in S : s \in e.readers /\ e.toks = toks

Reading(s) == pc[s] = "export" => ReadBy(s, list \cup dropped, req[s].toks)

PrefixInv ==
    /\ SlotTypes /\ GoodStore(Store) /\ bytes <= Budget
    /\ \A s \in Slots : /\ SlotRows(s) /\ FedRight(pc[s], req[s], hist[s])
                        /\ ContextHeld(s) /\ Reading(s)

-----------------------------------------------------------------------------
\* The books do not change while the model stays.
LEMMA StoreStays ==
    ASSUME NEW st, GoodStore(st), Becomes(st)
    PROVE  GoodStore(Store)'
<1>1. Store' = st /\ fold' = fold
  BY DEF Becomes, Store, GoodStore, Stores
<1>2. \A L : [e \in L |-> Size(e)'] = [e \in L |-> Size(e)]
  BY <1>1 DEF Size, EntryBytes
<1>3. Store.bytes' = Bytes(Store.list')
  BY <1>1 DEF GoodStore
<1>4. Bytes(Store.list)' = Bytes(Store.list')
  BY <1>2 DEF Bytes
<1> QED
  BY <1>1, <1>3, <1>4 DEF GoodStore, Stores, Placed, Entries

\* A step leaves the contexts of other requests, and the entries other slots read.
StoreKept(st, names) ==
    /\ GoodStore(st) /\ st.bytes <= Budget
    /\ PinsKept(Store, st, names)

OthersRead(done, st) ==
    \A d \in Slots : d \notin done /\ pc[d] = "export" =>
        ReadBy(d, st.list \cup st.dropped, req[d].toks)

OthersGone(done, names) ==
    /\ gone' \subseteq Slots
    /\ \A d \in Slots : d \notin done /\ d \notin gone' =>
          d \notin gone /\ ~(pc[d] = "fork" /\ req[d].name \in names)

\* A step that loses no entry that is read leaves the exports theirs.
LEMMA CarriesReaders ==
    ASSUME PrefixInv, NEW st, NEW names, Carries(Store, st, names), NEW done
    PROVE  OthersRead(done, st)
<1>1. ASSUME NEW d \in Slots, pc[d] = "export"
      PROVE  ReadBy(d, st.list \cup st.dropped, req[d].toks)
  <2>1. PICK e \in list \cup dropped : d \in e.readers /\ e.toks = req[d].toks
    BY <1>1 DEF PrefixInv, Reading, ReadBy
  <2>2. e \in Store.list \cup Store.dropped /\ e.readers # {}
    BY <2>1 DEF Store
  <2>3. PICK x \in st.list \cup st.dropped : x.readers = e.readers /\ x.toks = e.toks
    BY <2>2 DEF Carries, ReadersKept
  <2> QED
    BY <2>1, <2>3 DEF ReadBy
<1> QED
  BY <1>1 DEF OthersRead

\* What holds of a slot that a step does not touch.
LEMMA OtherSlot ==
    ASSUME PrefixInv, NEW st, NEW names, NEW done, StoreKept(st, names),
           OthersRead(done, st), OthersGone(done, names), Becomes(st),
           NEW d \in Slots, d \notin done,
           pc'[d] = pc[d], req'[d] = req[d], hist'[d] = hist[d], state'[d] = state[d],
           mark'[d] = mark[d]
    PROVE  /\ SlotRows(d)' /\ FedRight(pc[d], req[d], hist[d])'
           /\ ContextHeld(d)' /\ Reading(d)'
<1>1. SlotRows(d)'
  BY DEF PrefixInv, SlotRows
<1>2. FedRight(pc[d], req[d], hist[d])'
  BY DEF PrefixInv, FedRight
<1>3. ContextHeld(d)'
  <2>1. ASSUME pc[d] = "fork", req[d].name # NoName, d \notin gone'
        PROVE  ContextIn(list', req[d])
    <3>1. d \notin gone /\ req[d].name \notin names
      BY <2>1 DEF OthersGone
    <3>2. PICK e \in list : /\ e.name = req[d].name /\ Len(e.toks) = req[d].len
                            /\ IsStrictPrefix(e.toks, req[d].toks)
      BY <2>1, <3>1 DEF PrefixInv, ContextHeld, ContextIn
    <3>3. PICK x \in st.list : x.name = e.name /\ x.toks = e.toks
      BY <2>1, <3>1, <3>2 DEF StoreKept, PinsKept, Store, Pinned
    <3>4. x \in list'
      BY DEF Becomes
    <3> QED
      BY <3>2, <3>3, <3>4 DEF ContextIn
  <2>2. pc[d] = "fork" /\ req[d].name # NoName => req[d].mode = "share"
    BY DEF PrefixInv, ContextHeld
  <2>3. ContextIn(list, req[d])' <=> ContextIn(list', req[d])
    BY DEF ContextIn
  <2> QED
    BY <2>1, <2>2, <2>3 DEF ContextHeld
<1>4. Reading(d)'
  BY DEF OthersRead, Becomes, Reading, ReadBy
<1> QED
  BY <1>1, <1>2, <1>3, <1>4

\* A step of one slot on the store.
SlotStep(s, p, q, h, m, st, names) ==
    /\ pc' = [pc EXCEPT ![s] = p] /\ req' = [req EXCEPT ![s] = q]
    /\ hist' = [hist EXCEPT ![s] = h] /\ state' = [state EXCEPT ![s] = h]
    /\ mark' = [mark EXCEPT ![s] = m]
    /\ Becomes(st) /\ StoreKept(st, names)
    /\ OthersRead({s}, st) /\ OthersGone({s}, names)
    /\ p \in Phases /\ q \in Requests /\ h \in Seq(Nat) /\ m \in Seq(Nat) /\ IsPrefix(m, h)
    /\ FedRight(p, q, h)
    /\ p = "fork" /\ q.name # NoName =>
          q.mode = "share" /\ (s \in gone' \/ ContextIn(st.list, q))
    /\ p = "export" => ReadBy(s, st.list \cup st.dropped, q.toks)

\* Such a step preserves the invariant.
LEMMA SlotStepInv ==
    ASSUME PrefixInv, NEW s \in Slots, NEW p, NEW q, NEW h, NEW m, NEW st, NEW names,
           SlotStep(s, p, q, h, m, st, names)
    PROVE  PrefixInv'
<1>1. SlotTypes'
  <2>1. pc' \in [Slots -> Phases] /\ req' \in [Slots -> Requests]
    BY DEF PrefixInv, SlotTypes, SlotStep
  <2>2. /\ hist' \in [Slots -> Seq(Nat)] /\ state' \in [Slots -> Seq(Nat)]
        /\ mark' \in [Slots -> Seq(Nat)]
    BY DEF PrefixInv, SlotTypes, SlotStep
  <2>3. fold' \in Folds /\ gone' \subseteq Slots
    BY DEF PrefixInv, SlotTypes, SlotStep, Becomes, OthersGone
  <2>4. Requests' = Requests
    BY DEF Requests
  <2> QED
    BY <2>1, <2>2, <2>3 DEF SlotTypes, Requests
<1>2. GoodStore(Store)'
  BY StoreStays DEF SlotStep, StoreKept
<1>3. bytes' <= Budget
  BY DEF SlotStep, StoreKept, Becomes
<1>4. /\ pc'[s] = p /\ req'[s] = q /\ hist'[s] = h /\ state'[s] = h /\ mark'[s] = m
  BY DEF PrefixInv, SlotTypes, SlotStep
<1>5. /\ SlotRows(s)' /\ FedRight(pc[s], req[s], hist[s])'
      /\ ContextHeld(s)' /\ Reading(s)'
  <2>1. SlotRows(s)'
    BY <1>4 DEF SlotStep, SlotRows
  <2>2. FedRight(pc[s], req[s], hist[s])'
    BY <1>4 DEF SlotStep, FedRight
  <2>3. list' = st.list /\ dropped' = st.dropped
    BY DEF SlotStep, Becomes
  <2>4. ContextIn(list, req[s])' <=> ContextIn(st.list, q)
    BY <1>4, <2>3 DEF ContextIn
  <2>5. ContextHeld(s)'
    BY <1>4, <2>4 DEF SlotStep, ContextHeld
  <2>6. Reading(s)'
    BY <1>4, <2>3 DEF SlotStep, Reading, ReadBy
  <2> QED
    BY <2>1, <2>2, <2>5, <2>6
<1>6. ASSUME NEW d \in Slots, d # s
      PROVE  /\ SlotRows(d)' /\ FedRight(pc[d], req[d], hist[d])'
             /\ ContextHeld(d)' /\ Reading(d)'
  <2>1. /\ pc'[d] = pc[d] /\ req'[d] = req[d] /\ hist'[d] = hist[d] /\ state'[d] = state[d]
        /\ mark'[d] = mark[d] /\ d \notin {s}
    BY <1>6 DEF PrefixInv, SlotTypes, SlotStep
  <2>2. /\ StoreKept(st, names) /\ OthersRead({s}, st) /\ OthersGone({s}, names) /\ Becomes(st)
    BY DEF SlotStep
  <2> QED
    BY <2>1, <2>2, OtherSlot
<1>7. \A d \in Slots : /\ SlotRows(d)' /\ FedRight(pc[d], req[d], hist[d])'
                       /\ ContextHeld(d)' /\ Reading(d)'
  BY <1>5, <1>6
<1> QED
  BY <1>1, <1>2, <1>3, <1>7 DEF PrefixInv

\* A step of no slot.
LEMMA StoreStepInv ==
    ASSUME PrefixInv, NEW st, NEW names, Carries(Store, st, names), st.bytes <= Budget,
           Becomes(st), OthersGone({}, names), UNCHANGED <<pc, req, slotVars>>
    PROVE  PrefixInv'
<1>1. StoreKept(st, names) /\ OthersRead({}, st) /\ GoodStore(st)
  BY CarriesReaders DEF Carries, StoreKept
<1>2. SlotTypes'
  BY DEF PrefixInv, SlotTypes, slotVars, Becomes, OthersGone, Requests
<1>3. GoodStore(Store)'
  BY <1>1, StoreStays
<1>4. bytes' <= Budget
  BY DEF Becomes
<1>5. ASSUME NEW d \in Slots
      PROVE  /\ SlotRows(d)' /\ FedRight(pc[d], req[d], hist[d])'
             /\ ContextHeld(d)' /\ Reading(d)'
  <2>1. /\ pc'[d] = pc[d] /\ req'[d] = req[d] /\ hist'[d] = hist[d] /\ state'[d] = state[d]
        /\ mark'[d] = mark[d] /\ d \notin {}
    BY DEF slotVars
  <2> QED
    BY <1>1, <2>1, OtherSlot
<1> QED
  BY <1>2, <1>3, <1>4, <1>5 DEF PrefixInv
-----------------------------------------------------------------------------
\* Facts that the cases of a step share.
LEMMA FoldNat ==
    ASSUME PrefixInv
    PROVE  fold \in Nat
BY PrefixAssumption DEF PrefixInv, SlotTypes, PrefixAssumption

\* A step that leaves the store, or the history of lost contexts, alone.
LEMMA StoreUnchanged ==
    ASSUME PrefixInv, UNCHANGED storeVars, NEW done
    PROVE  Becomes(Store) /\ StoreKept(Store, {}) /\ OthersRead(done, Store)
<1>1. Becomes(Store)
  BY DEF Becomes, Store, storeVars
<1>2. GoodStore(Store) /\ Carries(Store, Store, {}) /\ Store.bytes <= Budget
  BY CarriesSelf DEF PrefixInv, Store
<1> QED
  BY <1>1, <1>2, CarriesReaders DEF StoreKept, Carries

LEMMA GoneUnchanged ==
    ASSUME PrefixInv, UNCHANGED gone, NEW done
    PROVE  OthersGone(done, {})
BY DEF OthersGone, PrefixInv, SlotTypes

\* A step that changes the store without losing anything.
LEMMA StoreChanged ==
    ASSUME PrefixInv, NEW st, NEW names, Carries(Store, st, names), st.bytes <= Budget, NEW done
    PROVE  StoreKept(st, names) /\ OthersRead(done, st)
BY CarriesReaders DEF Carries, StoreKept

\* A step that leaves the slots alone, and the type of a request.
LEMMA SlotUnchanged ==
    ASSUME PrefixInv, NEW s \in Slots, UNCHANGED slotVars
    PROVE  /\ hist' = [hist EXCEPT ![s] = hist[s]] /\ state' = [state EXCEPT ![s] = hist[s]]
           /\ mark' = [mark EXCEPT ![s] = mark[s]]
           /\ hist[s] \in Seq(Nat) /\ mark[s] \in Seq(Nat) /\ IsPrefix(mark[s], hist[s])
<1>1. SlotRows(s) /\ SlotTypes
  BY DEF PrefixInv
<1> QED
  BY <1>1 DEF SlotRows, SlotTypes, slotVars

LEMMA ReqTypes ==
    ASSUME PrefixInv, NEW s \in Slots
    PROVE  /\ req[s] \in Requests /\ req[s].toks \in Seq(Nat) /\ req[s].len \in Nat
           /\ req[s].name \in Names \cup {NoName} /\ req[s].mode \in AllModes
           /\ req' = req => req' = [req EXCEPT ![s] = req[s]]
BY DEF PrefixInv, SlotTypes, Requests

\* The requests that the actions build.
LEMMA NoReqType ==
    /\ NoReq \in Requests
    /\ \A toks \in Seq(Nat), mode \in AllModes :
          [NoReq EXCEPT !.toks = toks, !.mode = mode] \in Requests
    /\ \A toks \in Seq(Nat), name \in Names \cup {NoName} :
          [NoReq EXCEPT !.toks = toks, !.name = name] \in Requests
<1>1. NoReq \in Requests
  BY DEF NoReq, Requests, AllModes
<1> QED
  BY <1>1 DEF Requests

\* A request begins.
LEMMA BeginInv ==
    ASSUME PrefixInv, NEW s \in Slots, Begin(s)
    PROVE  PrefixInv'
<1>1. PICK toks \in Prompts, mode \in Modes :
         req' = [req EXCEPT ![s] = [NoReq EXCEPT !.toks = toks, !.mode = mode]]
  BY DEF Begin
<1> DEFINE q == [NoReq EXCEPT !.toks = toks, !.mode = mode]
<1>2. toks \in Seq(Nat) /\ toks # <<>> /\ mode \in AllModes
  BY PrefixAssumption DEF PrefixAssumption
<1>3. q \in Requests /\ q.toks = toks /\ q.name = NoName
  BY <1>2, NoReqType DEF NoReq
<1>4. req' = [req EXCEPT ![s] = q]
  BY <1>1
<1> HIDE DEF q
<1>5. FedRight("fork", q, hist[s])
  BY <1>2, <1>3 DEF FedRight
<1>6. SlotStep(s, "fork", q, hist[s], mark[s], Store, {})
  BY <1>3, <1>4, <1>5, StoreUnchanged, GoneUnchanged, SlotUnchanged
     DEF SlotStep, Begin, Goto, Phases
<1> QED
  BY <1>6, SlotStepInv

\* prefix_context_check found the context, which is thus there to be forked.
LEMMA BeginNamedInv ==
    ASSUME PrefixInv, NEW s \in Slots, BeginNamed(s)
    PROVE  PrefixInv'
<1>1. PICK toks \in Prompts, e \in {d \in list : Pinned(d)} :
         /\ IsStrictPrefix(e.toks, toks)
         /\ req' = [req EXCEPT ![s] = [toks |-> toks, name |-> e.name,
                                       len |-> Len(e.toks), mode |-> "share"]]
  BY DEF BeginNamed
<1> DEFINE q == [toks |-> toks, name |-> e.name, len |-> Len(e.toks), mode |-> "share"]
<1>2. toks \in Seq(Nat) /\ toks # <<>>
  BY PrefixAssumption DEF PrefixAssumption
<1>3. e \in list /\ e \in Entries
  BY DEF PrefixInv, GoodStore, Stores, Store
<1>4. q \in Requests /\ q.toks = toks /\ q.mode = "share" /\ q.name = e.name
      /\ q.len = Len(e.toks)
  BY <1>2, <1>3 DEF Requests, Entries, AllModes
<1>5. req' = [req EXCEPT ![s] = q]
  BY <1>1
<1> HIDE DEF q
<1>6. FedRight("fork", q, hist[s])
  BY <1>2, <1>4 DEF FedRight
<1>7. ContextIn(Store.list, q)
  BY <1>1, <1>3, <1>4 DEF ContextIn, Store
<1>8. SlotStep(s, "fork", q, hist[s], mark[s], Store, {})
  BY <1>4, <1>5, <1>6, <1>7, StoreUnchanged, GoneUnchanged, SlotUnchanged
     DEF SlotStep, BeginNamed, Goto, Phases
<1> QED
  BY <1>8, SlotStepInv

\* A refusal changes nothing but the slot.
LEMMA RefuseInv ==
    ASSUME PrefixInv, NEW s \in Slots, Refuse(s)
    PROVE  PrefixInv'
<1>1. FedRight("idle", NoReq, hist[s])
  BY DEF FedRight
<1>2. SlotStep(s, "idle", NoReq, hist[s], mark[s], Store, {})
  BY <1>1, NoReqType, StoreUnchanged, GoneUnchanged, SlotUnchanged
     DEF SlotStep, Refuse, Finish, Goto, Phases
<1> QED
  BY <1>2, SlotStepInv

\* What a slot installs is what a reuse keeps.
LEMMA KeptFits ==
    ASSUME PrefixInv, NEW s \in Slots, pc[s] = "fork", NEW k
    PROVE  /\ Fitting(Kept(s, k).keep, Kept(s, k).state, Kept(s, k).mark, req[s].toks)
           /\ Carries(Store, Kept(s, k).store, {}) /\ Kept(s, k).store.bytes <= Budget
           /\ req[s].mode = "score" => Kept(s, k).keep = 0
           /\ req[s].name # NoName /\ s \notin gone /\ req[s].len >= MinTokens /\ ~Recurrent
              => req[s].len <= Kept(s, k).keep
<1> DEFINE toks == req[s].toks
           own == Rewind(s, toks)
           r == Kept(s, k)
<1>1. /\ toks \in Seq(Nat) /\ req[s].mode \in AllModes /\ toks # <<>>
      /\ SlotRows(s) /\ GoodStore(Store) /\ bytes <= Budget /\ Store.bytes = bytes
  BY ReqTypes DEF PrefixInv, FedRight, Store
<1>2. PrefixAssumption /\ fold \in Nat
  BY PrefixAssumption, FoldNat
<1>3. Carries(Store, Store, {})
  BY <1>1, CarriesSelf
<1>4. CASE req[s].mode = "share"
  <2>1. r = Reuse(s, toks, k)
    BY <1>4 DEF Kept
  <2> HIDE DEF toks, r
  <2>2. /\ Fitting(r.keep, r.state, r.mark, toks)
        /\ Carries(Store, r.store, {}) /\ r.store.bytes <= Budget
        /\ \A e \in list : /\ Pinned(e) /\ IsStrictPrefix(e.toks, toks)
                           /\ Len(e.toks) >= MinTokens /\ ~Recurrent
                           => Len(e.toks) <= r.keep
    BY <1>1, <1>2, <2>1, ReuseFits
  <2>3. ASSUME req[s].name # NoName, s \notin gone, req[s].len >= MinTokens, ~Recurrent
        PROVE  req[s].len <= r.keep
    <3>1. PICK e \in list : /\ e.name = req[s].name /\ Len(e.toks) = req[s].len
                            /\ IsStrictPrefix(e.toks, toks)
      BY <2>3 DEF PrefixInv, ContextHeld, ContextIn, toks
    <3> QED
      BY <2>2, <2>3, <3>1 DEF Pinned
  <2>4. req[s].mode # "score"
    BY <1>4
  <2> QED
    BY <2>2, <2>3, <2>4 DEF r, toks
<1>5. CASE req[s].mode = "own"
  <2>1. /\ r.keep = own.keep /\ r.state = own.state /\ r.mark = own.mark /\ r.store = Store
    BY <1>5 DEF Kept
  <2>2. Fitting(own.keep, own.state, own.mark, toks)
    BY <1>1, RewindFits
  <2>3. req[s].name = NoName
    BY <1>5 DEF PrefixInv, ContextHeld
  <2>4. req[s].mode # "score"
    BY <1>5
  <2> HIDE DEF r, own
  <2> QED
    BY <1>1, <1>3, <2>1, <2>2, <2>3, <2>4 DEF r
<1>6. CASE req[s].mode \notin {"share", "own"}
  <2>1. r.keep = 0 /\ r.state = <<>> /\ r.mark = <<>> /\ r.store = Store
    BY <1>6 DEF Kept
  <2>2. Fitting(0, <<>>, <<>>, toks)
    BY <1>1 DEF Fitting, Take, IsPrefix
  <2>3. req[s].name = NoName
    BY <1>6 DEF PrefixInv, ContextHeld
  <2> HIDE DEF r
  <2> QED
    BY <1>1, <1>3, <2>1, <2>2, <2>3 DEF r
<1> QED
  BY <1>4, <1>5, <1>6

\* The slot after a reuse.
LEMMA InstallFits ==
    ASSUME PrefixInv, NEW s \in Slots, NEW toks \in Seq(Nat), NEW r,
           Fitting(r.keep, r.state, r.mark, toks), Install(s, toks, r)
    PROVE  /\ hist' = [hist EXCEPT ![s] = Take(toks, r.keep)]
           /\ state' = [state EXCEPT ![s] = Take(toks, r.keep)]
           /\ mark' = [mark EXCEPT ![s] = r.mark]
           /\ Take(toks, r.keep) \in Seq(Nat) /\ r.mark \in Seq(Nat)
           /\ IsPrefix(r.mark, Take(toks, r.keep))
           /\ IsPrefix(Take(toks, r.keep), toks) /\ Len(Take(toks, r.keep)) < Len(toks)
           /\ Len(Take(toks, r.keep)) = r.keep
<1>1. r.keep \in 0 .. Len(toks) - 1 /\ Len(toks) \in Nat /\ r.state = Take(toks, r.keep)
      /\ r.mark \in Seq(Nat) /\ IsPrefix(r.mark, Take(toks, r.keep))
  BY DEF Fitting
<1> DEFINE n == r.keep
<1>2. n \in Nat /\ n < Len(toks)
  BY <1>1
<1> HIDE DEF n
<1>3. Take(toks, n) \in Seq(Nat) /\ Len(Take(toks, n)) = n /\ IsPrefix(Take(toks, n), toks)
  <2>1. n \in 0 .. Len(toks) /\ n \in 0 .. n
    BY <1>1, <1>2
  <2> QED
    BY <2>1, TakeTake
<1> QED
  BY <1>1, <1>2, <1>3 DEF Install, n

\* The fork of a request.
LEMMA ForkInv ==
    ASSUME PrefixInv, NEW s \in Slots, Fork(s)
    PROVE  PrefixInv'
<1>1. PICK k \in Aged :
         /\ Install(s, req[s].toks, Kept(s, k))
         /\ Becomes(Kept(s, k).store)
         /\ Goto(s, IF req[s].name # NoName /\ Kept(s, k).keep < req[s].len
                    THEN "refused" ELSE "feed")
  BY DEF Fork
<1> DEFINE r == Kept(s, k)
           toks == req[s].toks
           p == IF req[s].name # NoName /\ r.keep < req[s].len THEN "refused" ELSE "feed"
           h == Take(toks, r.keep)
<1>2. /\ Fitting(r.keep, r.state, r.mark, toks)
      /\ Carries(Store, r.store, {}) /\ r.store.bytes <= Budget
      /\ req[s].mode = "score" => r.keep = 0
  BY KeptFits DEF Fork
<1>3. p \in {"refused", "feed"} /\ Goto(s, p)
  BY <1>1
<1>4. /\ toks \in Seq(Nat) /\ req[s] \in Requests /\ toks # <<>>
      /\ req' = [req EXCEPT ![s] = req[s]]
  BY ReqTypes DEF PrefixInv, FedRight, Fork
<1>5. Install(s, toks, r) /\ Becomes(r.store)
  BY <1>1
<1> HIDE DEF r, p
<1>6. /\ hist' = [hist EXCEPT ![s] = h] /\ state' = [state EXCEPT ![s] = h]
      /\ mark' = [mark EXCEPT ![s] = r.mark]
      /\ h \in Seq(Nat) /\ r.mark \in Seq(Nat) /\ IsPrefix(r.mark, h)
      /\ IsPrefix(h, toks) /\ Len(h) < Len(toks) /\ Len(h) = r.keep
  BY <1>2, <1>4, <1>5, InstallFits
<1> HIDE DEF h
<1>7. FedRight(p, req[s], h)
  <2>1. req[s].mode = "score" => h = <<>>
    BY <1>2, <1>6
  <2> QED
    BY <1>3, <1>4, <1>6, <2>1 DEF FedRight
<1>8. OthersGone({s}, {})
  BY DEF OthersGone, Fork, PrefixInv, SlotTypes
<1>9. StoreKept(r.store, {}) /\ OthersRead({s}, r.store)
  BY <1>2, StoreChanged
<1>10. SlotStep(s, p, req[s], h, r.mark, r.store, {})
  BY <1>3, <1>4, <1>5, <1>6, <1>7, <1>8, <1>9 DEF SlotStep, Goto, Phases
<1> QED
  BY <1>10, SlotStepInv

\* The fork of a new context's prompt.
LEMMA PinBeginInv ==
    ASSUME PrefixInv, NEW s \in Slots, PinBegin(s)
    PROVE  PrefixInv'
<1>1. PICK toks \in Contexts, name \in Names, k \in Aged :
         /\ req' = [req EXCEPT ![s] = [NoReq EXCEPT !.toks = toks, !.name = name]]
         /\ Install(s, toks, Reuse(s, toks, k))
         /\ Becomes(Reuse(s, toks, k).store)
  BY DEF PinBegin
<1> DEFINE r == Reuse(s, toks, k)
           q == [NoReq EXCEPT !.toks = toks, !.name = name]
           h == Take(toks, r.keep)
<1>2. toks \in Seq(Nat) /\ toks # <<>>
  BY PrefixAssumption DEF PrefixAssumption
<1>3. q \in Requests /\ q.toks = toks /\ q.name = name /\ q.mode = "share"
  BY <1>2, NoReqType DEF NoReq
<1>4. /\ PrefixAssumption /\ fold \in Nat
      /\ SlotRows(s) /\ GoodStore(Store) /\ bytes <= Budget
  BY PrefixAssumption, FoldNat DEF PrefixInv
<1>5. /\ Fitting(r.keep, r.state, r.mark, toks)
      /\ Carries(Store, r.store, {}) /\ r.store.bytes <= Budget
  BY <1>2, <1>4, ReuseFits
<1>6. Install(s, toks, r) /\ Becomes(r.store) /\ req' = [req EXCEPT ![s] = q]
  BY <1>1
<1> HIDE DEF r, q
<1>7. /\ hist' = [hist EXCEPT ![s] = h] /\ state' = [state EXCEPT ![s] = h]
      /\ mark' = [mark EXCEPT ![s] = r.mark]
      /\ h \in Seq(Nat) /\ r.mark \in Seq(Nat) /\ IsPrefix(r.mark, h)
      /\ IsPrefix(h, toks) /\ Len(h) < Len(toks)
  BY <1>2, <1>5, <1>6, InstallFits
<1> HIDE DEF h
<1>8. FedRight("pin", q, h)
  BY <1>2, <1>3, <1>7 DEF FedRight
<1>9. OthersGone({s}, {}) /\ StoreKept(r.store, {}) /\ OthersRead({s}, r.store)
  BY <1>5, StoreChanged, GoneUnchanged DEF PinBegin
<1>10. SlotStep(s, "pin", q, h, r.mark, r.store, {})
  BY <1>3, <1>6, <1>7, <1>8, <1>9 DEF SlotStep, PinBegin, Goto, Phases
<1> QED
  BY <1>10, SlotStepInv

\* Feeding up to a position continues the rows.
LEMMA FeedOn ==
    ASSUME NEW h \in Seq(Nat), NEW toks \in Seq(Nat), IsPrefix(h, toks),
           NEW n \in Len(h) .. Len(toks)
    PROVE  /\ h \o SubSeq(toks, Len(h) + 1, n) = Take(toks, n)
           /\ Take(toks, n) \in Seq(Nat) /\ Len(Take(toks, n)) = n
           /\ IsPrefix(Take(toks, n), toks) /\ IsPrefix(h, Take(toks, n))
<1>1. Len(h) \in Nat /\ Len(toks) \in Nat /\ Len(h) <= Len(toks)
      /\ h = Take(toks, Len(h))
  BY PrefixTake
<1> DEFINE a == Len(h)
<1>2. a \in 0 .. Len(toks) /\ n \in a .. Len(toks) /\ h = Take(toks, a)
  BY <1>1
<1> HIDE DEF a
<1>3. h \o SubSeq(toks, a + 1, n) = Take(toks, n)
  BY <1>2, TakeAppend
<1>4. n \in 0 .. Len(toks)
  BY <1>1
<1>5. Take(toks, n) \in Seq(Nat) /\ Len(Take(toks, n)) = n
  BY <1>4, TakeFacts
<1>6. a \in 0 .. n
  BY <1>1, <1>2, <1>4
<1>7. IsPrefix(Take(toks, n), toks) /\ IsPrefix(Take(toks, a), Take(toks, n))
  BY <1>4, <1>6, TakeTake
<1> QED
  BY <1>2, <1>3, <1>5, <1>7 DEF a

\* Feeding what is not kept completes the rows of the prompt, and the turn mark folds
\* a beginning of it.
LEMMA FeedFits ==
    ASSUME PrefixInv, NEW s \in Slots, pc[s] \in {"feed", "pin"}, Feed(s, req[s].toks)
    PROVE  \E m \in Seq(Nat) :
              /\ hist' = [hist EXCEPT ![s] = req[s].toks]
              /\ state' = [state EXCEPT ![s] = req[s].toks]
              /\ mark' = [mark EXCEPT ![s] = m] /\ IsPrefix(m, req[s].toks)
<1> DEFINE toks == req[s].toks
           h == hist[s]
           rest(n) == SubSeq(toks, Len(h) + 1, n)
           m == IF MarkAt(s) < Len(toks) THEN state[s] \o rest(MarkAt(s)) ELSE mark[s]
<1>1. /\ toks \in Seq(Nat) /\ h \in Seq(Nat) /\ state[s] = h /\ mark[s] \in Seq(Nat)
      /\ IsPrefix(mark[s], h) /\ IsPrefix(h, toks) /\ Len(h) < Len(toks)
      /\ Len(h) \in Nat /\ Len(toks) \in Nat
  BY ReqTypes DEF PrefixInv, SlotRows, FedRight
<1>2. Len(toks) \in Len(h) .. Len(toks) /\ Len(toks) - 1 \in Len(h) .. Len(toks)
  <2>1. \A a, b \in Nat : a < b => b \in a .. b /\ b - 1 \in a .. b
    OBVIOUS
  <2> QED
    BY <1>1, <2>1
<1>3. \A n \in Len(h) .. Len(toks) : /\ h \o rest(n) = Take(toks, n)
                                     /\ Take(toks, n) \in Seq(Nat)
                                     /\ IsPrefix(Take(toks, n), toks)
  BY <1>1, FeedOn
<1>4. h \o rest(Len(toks)) = toks
  <2>1. h \o rest(Len(toks)) = Take(toks, Len(toks))
    BY <1>2, <1>3
  <2>2. Take(toks, Len(toks)) = toks
    BY <1>1 DEF Take
  <2> QED
    BY <2>1, <2>2
<1> HIDE DEF h, toks, rest
<1>5. m \in Seq(Nat) /\ IsPrefix(m, toks)
  <2>1. CASE MarkAt(s) < Len(toks)
    <3>1. MarkAt(s) = Len(toks) - 1
      BY <1>1, <2>1 DEF MarkAt, toks
    <3>2. m = h \o rest(Len(toks) - 1)
      BY <1>1, <2>1, <3>1
    <3> HIDE DEF m
    <3> QED
      BY <1>2, <1>3, <3>2
  <2>2. CASE ~(MarkAt(s) < Len(toks))
    BY <1>1, <2>2, PrefixTrans
  <2> QED
    BY <2>1, <2>2
<1>6. /\ hist' = [hist EXCEPT ![s] = toks]
      /\ state' = [state EXCEPT ![s] = state[s] \o rest(Len(toks))]
      /\ mark' = [mark EXCEPT ![s] = m]
  BY DEF Feed, h, toks, rest
<1> HIDE DEF m
<1> QED
  BY <1>1, <1>4, <1>5, <1>6 DEF toks

\* How much of a prompt is stored: never more than there is, and of a recurrent one all
\* or nothing.
LEMMA StoreLenFacts ==
    ASSUME PrefixAssumption, fold \in Nat, NEW n \in Nat, StoreLen(n) >= MinTokens
    PROVE  StoreLen(n) \in 1 .. n /\ (Recurrent => StoreLen(n) = n)
<1>1. /\ Budget \in Nat /\ Budget \div 2 \in Nat /\ MinTokens \in Nat /\ MinTokens >= 1
      /\ EntryBytes(n) = n + fold /\ EntryBytes(1) = 1 + fold
  BY DEF PrefixAssumption, EntryBytes
<1>2. CASE EntryBytes(n) <= Budget \div 2
  BY <1>1, <1>2 DEF StoreLen
<1>3. CASE ~(EntryBytes(n) <= Budget \div 2) /\ Recurrent
  BY <1>1, <1>3 DEF StoreLen
<1>4. CASE ~(EntryBytes(n) <= Budget \div 2) /\ ~Recurrent
  <2>1. fold = 0 /\ EntryBytes(1) = 1 /\ EntryBytes(n) = n
    BY <1>1, <1>4 DEF Recurrent
  <2>2. StoreLen(n) = Budget \div 2
    <3>1. \A a \in Nat : a \div 1 = a
      OBVIOUS
    <3> QED
      BY <1>1, <1>4, <2>1, <3>1 DEF StoreLen
  <2> QED
    BY <1>1, <1>4, <2>1, <2>2
<1> QED
  BY <1>2, <1>3, <1>4

\* The feed, and what is published of it: the rows are those of what is stored, cut or not.
LEMMA FeedAndPublishInv ==
    ASSUME PrefixInv, NEW s \in Slots, FeedAndPublish(s)
    PROVE  PrefixInv'
<1> DEFINE toks == req[s].toks
<1>1. PICK m \in Seq(Nat) :
         /\ hist' = [hist EXCEPT ![s] = toks] /\ state' = [state EXCEPT ![s] = toks]
         /\ mark' = [mark EXCEPT ![s] = m] /\ IsPrefix(m, toks)
  BY FeedFits DEF FeedAndPublish
<1>2. /\ toks \in Seq(Nat) /\ req[s] \in Requests /\ req' = [req EXCEPT ![s] = req[s]]
      /\ Len(toks) \in Nat /\ state'[s] = toks
  BY <1>1, ReqTypes DEF FeedAndPublish, PrefixInv, SlotTypes
<1>3. /\ PrefixAssumption /\ fold \in Nat /\ GoodStore(Store) /\ Store.bytes <= Budget
      /\ Budget \in Int
  BY PrefixAssumption, FoldNat DEF PrefixInv, Store, PrefixAssumption
<1>4. \E st : Becomes(st) /\ Carries(Store, st, {}) /\ st.bytes <= Budget
  <2>1. CASE UNCHANGED storeVars
    <3>1. Becomes(Store)
      BY <2>1, StoreUnchanged
    <3> QED
      BY <1>3, <3>1, CarriesSelf
  <2>2. ASSUME ~UNCHANGED storeVars
        PROVE  \E st : Becomes(st) /\ Carries(Store, st, {}) /\ st.bytes <= Budget
    <3> DEFINE n == StoreLen(Len(toks))
               kv == IF Recurrent THEN state'[s] ELSE Take(state'[s], n)
    <3>1. PICK k \in Aged, alloc \in {TRUE, ~AllocFails} :
             IF n < MinTokens THEN Becomes(Expire(Store, k))
             ELSE Becomes(Published(Expire(Store, k), Take(toks, n), kv, alloc))
      BY <2>2 DEF FeedAndPublish
    <3> DEFINE st0 == Expire(Store, k)
    <3>2. Carries(Store, st0, {}) /\ st0.bytes <= Store.bytes
      BY <1>3, ExpireGood
    <3>3. GoodStore(st0) /\ st0.bytes \in Int /\ Store.bytes \in Int
      BY <1>3, <3>2 DEF Carries, GoodStore, Stores
    <3>4. st0.bytes <= Budget
      <4> HIDE DEF st0
      <4> QED
        BY <1>3, <3>2, <3>3
    <3>5. CASE n < MinTokens
      BY <3>1, <3>2, <3>4, <3>5
    <3>6. CASE ~(n < MinTokens)
      <4> DEFINE pub == Published(st0, Take(toks, n), Take(toks, n), alloc)
      <4>1. n \in 1 .. Len(toks) /\ (Recurrent => n = Len(toks))
        <5>1. StoreLen(Len(toks)) \in Int /\ MinTokens \in Int
          BY <1>2, <1>3 DEF StoreLen, EntryBytes, PrefixAssumption
        <5>2. StoreLen(Len(toks)) >= MinTokens
          BY <3>6, <5>1
        <5> QED
          BY <1>2, <1>3, <5>2, StoreLenFacts
      <4> HIDE DEF n
      <4>2. Take(toks, n) \in Seq(Nat) /\ kv = Take(toks, n)
        BY <1>2, <4>1, TakeFacts
      <4>3. Becomes(pub)
        BY <3>1, <3>6, <4>2
      <4> HIDE DEF st0
      <4>4. Carries(st0, pub, {}) /\ pub.bytes <= Budget
        BY <1>3, <3>3, <3>4, <4>2, PublishedGood
      <4> HIDE DEF pub
      <4>5. Carries(Store, pub, {})
        BY <3>2, <4>4, CarriesOn
      <4> QED
        BY <4>3, <4>4, <4>5
    <3> QED
      BY <3>5, <3>6
  <2> QED
    BY <2>1, <2>2
<1>5. PICK st : Becomes(st) /\ Carries(Store, st, {}) /\ st.bytes <= Budget
  BY <1>4
<1>6. StoreKept(st, {}) /\ OthersRead({s}, st) /\ OthersGone({s}, {})
  BY <1>5, StoreChanged, GoneUnchanged DEF FeedAndPublish
<1>7. FedRight("generate", req[s], toks)
  BY DEF FedRight
<1>8. SlotStep(s, "generate", req[s], toks, m, st, {})
  BY <1>1, <1>2, <1>5, <1>6, <1>7 DEF SlotStep, FeedAndPublish, Goto, Phases
<1> QED
  BY <1>8, SlotStepInv

\* The feed stops between two chunks.
LEMMA FeedStoppedInv ==
    ASSUME PrefixInv, NEW s \in Slots, FeedStopped(s)
    PROVE  PrefixInv'
<1> DEFINE toks == req[s].toks
           h == hist[s]
<1>1. PICK n \in (IF req[s].mode = "score" THEN 0 ELSE Len(h) + 1) .. MarkAt(s) - 1 :
         /\ hist' = [hist EXCEPT ![s] = Take(toks, n)]
         /\ state' = [state EXCEPT ![s] = state[s] \o SubSeq(toks, Len(h) + 1, n)]
  BY DEF FeedStopped
<1>2. /\ toks \in Seq(Nat) /\ h \in Seq(Nat) /\ state[s] = h /\ mark[s] \in Seq(Nat)
      /\ IsPrefix(mark[s], h) /\ IsPrefix(h, toks)
      /\ Len(h) \in Nat /\ Len(toks) \in Nat /\ (req[s].mode = "score" => Len(h) = 0)
  BY ReqTypes DEF PrefixInv, SlotRows, FedRight, FeedStopped
<1>3. MarkAt(s) \in Int /\ MarkAt(s) <= Len(toks)
  BY <1>2 DEF MarkAt
<1>4. n \in Len(h) .. Len(toks)
  <2> HIDE DEF toks, h
  <2>1. n \in Int /\ n >= Len(h)
    BY <1>1, <1>2, <1>3
  <2>2. n <= Len(toks)
    BY <1>1, <1>2, <1>3, <2>1
  <2> QED
    BY <1>2, <2>1, <2>2
<1>5. mark' = [mark EXCEPT ![s] = mark[s]]
  BY DEF FeedStopped, PrefixInv, SlotTypes
<1> DEFINE t == Take(toks, n)
<1> HIDE DEF toks, h
<1>6. /\ h \o SubSeq(toks, Len(h) + 1, n) = t /\ t \in Seq(Nat) /\ IsPrefix(h, t)
  BY <1>2, <1>4, FeedOn
<1>7. hist' = [hist EXCEPT ![s] = t] /\ state' = [state EXCEPT ![s] = t]
  BY <1>1, <1>2, <1>6
<1> HIDE DEF t
<1>8. IsPrefix(mark[s], t)
  BY <1>2, <1>6, PrefixTrans
<1>9. FedRight("idle", NoReq, t)
  BY DEF FedRight
<1>10. Becomes(Store) /\ StoreKept(Store, {}) /\ OthersRead({s}, Store) /\ OthersGone({s}, {})
  BY StoreUnchanged, GoneUnchanged DEF FeedStopped
<1>11. SlotStep(s, "idle", NoReq, t, mark[s], Store, {})
  BY <1>2, <1>5, <1>6, <1>7, <1>8, <1>9, <1>10, NoReqType
     DEF SlotStep, FeedStopped, Finish, Goto, Phases
<1> QED
  BY <1>11, SlotStepInv

\* A generated token goes into the history and into the rows.
LEMMA GenerateInv ==
    ASSUME PrefixInv, NEW s \in Slots, Generate(s)
    PROVE  PrefixInv'
<1>1. PICK g \in {<<>>} \cup {<<t>> : t \in Tokens} :
         /\ hist' = [hist EXCEPT ![s] = hist[s] \o g]
         /\ state' = [state EXCEPT ![s] = state[s] \o g]
  BY DEF Generate
<1>2. g \in Seq(Nat)
  <2>1. CASE g = <<>>
    BY <2>1
  <2>2. ASSUME NEW t \in Tokens, g = <<t>> PROVE g \in Seq(Nat)
    <3>1. t \in Nat
      BY PrefixAssumption DEF PrefixAssumption
    <3> QED
      BY <2>2, <3>1
  <2> QED
    BY <1>1, <2>1, <2>2
<1>3. /\ hist[s] \in Seq(Nat) /\ state[s] = hist[s] /\ mark[s] \in Seq(Nat)
      /\ IsPrefix(mark[s], hist[s])
  BY DEF PrefixInv, SlotRows
<1> DEFINE t == hist[s] \o g
<1>4. t \in Seq(Nat) /\ IsPrefix(mark[s], t)
  <2>1. t \in Seq(Nat) /\ IsPrefix(hist[s], t)
    BY <1>2, <1>3 DEF IsPrefix
  <2> HIDE DEF t
  <2> QED
    BY <1>3, <2>1, PrefixTrans
<1>5. /\ hist' = [hist EXCEPT ![s] = t] /\ state' = [state EXCEPT ![s] = t]
      /\ mark' = [mark EXCEPT ![s] = mark[s]]
  BY <1>1, <1>3 DEF Generate, PrefixInv, SlotTypes
<1> HIDE DEF t
<1>6. FedRight("idle", NoReq, t)
  BY DEF FedRight
<1>7. Becomes(Store) /\ StoreKept(Store, {}) /\ OthersRead({s}, Store) /\ OthersGone({s}, {})
  BY StoreUnchanged, GoneUnchanged DEF Generate
<1>8. SlotStep(s, "idle", NoReq, t, mark[s], Store, {})
  BY <1>3, <1>4, <1>5, <1>6, <1>7, NoReqType DEF SlotStep, Generate, Finish, Goto, Phases
<1> QED
  BY <1>8, SlotStepInv

-----------------------------------------------------------------------------
\* Releases, pins and clears take contexts from the requests that wait for them.
LEMMA TakenGone ==
    ASSUME PrefixInv, NEW names, TakenFrom(names), NEW done
    PROVE  OthersGone(done, names)
BY DEF TakenFrom, OthersGone, PrefixInv, SlotTypes

\* The context of a name is dropped, and no other.
LEMMA DropNamed ==
    ASSUME fold \in Nat, NEW st, GoodStore(st), NEW name
    PROVE  /\ Carries(st, Drop(st, Named(st, name)), {name})
           /\ Drop(st, Named(st, name)).bytes = st.bytes - OldBytes(st, name)
           /\ Drop(st, Named(st, name)).bytes <= st.bytes
<1> DEFINE out == Named(st, name)
<1>1. out \in SUBSET st.list /\ \A e \in out : Pinned(e) => e.name \in {name}
  BY DEF Named
<1>2. OldBytes(st, name) = Bytes(out)
  BY DEF OldBytes
<1> HIDE DEF out
<1>3. /\ GoodStore(Drop(st, out)) /\ ReadersKept(st, Drop(st, out))
      /\ PinsKept(st, Drop(st, out), {name})
      /\ Drop(st, out).bytes = st.bytes - Bytes(out) /\ Drop(st, out).bytes <= st.bytes
  BY <1>1, DropGood
<1> QED
  BY <1>2, <1>3 DEF Carries, out

\* prefix_context_pin and prefix_context_import.
LEMMA PinCarries ==
    ASSUME PrefixInv, NEW toks \in Seq(Nat), NEW name \in Names, Pin(toks, toks, name)
    PROVE  \E st, names : /\ Becomes(st) /\ Carries(Store, st, names) /\ st.bytes <= Budget
                          /\ OthersGone({}, names)
<1>1. PICK k \in Aged :
         LET st0  == Expire(Store, k)
             old  == OldBytes(st0, name)
             need == EntryBytes(Len(toks))
             st   == Trim(st0, IF need > old THEN need - old ELSE 0)
         IN  IF PinFits(st, toks, name)
             THEN /\ Becomes(Insert(Drop(st, Named(st, name)), toks, toks, name))
                  /\ TakenFrom({name})
             ELSE Becomes(st) /\ UNCHANGED gone
  BY DEF Pin
<1> DEFINE st0  == Expire(Store, k)
           old  == OldBytes(st0, name)
           need == EntryBytes(Len(toks))
           st   == Trim(st0, IF need > old THEN need - old ELSE 0)
           cut  == Drop(st, Named(st, name))
           new  == Insert(cut, toks, toks, name)
<1>2. /\ fold \in Nat /\ GoodStore(Store) /\ Store.bytes <= Budget
      /\ Budget \in Int /\ Store.bytes \in Int
  BY PrefixAssumption, FoldNat DEF PrefixInv, Store, PrefixAssumption, GoodStore, Stores
<1>3. /\ PinFits(st, toks, name) => Becomes(new) /\ TakenFrom({name})
      /\ ~PinFits(st, toks, name) => Becomes(st) /\ UNCHANGED gone
  BY <1>1
<1>4. Carries(Store, st0, {}) /\ st0.bytes <= Store.bytes
  BY <1>2, ExpireGood
<1> HIDE DEF st0
<1>5. GoodStore(st0) /\ st0.bytes \in Int
  BY <1>4 DEF Carries, GoodStore, Stores
<1>6. Carries(st0, st, {}) /\ st.bytes <= st0.bytes
  BY <1>2, <1>5, TrimGood
<1> HIDE DEF st
<1>7. Carries(Store, st, {}) /\ GoodStore(st) /\ st.bytes \in Int
  <2>1. Carries(Store, st, {})
    BY <1>4, <1>6, CarriesOn
  <2> QED
    BY <2>1 DEF Carries, GoodStore, Stores
<1>8. st.bytes <= Budget
  BY <1>2, <1>4, <1>5, <1>6, <1>7
<1>9. CASE ~PinFits(st, toks, name)
  <2>1. OthersGone({}, {})
    BY <1>2, <1>3, <1>9, GoneUnchanged
  <2> QED
    BY <1>3, <1>7, <1>8, <1>9, <2>1
<1>10. CASE PinFits(st, toks, name)
  <2>1. /\ Carries(st, cut, {name}) /\ cut.bytes = st.bytes - OldBytes(st, name)
    BY <1>2, <1>7, DropNamed
  <2> HIDE DEF cut
  <2>2. GoodStore(cut) /\ name \in Names \cup {NoName}
    BY <2>1 DEF Carries
  <2>3. Carries(cut, new, {}) /\ new.bytes = cut.bytes + EntryBytes(Len(toks))
    BY <1>2, <2>2, InsertCarries
  <2> HIDE DEF new
  <2>4. Carries(st, new, {name})
    BY <2>1, <2>3, CarriesOn
  <2>5. Carries(Store, new, {name})
    BY <1>7, <2>4, CarriesOn
  <2>6. new.bytes <= Budget
    BY <1>10, <2>1, <2>3 DEF PinFits
  <2>7. Becomes(new) /\ OthersGone({}, {name})
    BY <1>2, <1>3, <1>10, TakenGone
  <2> QED
    BY <2>5, <2>6, <2>7
<1> QED
  BY <1>9, <1>10

\* The end of a pin.
LEMMA PinEndInv ==
    ASSUME PrefixInv, NEW s \in Slots, PinEnd(s)
    PROVE  PrefixInv'
<1> DEFINE toks == req[s].toks
<1>1. PICK m \in Seq(Nat) :
         /\ hist' = [hist EXCEPT ![s] = toks] /\ state' = [state EXCEPT ![s] = toks]
         /\ mark' = [mark EXCEPT ![s] = m] /\ IsPrefix(m, toks)
  BY FeedFits DEF PinEnd
<1>2. /\ toks \in Seq(Nat) /\ req[s].name \in Names /\ state'[s] = toks
  BY <1>1, ReqTypes DEF PinEnd, PrefixInv, SlotTypes, FedRight
<1>3. PICK st, names : /\ Becomes(st) /\ StoreKept(st, names)
                       /\ OthersRead({s}, st) /\ OthersGone({s}, names)
  <2>1. CASE Pin(toks, state'[s], req[s].name)
    <3>1. Pin(toks, toks, req[s].name)
      BY <1>2, <2>1
    <3>2. PICK st, names : /\ Becomes(st) /\ Carries(Store, st, names) /\ st.bytes <= Budget
                           /\ OthersGone({}, names)
      BY <1>2, <3>1, PinCarries
    <3>3. OthersGone({s}, names)
      BY <3>2 DEF OthersGone
    <3>4. StoreKept(st, names) /\ OthersRead({s}, st)
      BY <3>2, StoreChanged
    <3> QED
      BY <3>2, <3>3, <3>4
  <2>2. CASE UNCHANGED <<storeVars, gone>>
    BY <2>2, StoreUnchanged, GoneUnchanged
  <2> QED
    BY <2>1, <2>2 DEF PinEnd
<1>4. FedRight("idle", NoReq, toks)
  BY DEF FedRight
<1>5. SlotStep(s, "idle", NoReq, toks, m, st, names)
  BY <1>1, <1>2, <1>3, <1>4, NoReqType DEF SlotStep, PinEnd, Finish, Goto, Phases
<1> QED
  BY <1>5, SlotStepInv

\* DELETE of a context.
LEMMA ReleaseInv ==
    ASSUME PrefixInv, NEW name \in Names, Release(name)
    PROVE  PrefixInv'
<1> DEFINE st == Drop(Store, Named(Store, name))
<1>1. /\ fold \in Nat /\ GoodStore(Store) /\ Store.bytes <= Budget /\ Budget \in Int
      /\ Store.bytes \in Int
  BY PrefixAssumption, FoldNat DEF PrefixInv, Store, PrefixAssumption, GoodStore, Stores
<1>2. Carries(Store, st, {name}) /\ st.bytes <= Store.bytes
  BY <1>1, DropNamed
<1>3. Becomes(st) /\ OthersGone({}, {name}) /\ UNCHANGED <<pc, req, slotVars>>
  BY TakenGone DEF Release
<1> HIDE DEF st
<1>4. st.bytes \in Int
  BY <1>2 DEF Carries, GoodStore, Stores
<1>5. st.bytes <= Budget
  BY <1>1, <1>2, <1>4
<1> QED
  BY <1>2, <1>3, <1>5, StoreStepInv

\* prefix_cache_clear: the bytes that are set to zero were already.
LEMMA ClearInv ==
    ASSUME PrefixInv, Clear
    PROVE  PrefixInv'
<1> DEFINE cut == Drop(Store, list)
           st == [cut EXCEPT !.bytes = 0]
<1>1. /\ fold \in Nat /\ GoodStore(Store) /\ Store.list = list
      /\ Store.bytes \in Int /\ Store.bytes = Bytes(list)
  BY FoldNat DEF PrefixInv, Store, GoodStore, Stores
<1>2. list \in SUBSET Store.list /\ \A e \in list : Pinned(e) => e.name \in Names
  BY <1>1 DEF Pinned, GoodStore, Stores, Entries
<1>3. /\ Carries(Store, cut, Names) /\ cut.bytes = Store.bytes - Bytes(list)
  BY <1>1, <1>2, DropGood DEF Carries
<1>4. cut.bytes = 0
  BY <1>1, <1>3
<1> HIDE DEF cut
<1>5. st = cut
  BY <1>3, <1>4 DEF Carries, GoodStore, Stores
<1>6. Becomes(st) /\ OthersGone({}, Names) /\ UNCHANGED <<pc, req, slotVars>>
  BY TakenGone DEF Clear, cut
<1> HIDE DEF st
<1>7. Carries(Store, st, Names) /\ st.bytes <= Budget
  BY <1>3, <1>4, <1>5, PrefixAssumption DEF PrefixAssumption
<1> QED
  BY <1>6, <1>7, StoreStepInv

\* prefix_context_import, from no slot of the model.
LEMMA ImportInv ==
    ASSUME PrefixInv, Import
    PROVE  PrefixInv'
<1>1. PICK toks \in Contexts, name \in Names : Pin(toks, toks, name)
  BY DEF Import
<1>2. toks \in Seq(Nat)
  BY PrefixAssumption DEF PrefixAssumption
<1>3. PICK st, names : /\ Becomes(st) /\ Carries(Store, st, names) /\ st.bytes <= Budget
                       /\ OthersGone({}, names)
  BY <1>1, <1>2, PinCarries
<1> QED
  BY <1>3, StoreStepInv DEF Import

-----------------------------------------------------------------------------
\* An export counts itself among the readers of an entry, and takes itself off again:
\* nothing else of any entry changes.
Reread(g, L) ==
    \A e \in L : /\ g[e] \in Entries /\ g[e].toks = e.toks /\ g[e].kv = e.kv
                 /\ g[e].name = e.name /\ g[e].born = e.born

LEMMA RereadGood ==
    ASSUME fold \in Nat, GoodStore(Store), NEW g, Reread(g, list),
           NEW D \in SUBSET Entries, \A e \in D : e.kv = e.toks /\ e.readers # {},
           NEW st, st = [list |-> {g[e] : e \in list}, bytes |-> bytes, dropped |-> D]
    PROVE  GoodStore(st) /\ PinsKept(Store, st, {})
<1> DEFINE L == {g[e] : e \in list}
<1>1. /\ Placed(list) /\ \A e \in list : e.born \in 1 .. Cardinality(list) /\ e.kv = e.toks
      /\ bytes \in Int /\ bytes = Bytes(list)
  BY DEF GoodStore, Stores, Store
<1>2. Moves(g, list)
  BY <1>1 DEF Reread, Moves, Placed
<1>3. /\ Placed(L) /\ Bytes(L) = Bytes(list)
      /\ \A e \in L : e.born \in 1 .. Cardinality(L)
  <2>1. L = {g[e] : e \in list}
    OBVIOUS
  <2> HIDE DEF L
  <2> QED
    BY <1>1, <1>2, <2>1, MovesGood
<1>4. \A e \in L : e.kv = e.toks /\ e \in Entries
  BY <1>1 DEF Reread
<1>5. st.list = L /\ st.bytes = bytes /\ st.dropped = D /\ st \in Stores
  <2>1. L \in SUBSET Entries
    BY <1>4
  <2> HIDE DEF L
  <2>2. st = [list |-> L, bytes |-> bytes, dropped |-> D]
    BY DEF L
  <2> QED
    BY <1>1, <2>1, <2>2 DEF Stores
<1>6. PinsKept(Store, st, {})
  <2>1. \A e \in list : g[e] \in st.list /\ g[e].name = e.name /\ g[e].toks = e.toks
    BY <1>5 DEF Reread
  <2> QED
    BY <2>1 DEF PinsKept, Store
<1> HIDE DEF L
<1> QED
  BY <1>1, <1>3, <1>4, <1>5, <1>6 DEF GoodStore

\* The export is a reader from here on.
LEMMA ExportBeginInv ==
    ASSUME PrefixInv, NEW s \in Slots, ExportBegin(s)
    PROVE  PrefixInv'
<1>1. PICK e \in list : /\ list' = (list \ {e}) \cup {[e EXCEPT !.readers = @ \cup {s}]}
                        /\ req' = [req EXCEPT ![s].toks = e.toks]
  BY DEF ExportBegin
<1> DEFINE new == [e EXCEPT !.readers = @ \cup {s}]
           g == [d \in list |-> IF d = e THEN new ELSE d]
           st == [list |-> list', bytes |-> bytes, dropped |-> dropped]
           q == [req[s] EXCEPT !.toks = e.toks]
<1>2. /\ fold \in Nat /\ GoodStore(Store) /\ bytes <= Budget /\ list \subseteq Entries
      /\ dropped \in SUBSET Entries /\ \A d \in dropped : d.kv = d.toks /\ d.readers # {}
  BY FoldNat DEF PrefixInv, GoodStore, Stores, Store
<1>3. /\ new \in Entries /\ new.toks = e.toks /\ new.kv = e.kv /\ new.name = e.name
      /\ new.born = e.born /\ new.readers = e.readers \cup {s}
  BY <1>2 DEF Entries
<1>4. list' = (list \ {e}) \cup {new}
  BY <1>1
<1> HIDE DEF new
<1>5. Reread(g, list)
  BY <1>2, <1>3 DEF Reread
<1>6. list' = {g[d] : d \in list}
  BY <1>4
<1>7. st = [list |-> {g[d] : d \in list}, bytes |-> bytes, dropped |-> dropped]
  BY <1>6
<1>8. /\ st.list = list' /\ st.bytes = bytes /\ st.dropped = dropped
      /\ Becomes(st)
  BY DEF Becomes, ExportBegin
<1> HIDE DEF g, st
<1>9. GoodStore(st) /\ PinsKept(Store, st, {})
  BY <1>2, <1>5, <1>7, RereadGood
<1>10. StoreKept(st, {}) /\ OthersGone({s}, {})
  BY <1>2, <1>8, <1>9, GoneUnchanged DEF StoreKept, ExportBegin
<1>11. OthersRead({s}, st)
  <2>1. ASSUME NEW d \in Slots, pc[d] = "export"
        PROVE  ReadBy(d, st.list \cup st.dropped, req[d].toks)
    <3>1. PICK x \in list \cup dropped : d \in x.readers /\ x.toks = req[d].toks
      BY <2>1 DEF PrefixInv, Reading, ReadBy
    <3>2. CASE x = e
      <4>1. new \in st.list /\ d \in new.readers /\ new.toks = req[d].toks
        BY <1>3, <1>4, <1>8, <3>1, <3>2
      <4> QED
        BY <4>1 DEF ReadBy
    <3>3. CASE x # e
      <4>1. x \in st.list \cup st.dropped
        BY <1>4, <1>8, <3>1, <3>3
      <4> QED
        BY <3>1, <4>1 DEF ReadBy
    <3> QED
      BY <3>2, <3>3
  <2> QED
    BY <2>1 DEF OthersRead
<1>12. q \in Requests /\ req' = [req EXCEPT ![s] = q] /\ q.toks = e.toks
  BY <1>1, <1>2, ReqTypes DEF Requests, Entries, PrefixInv, SlotTypes
<1>13. ReadBy(s, st.list \cup st.dropped, q.toks)
  <2>1. new \in st.list /\ s \in new.readers /\ new.toks = q.toks
    BY <1>3, <1>4, <1>8, <1>12
  <2> QED
    BY <2>1 DEF ReadBy
<1> HIDE DEF q
<1>14. FedRight("export", q, hist[s])
  BY DEF FedRight
<1>15. SlotStep(s, "export", q, hist[s], mark[s], st, {})
  BY <1>8, <1>10, <1>11, <1>12, <1>13, <1>14, SlotUnchanged
     DEF SlotStep, ExportBegin, Goto, Phases
<1> QED
  BY <1>15, SlotStepInv

\* pfx_release_reader: others' entries stay, its own goes if it was the last reader.
LEMMA ExportEndInv ==
    ASSUME PrefixInv, NEW s \in Slots, ExportEnd(s)
    PROVE  PrefixInv'
<1> DEFINE g == [e \in list |-> Unread(e, s)]
           D == {e \in {Unread(d, s) : d \in dropped} : e.readers # {}}
           st == [list |-> list', bytes |-> bytes, dropped |-> D]
<1>1. /\ fold \in Nat /\ GoodStore(Store) /\ bytes <= Budget /\ list \subseteq Entries
      /\ dropped \subseteq Entries /\ \A d \in dropped : d.kv = d.toks
  BY FoldNat DEF PrefixInv, GoodStore, Stores, Store
<1>2. \A e \in Entries :
         /\ Unread(e, s) \in Entries /\ Unread(e, s).toks = e.toks /\ Unread(e, s).kv = e.kv
         /\ Unread(e, s).name = e.name /\ Unread(e, s).born = e.born
         /\ Unread(e, s).readers = e.readers \ {s}
  BY DEF Unread, Entries
<1>3. Reread(g, list)
  BY <1>1, <1>2 DEF Reread
<1>4. list' = {g[e] : e \in list} /\ dropped' = D
  BY DEF ExportEnd, ReleaseReader
<1>5. D \in SUBSET Entries /\ \A e \in D : e.kv = e.toks /\ e.readers # {}
  BY <1>1, <1>2
<1>6. st = [list |-> {g[e] : e \in list}, bytes |-> bytes, dropped |-> D]
  BY <1>4
<1>7. st.list = list' /\ st.bytes = bytes /\ st.dropped = D /\ Becomes(st)
  BY <1>4 DEF Becomes, ExportEnd
<1>8. \A e \in list : Unread(e, s) \in list'
  BY <1>4
<1>9. \A e \in dropped : Unread(e, s).readers # {} => Unread(e, s) \in D
  OBVIOUS
<1> HIDE DEF g, st, D
<1>10. GoodStore(st) /\ PinsKept(Store, st, {})
  BY <1>1, <1>3, <1>5, <1>6, RereadGood
<1>11. StoreKept(st, {}) /\ OthersGone({s}, {})
  BY <1>1, <1>7, <1>10, GoneUnchanged DEF StoreKept, ExportEnd
<1>12. OthersRead({s}, st)
  <2>1. ASSUME NEW d \in Slots, d # s, pc[d] = "export"
        PROVE  ReadBy(d, st.list \cup st.dropped, req[d].toks)
    <3>1. PICK x \in list \cup dropped : d \in x.readers /\ x.toks = req[d].toks
      BY <2>1 DEF PrefixInv, Reading, ReadBy
    <3> DEFINE y == Unread(x, s)
    <3>2. d \in y.readers /\ y.toks = req[d].toks
      BY <1>1, <1>2, <2>1, <3>1
    <3>3. y \in st.list \cup st.dropped
      BY <1>7, <1>8, <1>9, <3>1, <3>2
    <3> HIDE DEF y
    <3> QED
      BY <3>2, <3>3 DEF ReadBy
  <2> QED
    BY <2>1 DEF OthersRead
<1>13. FedRight("idle", NoReq, hist[s])
  BY DEF FedRight
<1>14. SlotStep(s, "idle", NoReq, hist[s], mark[s], st, {})
  BY <1>7, <1>11, <1>12, <1>13, NoReqType, SlotUnchanged
     DEF SlotStep, ExportEnd, Finish, Goto, Phases
<1> QED
  BY <1>14, SlotStepInv

-----------------------------------------------------------------------------
\* The invariant holds at the start, and every step preserves it.
LEMMA PrefixInitInv ==
    ASSUME Init
    PROVE  PrefixInv
<1>1. Store = [list |-> {}, bytes |-> 0, dropped |-> {}]
  BY DEF Init, Store
<1>2. Bytes({}) = 0
  BY SumEmpty DEF Bytes
<1>3. Store.list = {} /\ Store.bytes = 0 /\ Store.dropped = {} /\ Store \in Stores
  BY <1>1 DEF Stores
<1>4. GoodStore(Store)
  BY <1>2, <1>3, FS_EmptySet DEF GoodStore, Placed
<1>5. SlotTypes
  <2>1. pc \in [Slots -> Phases] /\ req \in [Slots -> Requests]
    BY NoReqType DEF Init, Phases
  <2>2. /\ hist \in [Slots -> Seq(Nat)] /\ state \in [Slots -> Seq(Nat)]
        /\ mark \in [Slots -> Seq(Nat)]
    BY DEF Init
  <2> QED
    BY <2>1, <2>2 DEF Init, SlotTypes
<1>6. bytes <= Budget
  BY PrefixAssumption DEF Init, PrefixAssumption
<1>7. ASSUME NEW s \in Slots
      PROVE  /\ SlotRows(s) /\ FedRight(pc[s], req[s], hist[s])
             /\ ContextHeld(s) /\ Reading(s)
  <2>1. pc[s] = "idle" /\ hist[s] = <<>> /\ state[s] = <<>> /\ mark[s] = <<>>
    BY DEF Init
  <2>2. SlotRows(s)
    BY <2>1 DEF SlotRows, IsPrefix
  <2> QED
    BY <2>1, <2>2 DEF FedRight, ContextHeld, Reading
<1> QED
  BY <1>4, <1>5, <1>6, <1>7 DEF PrefixInv

LEMMA PrefixNextInv ==
    ASSUME PrefixInv, [Next]_vars
    PROVE  PrefixInv'
<1>1. CASE UNCHANGED vars
  <2>1. UNCHANGED <<pc, req, slotVars>> /\ UNCHANGED storeVars /\ UNCHANGED gone
    BY <1>1 DEF vars
  <2>2. GoodStore(Store) /\ Store.bytes <= Budget
    BY DEF PrefixInv, Store
  <2>3. Becomes(Store) /\ OthersGone({}, {}) /\ Carries(Store, Store, {})
    BY <2>1, <2>2, StoreUnchanged, GoneUnchanged, CarriesSelf
  <2> QED
    BY <2>1, <2>2, <2>3, StoreStepInv
<1>2. ASSUME NEW s \in Slots, Begin(s) \/ BeginNamed(s) \/ Fork(s) \/ Refuse(s)
      PROVE  PrefixInv'
  BY <1>2, BeginInv, BeginNamedInv, ForkInv, RefuseInv
<1>3. ASSUME NEW s \in Slots, FeedAndPublish(s) \/ FeedStopped(s) \/ Generate(s)
      PROVE  PrefixInv'
  BY <1>3, FeedAndPublishInv, FeedStoppedInv, GenerateInv
<1>4. ASSUME NEW s \in Slots, PinBegin(s) \/ PinEnd(s) \/ ExportBegin(s) \/ ExportEnd(s)
      PROVE  PrefixInv'
  BY <1>4, PinBeginInv, PinEndInv, ExportBeginInv, ExportEndInv
<1>5. ASSUME NEW name \in Names, Release(name)
      PROVE  PrefixInv'
  BY <1>5, ReleaseInv
<1>6. Clear \/ Import => PrefixInv'
  BY ClearInv, ImportInv
<1> QED
  BY <1>1, <1>2, <1>3, <1>4, <1>5, <1>6 DEF Next

\* The invariant of every behaviour.
LEMMA PrefixInvHolds == Spec => []PrefixInv
BY PrefixInitInv, PrefixNextInv, PTL DEF Spec

\* Every variable keeps its type; in particular PFX.bytes, which is only ever changed by
\* adding and taking away the size of an entry, never goes below zero.
THEOREM PrefixTypeOK == Spec => []TypeOK
<1>1. ASSUME PrefixInv PROVE TypeOK
  <2>1. bytes \in Nat
    <3>1. Placed(list) /\ bytes = Bytes(list) /\ list \in SUBSET list
      BY <1>1 DEF PrefixInv, GoodStore, Store
    <3> QED
      BY <1>1, <3>1, FoldNat, BytesNat
  <2>2. list \subseteq Entries /\ dropped \subseteq Entries
    BY <1>1 DEF PrefixInv, GoodStore, Stores, Store
  <2>3. \A v \in {hist, state, mark} : v \in [Slots -> Seq(Nat)]
    BY <1>1 DEF PrefixInv, SlotTypes
  <2> QED
    BY <1>1, <2>1, <2>2, <2>3 DEF PrefixInv, SlotTypes, Phases, Requests, TypeOK
<1> QED
  BY <1>1, PrefixInvHolds, PTL

\* PFX.bytes is the total size of the linked entries and within the budget, after any
\* number of publications, evictions, expiries, pins, re-pins, drops and imports.
THEOREM PrefixBytesExact == Spec => []BytesExact
<1>1. ASSUME PrefixInv PROVE BytesExact
  BY <1>1 DEF PrefixInv, GoodStore, Store, BytesExact
<1> QED
  BY <1>1, PrefixInvHolds, PTL

\* The rows and the fold of every slot are those of its history, and those of every
\* snapshot are those of its tokens, through every rewind, fork, cut and turn mark.
THEOREM PrefixRowsAreTokens == Spec => []RowsAreTokens
<1>1. ASSUME PrefixInv PROVE RowsAreTokens
  BY <1>1 DEF PrefixInv, GoodStore, Store, SlotRows, RowsAreTokens
<1> QED
  BY <1>1, PrefixInvHolds, PTL

\* An export reads an entry that has not been freed, whatever was dropped, replaced or
\* cleared since it found it, and no unlinked entry is kept without a reader.
THEOREM PrefixReadersSafe == Spec => []ReadersSafe
<1>1. ASSUME PrefixInv PROVE ReadersSafe
  BY <1>1 DEF PrefixInv, GoodStore, Store, Reading, ReadBy, ReadersSafe
<1> QED
  BY <1>1, PrefixInvHolds, PTL

\* A request whose context was neither released, replaced nor cleared since its check is
\* not refused, unless the context is below MinTokens or the model is recurrent.
THEOREM PrefixRefusedOnlyIfGone == Spec => RefusedOnlyIfGone
<1>1. ASSUME PrefixInv, [Next]_vars, NEW s \in Slots, pc[s] = "fork", pc'[s] = "refused"
      PROVE  s \in gone \/ req[s].len < MinTokens \/ Recurrent
  <2>1. pc \in [Slots -> Phases]
    BY <1>1 DEF PrefixInv, SlotTypes
  <2>2. Fork(s)
    <3>1. pc' # pc
      BY <1>1
    <3>2. PICK d \in Slots :
             \/ Begin(d) \/ BeginNamed(d) \/ Fork(d) \/ Refuse(d)
             \/ FeedAndPublish(d) \/ FeedStopped(d) \/ Generate(d)
             \/ PinBegin(d) \/ PinEnd(d) \/ ExportBegin(d) \/ ExportEnd(d)
      BY <1>1, <3>1 DEF Next, vars, Release, Clear, Import
    <3>3. CASE Fork(d)
      BY <1>1, <2>1, <3>3 DEF Fork, Goto
    <3>4. CASE ~Fork(d)
      <4>1. PICK p \in Phases : pc' = [pc EXCEPT ![d] = p] /\ p # "refused"
        BY <3>2, <3>4
           DEF Begin, BeginNamed, Refuse, FeedAndPublish, FeedStopped, Generate, PinBegin,
               PinEnd, ExportBegin, ExportEnd, Finish, Goto, Phases
      <4> QED
        BY <1>1, <2>1, <4>1
    <3> QED
      BY <3>3, <3>4
  <2>3. PICK k \in Aged : Goto(s, IF req[s].name # NoName /\ Kept(s, k).keep < req[s].len
                                  THEN "refused" ELSE "feed")
    BY <2>2 DEF Fork
  <2>4. req[s].name # NoName /\ Kept(s, k).keep < req[s].len
    BY <1>1, <2>1, <2>3 DEF Goto
  <2>5. /\ req[s].name # NoName /\ s \notin gone /\ req[s].len >= MinTokens /\ ~Recurrent
           => req[s].len <= Kept(s, k).keep
        /\ Fitting(Kept(s, k).keep, Kept(s, k).state, Kept(s, k).mark, req[s].toks)
    BY <1>1, KeptFits
  <2>6. Kept(s, k).keep \in Int /\ req[s].len \in Int /\ MinTokens \in Int
    BY <1>1, <2>5, ReqTypes, PrefixAssumption DEF Fitting, PrefixAssumption
  <2> QED
    BY <2>4, <2>5, <2>6
<1>2. ASSUME PrefixInv, [Next]_vars
      PROVE  [\A s \in Slots : (pc[s] = "fork" /\ pc'[s] = "refused") =>
                  s \in gone \/ req[s].len < MinTokens \/ Recurrent]_vars
  BY <1>1, <1>2
<1> QED
  BY <1>2, PrefixInvHolds, PTL DEF Spec, RefusedOnlyIfGone
=============================================================================

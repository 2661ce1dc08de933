---------------------------- MODULE OrderProofs ----------------------------
(***************************************************************************)
(* Proofs about what the code computes on sequences: the list of           *)
(* Deployments, in pages or from a cache (PagedList), and the key of a     *)
(* target (Names).  Neither is recursive: the n-th element of an order is  *)
(* the one with n - 1 before it, so that counting takes the place of       *)
(* induction.                                                              *)
(***************************************************************************)
EXTENDS PagedList, Names, FiniteSetTheorems, SequenceTheorems, TLAPS

(* The elements of D whose value is smaller than that of a. *)
Below(D, f, a) == {b \in D : f[b] < f[a]}

(* With different values, every place in the order is taken by exactly one *)
(* element.                                                                *)
LEMMA Places ==
    ASSUME NEW D, IsFiniteSet(D), NEW f \in [D -> Nat],
           \A a, b \in D : f[a] = f[b] => a = b
    PROVE  /\ Cardinality(D) \in Nat
           /\ \A a \in D : Cardinality(Below(D, f, a)) \in 0..(Cardinality(D) - 1)
           /\ \A a, b \in D :
                 f[a] < f[b] <=> Cardinality(Below(D, f, a)) < Cardinality(Below(D, f, b))
           /\ \A n \in 1..Cardinality(D) : \E a \in D : Cardinality(Below(D, f, a)) = n - 1
<1> DEFINE c == Cardinality(D)
           r == [a \in D |-> Cardinality(Below(D, f, a)) + 1]
<1>1. c \in Nat
  BY FS_CardinalityType
<1>2. ASSUME NEW a \in D
      PROVE  /\ IsFiniteSet(Below(D, f, a))
             /\ Cardinality(Below(D, f, a)) \in 0..(c - 1)
  <2>1. Below(D, f, a) \in SUBSET D /\ Below(D, f, a) # D
    BY DEF Below
  <2>2. /\ IsFiniteSet(Below(D, f, a)) /\ Cardinality(Below(D, f, a)) <= c
        /\ Cardinality(Below(D, f, a)) # c
    BY <2>1, FS_Subset
  <2>3. Cardinality(Below(D, f, a)) \in Nat
    BY <2>2, FS_CardinalityType
  <2> QED
    BY <1>1, <2>2, <2>3
<1>3. ASSUME NEW a \in D, NEW b \in D, f[a] < f[b]
      PROVE  Cardinality(Below(D, f, a)) < Cardinality(Below(D, f, b))
  <2>1. Below(D, f, a) \in SUBSET Below(D, f, b)
    BY <1>3 DEF Below
  <2>2. a \in Below(D, f, b) /\ a \notin Below(D, f, a)
    BY <1>3 DEF Below
  <2>3. /\ Cardinality(Below(D, f, a)) <= Cardinality(Below(D, f, b))
        /\ Cardinality(Below(D, f, a)) # Cardinality(Below(D, f, b))
    BY <1>2, <2>1, <2>2, FS_Subset
  <2> HIDE DEF c
  <2> QED
    BY <1>1, <1>2, <2>3
<1>4. \A a, b \in D :
         f[a] < f[b] <=> Cardinality(Below(D, f, a)) < Cardinality(Below(D, f, b))
  <2> SUFFICES ASSUME NEW a \in D, NEW b \in D, ~(f[a] < f[b])
               PROVE  ~(Cardinality(Below(D, f, a)) < Cardinality(Below(D, f, b)))
    BY <1>3
  <2>1. f[b] < f[a] \/ a = b
    OBVIOUS
  <2>2. Cardinality(Below(D, f, a)) \in Nat /\ Cardinality(Below(D, f, b)) \in Nat
    BY <1>1, <1>2
  <2> QED
    BY <1>3, <2>1, <2>2
<1>5. \A n \in 1..c : \E a \in D : Cardinality(Below(D, f, a)) = n - 1
  <2>1. r \in [D -> 1..c]
    <3>1. \A a \in D : Cardinality(Below(D, f, a)) + 1 \in 1..c
      <4> HIDE DEF c
      <4> QED
        BY <1>1, <1>2
    <3> QED
      BY <3>1
  <2>2. ASSUME NEW a \in D, NEW b \in D, r[a] = r[b] PROVE a = b
    <3>1. Cardinality(Below(D, f, a)) \in Nat /\ Cardinality(Below(D, f, b)) \in Nat
      BY <1>1, <1>2
    <3>2. Cardinality(Below(D, f, a)) = Cardinality(Below(D, f, b))
      BY <2>2, <3>1
    <3>3. ~(f[a] < f[b]) /\ ~(f[b] < f[a])
      BY <1>4, <3>1, <3>2
    <3> QED
      BY <3>3
  <2>3. r \in Injection(D, 1..c)
    BY <2>1, <2>2 DEF Injection, IsInjective
  <2>4. IsFiniteSet(1..c) /\ Cardinality(1..c) = c
    BY <1>1, FS_Interval
  <2>5. r \in Surjection(D, 1..c)
    BY <2>3, <2>4, FS_Injection
  <2>6. \A n \in 1..c : \E a \in D : r[a] = n
    BY <2>5 DEF Surjection
  <2> SUFFICES ASSUME NEW n \in 1..c PROVE \E a \in D : Cardinality(Below(D, f, a)) = n - 1
    OBVIOUS
  <2>7. PICK a \in D : r[a] = n
    BY <2>6
  <2>8. Cardinality(Below(D, f, a)) \in Nat
    BY <1>1, <1>2
  <2> QED
    BY <2>7, <2>8
<1> QED
  BY <1>1, <1>2, <1>4, <1>5

-----------------------------------------------------------------------------
(* The list of Deployments *)

DeploymentItem == [key : Deployments, version : Nat]
Snapshot == [Deployments -> Nat]
Filters == {"", "system", "other"}

(* No key twice, and none too early. *)
InOrder(s) == \A i, j \in DOMAIN s : i < j => s[i].key < s[j].key
ItemsOf(s) == {s[i] : i \in DOMAIN s}

(* sort.Slice puts items with different keys in order and keeps them all.  *)
LEMMA SortedIs ==
    ASSUME NEW n \in Nat, NEW s \in [1..n -> DeploymentItem],
           \A i, j \in 1..n : s[i].key = s[j].key => i = j
    PROVE  /\ Sorted(s) \in [1..n -> DeploymentItem]
           /\ InOrder(Sorted(s)) /\ ItemsOf(Sorted(s)) = ItemsOf(s)
<1> DEFINE f == [i \in 1..n |-> s[i].key]
           before(i) == {j \in DOMAIN s : \/ ByKey(s[j], s[i])
                                          \/ ~ByKey(s[i], s[j]) /\ j < i}
           at(m) == CHOOSE i \in DOMAIN s : Cardinality(before(i)) = m - 1
<1>1. /\ IsFiniteSet(1..n) /\ Cardinality(1..n) = n
      /\ f \in [1..n -> Nat] /\ \A i, j \in 1..n : f[i] = f[j] => i = j
  <2>1. IsFiniteSet(1..n) /\ Cardinality(1..n) = n
    BY FS_Interval
  <2>2. \A i \in 1..n : s[i].key \in Nat
    BY ListAssumption DEF DeploymentItem
  <2> QED
    BY <2>1, <2>2
<1>2. \A i \in 1..n : before(i) = Below(1..n, f, i)
  <2> SUFFICES ASSUME NEW i \in 1..n, NEW j \in 1..n
               PROVE  (ByKey(s[j], s[i]) \/ (~ByKey(s[i], s[j]) /\ j < i)) <=> f[j] < f[i]
    BY DEF Below
  <2>1. f[i] \in Nat /\ f[j] \in Nat /\ f[i] = s[i].key /\ f[j] = s[j].key
    BY <1>1
  <2>2. j < i => f[i] # f[j]
    BY <1>1
  <2> HIDE DEF f
  <2> QED
    BY <2>1, <2>2 DEF ByKey
<1>3. \A m \in 1..n : at(m) \in 1..n /\ Cardinality(Below(1..n, f, at(m))) = m - 1
  <2> SUFFICES ASSUME NEW m \in 1..n
               PROVE  at(m) \in 1..n /\ Cardinality(Below(1..n, f, at(m))) = m - 1
    OBVIOUS
  <2>1. \E i \in 1..n : Cardinality(Below(1..n, f, i)) = m - 1
    <3> HIDE DEF f
    <3> QED
      BY <1>1, Places
  <2>2. \E i \in DOMAIN s : Cardinality(before(i)) = m - 1
    BY <1>2, <2>1
  <2>3. at(m) \in DOMAIN s /\ Cardinality(before(at(m))) = m - 1
    <3> HIDE DEF before
    <3> QED
      BY <2>2
  <2> QED
    BY <1>2, <2>3
<1>4. Sorted(s) = [m \in 1..n |-> s[at(m)]]
  BY DEF Sorted
<1> HIDE DEF at, before
<1>5. Sorted(s) \in [1..n -> DeploymentItem]
  BY <1>3, <1>4
<1>6. InOrder(Sorted(s))
  <2> SUFFICES ASSUME NEW i \in 1..n, NEW j \in 1..n, i < j
               PROVE  s[at(i)].key < s[at(j)].key
    BY <1>4 DEF InOrder
  <2>1. at(i) \in 1..n /\ at(j) \in 1..n
    BY <1>3
  <2>2. Cardinality(Below(1..n, f, at(i))) < Cardinality(Below(1..n, f, at(j)))
    BY <1>3
  <2>3. f[at(i)] < f[at(j)]
    <3> HIDE DEF f
    <3> QED
      BY <1>1, <2>1, <2>2, Places
  <2> QED
    BY <2>1, <2>3
<1>7. ASSUME NEW i \in 1..n PROVE \E m \in 1..n : at(m) = i
  <2>1. Cardinality(Below(1..n, f, i)) \in 0..(n - 1)
    <3> HIDE DEF f
    <3> QED
      BY <1>1, Places
  <2> DEFINE m == Cardinality(Below(1..n, f, i)) + 1
  <2>2. m \in 1..n /\ m - 1 = Cardinality(Below(1..n, f, i))
    BY <2>1
  <2>3. at(m) \in 1..n /\ Cardinality(Below(1..n, f, at(m))) = Cardinality(Below(1..n, f, i))
    BY <1>3, <2>2
  <2>4. ~(f[at(m)] < f[i]) /\ ~(f[i] < f[at(m)])
    <3>1. ~(Cardinality(Below(1..n, f, i)) < Cardinality(Below(1..n, f, at(m))))
      BY <2>1, <2>3
    <3>2. ~(Cardinality(Below(1..n, f, at(m))) < Cardinality(Below(1..n, f, i)))
      BY <2>1, <2>3
    <3> HIDE DEF f, m
    <3> QED
      BY <1>1, <2>3, <3>1, <3>2, Places
  <2>5. f[at(m)] = f[i]
    <3> HIDE DEF m
    <3>1. f[at(m)] \in Nat /\ f[i] \in Nat
      BY <1>1, <2>3
    <3> HIDE DEF f
    <3> QED
      BY <2>4, <3>1
  <2> QED
    BY <1>1, <2>2, <2>3, <2>5
<1>8. ItemsOf(Sorted(s)) = ItemsOf(s)
  <2>1. /\ ItemsOf(Sorted(s)) = {Sorted(s)[m] : m \in 1..n}
        /\ ItemsOf(s) = {s[i] : i \in 1..n}
    BY <1>4 DEF ItemsOf
  <2>2. \A m \in 1..n : Sorted(s)[m] = s[at(m)] /\ at(m) \in 1..n
    BY <1>3, <1>4
  <2>3. ASSUME NEW i \in 1..n PROVE s[i] \in {Sorted(s)[m] : m \in 1..n}
    <3>1. PICK m \in 1..n : at(m) = i
      BY <1>7
    <3> QED
      BY <2>2, <3>1
  <2>4. \A x \in {Sorted(s)[m] : m \in 1..n} : x \in {s[i] : i \in 1..n}
    BY <2>2
  <2>5. \A x \in {s[i] : i \in 1..n} : x \in {Sorted(s)[m] : m \in 1..n}
    BY <2>3
  <2> QED
    BY <2>1, <2>4, <2>5
<1> QED
  BY <1>5, <1>6, <1>8

(* The Deployments a filter selects are finitely many numbers. *)
LEMMA SelectedFinite ==
    ASSUME NEW snap \in Snapshot, NEW ns \in Filters, NEW from \in Nat
    PROVE  LET rest == {k \in Selected(snap, ns) : k > from}
           IN  rest \in SUBSET Deployments /\ IsFiniteSet(rest) /\ Cardinality(rest) \in Nat
<1>1. {k \in Selected(snap, ns) : k > from} \in SUBSET Deployments
  BY DEF Selected
<1> QED
  BY <1>1, ListAssumption, FS_Subset, FS_CardinalityType

(* A page is the beginning of what is left, without a gap: everything up   *)
(* to its last item if there is more, and everything otherwise.            *)
Continues(page, snap, ns, from) ==
    /\ page \in Seq(DeploymentItem) /\ InOrder(page)
    /\ \A i \in DOMAIN page : page[i].key > from
    /\ More(snap, ns, page) =>
          /\ page # <<>> /\ page[Len(page)].key \in Nat
          /\ ItemsOf(page) =
                Items(snap, {k \in Selected(snap, ns) :
                               k > from /\ k <= page[Len(page)].key})
    /\ ~More(snap, ns, page) =>
          ItemsOf(page) = Items(snap, {k \in Selected(snap, ns) : k > from})

LEMMA PageIs ==
    ASSUME NEW snap \in Snapshot, NEW ns \in Filters, NEW from \in Nat,
           NEW page, page = PageOf(snap, ns, from)
    PROVE  Continues(page, snap, ns, from)
<1> DEFINE rest == {k \in Selected(snap, ns) : k > from}
           c == Cardinality(rest)
           size == IF c < Limit THEN c ELSE Limit
           f == [k \in rest |-> k]
           at(n) == CHOOSE k \in rest : Cardinality({l \in rest : l < k}) = n - 1
<1>1. rest \in SUBSET Deployments /\ IsFiniteSet(rest) /\ c \in Nat /\ rest \subseteq Nat
  BY SelectedFinite, ListAssumption
<1>2. Limit \in Nat /\ Limit > 0
  BY ListAssumption
<1>3. size \in Nat /\ size <= c /\ (size < c => size > 0)
  <2> HIDE DEF c
  <2> QED
    BY <1>1, <1>2
<1>4. page = [n \in 1..size |-> Item(snap, at(n))]
  BY DEF PageOf
<1> HIDE DEF size, rest
<1>5. f \in [rest -> Nat] /\ \A a, b \in rest : f[a] = f[b] => a = b
  BY <1>1
<1>6. \A k \in rest : {l \in rest : l < k} = Below(rest, f, k)
  BY DEF Below
<1>p. /\ \A a \in rest : Cardinality(Below(rest, f, a)) \in 0..(c - 1)
      /\ \A a, b \in rest :
            f[a] < f[b] <=> Cardinality(Below(rest, f, a)) < Cardinality(Below(rest, f, b))
      /\ \A n \in 1..c : \E a \in rest : Cardinality(Below(rest, f, a)) = n - 1
  <2> HIDE DEF f
  <2> QED
    BY <1>1, <1>5, Places
<1> DEFINE Place(k) == Cardinality({l \in rest : l < k})
<1>7. /\ \A k \in rest : Place(k) \in 0..(c - 1)
      /\ \A k, l \in rest : k < l <=> Place(k) < Place(l)
      /\ \A n \in 1..c : \E k \in rest : Place(k) = n - 1
  <2>1. \A k \in rest : Place(k) = Cardinality(Below(rest, f, k)) /\ f[k] = k
    BY <1>6
  <2> HIDE DEF Place, f
  <2> QED
    BY <1>p, <2>1
<1>8. \A n \in 1..size : at(n) \in rest /\ Place(at(n)) = n - 1
  <2> SUFFICES ASSUME NEW n \in 1..size PROVE at(n) \in rest /\ Place(at(n)) = n - 1
    OBVIOUS
  <2>1. n \in 1..c
    <3> HIDE DEF c
    <3> QED
      BY <1>1, <1>3
  <2>2. \E k \in rest : Place(k) = n - 1
    BY <1>7, <2>1
  <2> QED
    BY <2>2
<1> HIDE DEF at, Place, c
<1>9. \A n \in 1..size : Item(snap, at(n)) \in DeploymentItem /\ Item(snap, at(n)).key = at(n)
  BY <1>1, <1>8 DEF Item, DeploymentItem, Snapshot
<1>10. /\ page \in [1..size -> DeploymentItem] /\ DOMAIN page = 1..size
       /\ \A n \in 1..size : page[n] = Item(snap, at(n)) /\ page[n].key = at(n)
  BY <1>4, <1>9
<1>11. page \in Seq(DeploymentItem) /\ Len(page) = size
  BY <1>3, <1>10, SeqDef, LenProperties
<1>12. InOrder(page)
  <2> SUFFICES ASSUME NEW i \in 1..size, NEW j \in 1..size, i < j PROVE at(i) < at(j)
    BY <1>10 DEF InOrder
  <2>1. Place(at(i)) < Place(at(j))
    BY <1>8
  <2> QED
    BY <1>7, <1>8, <2>1
<1>13. \A i \in DOMAIN page : page[i].key > from
  <2>1. \A k \in rest : k > from
    BY DEF rest
  <2> QED
    BY <1>8, <1>10, <2>1
<1>14. ASSUME NEW k \in rest, Place(k) + 1 \in 1..size PROVE at(Place(k) + 1) = k
  <2> DEFINE n == Place(k) + 1
  <2>1. at(n) \in rest /\ Place(at(n)) = Place(k)
    <3>1. Place(k) \in Nat
      BY <1>7
    <3> QED
      BY <1>8, <1>14, <3>1
  <2>2. Place(k) \in Nat
    BY <1>7
  <2> HIDE DEF n
  <2>3. ~(at(n) < k) /\ ~(k < at(n))
    BY <1>7, <2>1, <2>2
  <2>4. at(n) \in Nat /\ k \in Nat
    BY <1>1, <2>1
  <2>5. at(n) = k
    BY <2>3, <2>4
  <2> QED
    BY <2>5 DEF n
<1>15. ASSUME More(snap, ns, page)
       PROVE  /\ page # <<>> /\ page[Len(page)].key \in Nat
              /\ ItemsOf(page) =
                    Items(snap, {k \in Selected(snap, ns) :
                                   k > from /\ k <= page[Len(page)].key})
  <2>1. page # <<>> /\ size \in 1..size /\ page[Len(page)].key = at(size)
    <3>1. page # <<>>
      BY <1>15 DEF More
    <3>2. size # 0
      BY <1>10, <1>11, <3>1, EmptySeq
    <3> QED
      BY <1>3, <1>10, <1>11, <3>1, <3>2
  <2>2. at(size) \in rest /\ at(size) \in Nat /\ Place(at(size)) = size - 1
    BY <1>1, <1>8, <2>1
  <2>3. ASSUME NEW k \in rest PROVE k <= at(size) <=> \E n \in 1..size : at(n) = k
    <3>1. CASE k <= at(size)
      <4>1. ~(Place(at(size)) < Place(k))
        <5>1. ~(at(size) < k)
          BY <1>1, <2>2, <3>1
        <5> QED
          BY <1>7, <2>2, <5>1
      <4>2. Place(k) + 1 \in 1..size
        BY <1>3, <1>7, <2>2, <4>1
      <4> QED
        BY <1>14, <3>1, <4>2
    <3>2. ASSUME NEW n \in 1..size, at(n) = k PROVE k <= at(size)
      <4>1. ~(Place(at(size)) < Place(k))
        BY <1>3, <1>8, <2>2, <3>2
      <4>2. ~(at(size) < k)
        BY <1>7, <2>2, <4>1
      <4> QED
        BY <1>1, <2>2, <4>2
    <3> QED
      BY <3>1, <3>2
  <2>4. {k \in Selected(snap, ns) : k > from /\ k <= at(size)} = {at(n) : n \in 1..size}
    <3>1. {k \in Selected(snap, ns) : k > from /\ k <= at(size)} = {k \in rest : k <= at(size)}
      BY DEF rest
    <3> QED
      BY <1>8, <2>3, <3>1
  <2>5. ItemsOf(page) = Items(snap, {at(n) : n \in 1..size})
    BY <1>10 DEF ItemsOf, Items
  <2> QED
    BY <2>1, <2>2, <2>4, <2>5
<1>16. ASSUME ~More(snap, ns, page)
       PROVE  ItemsOf(page) = Items(snap, {k \in Selected(snap, ns) : k > from})
  <2>1. size = c
    <3> SUFFICES ASSUME size # c PROVE FALSE
      OBVIOUS
    <3>1. size < c /\ size > 0 /\ size \in 1..size /\ size + 1 \in 1..c
      BY <1>1, <1>3
    <3>2. PICK k \in rest : Place(k) = size
      <4>1. size + 1 - 1 = size
        BY <1>3
      <4> QED
        BY <1>7, <3>1, <4>1
    <3>3. Place(at(size)) < Place(k) /\ at(size) \in rest
      BY <1>3, <1>8, <3>1, <3>2
    <3>4. at(size) < k
      BY <1>7, <3>3
    <3>5. page # <<>> /\ page[Len(page)].key = at(size)
      <4>1. Len(page) # 0
        BY <1>11, <3>1
      <4> QED
        BY <1>10, <1>11, <3>1, <4>1, EmptySeq
    <3>6. k \in Selected(snap, ns) /\ k > page[Len(page)].key
      BY <1>1, <3>3, <3>4, <3>5 DEF rest
    <3> QED
      BY <1>16, <3>5, <3>6 DEF More
  <2>2. ASSUME NEW k \in rest PROVE \E n \in 1..size : at(n) = k
    <3>1. Place(k) + 1 \in 1..size
      BY <1>1, <1>7, <2>1
    <3> QED
      BY <1>14, <3>1
  <2>3. rest = {at(n) : n \in 1..size}
    BY <1>8, <2>2
  <2>4. ItemsOf(page) = Items(snap, {at(n) : n \in 1..size})
    BY <1>10 DEF ItemsOf, Items
  <2> QED
    BY <2>3, <2>4 DEF rest
<1> QED
  BY <1>11, <1>12, <1>13, <1>15, <1>16 DEF Continues


(* The items collected so far are those of the pinned snapshot up to the   *)
(* last key, in order, so that the next page continues them.               *)
ListTypeOK ==
    /\ store \in Snapshot /\ cache \in Snapshot /\ rev \in Nat
    /\ list \in [pc : {"idle", "first", "next", "cached", "OK", "Unavailable"}, ns : Filters,
                 out : Seq(DeploymentItem), from : Nat, snap : Snapshot, pinned : Nat]

Collected ==
    list.pc = "next" =>
       /\ InOrder(list.out) /\ \A i \in DOMAIN list.out : list.out[i].key <= list.from
       /\ ItemsOf(list.out) =
             Items(list.snap, {k \in Selected(list.snap, list.ns) : k <= list.from})

NothingYet == list.pc \in {"first", "cached"} => list.out = <<>>

ListInv == ListTypeOK /\ NothingYet /\ Collected /\ ListIsSnapshot

LEMMA IdleListTyped ==
    /\ IdleList.out = <<>> /\ IdleList.pc = "idle"
    /\ IdleList \in [pc : {"idle", "first", "next", "cached", "OK", "Unavailable"}, ns : Filters,
                     out : Seq(DeploymentItem), from : Nat, snap : Snapshot, pinned : Nat]
<1>1. <<>> \in Seq(DeploymentItem)
  BY EmptySeq
<1> QED
  BY <1>1 DEF IdleList, Filters, Snapshot

LEMMA ListStarts == ListInit => ListInv
<1> SUFFICES ASSUME ListInit PROVE ListInv
  OBVIOUS
<1>1. ListTypeOK
  BY IdleListTyped DEF ListInit, ListTypeOK, Snapshot
<1>2. list.pc = "idle"
  BY IdleListTyped DEF ListInit
<1> QED
  BY <1>1, <1>2 DEF ListInv, NothingYet, Collected, ListIsSnapshot

(* A sequence in order has its items once. *)
LEMMA Appended ==
    ASSUME NEW s \in Seq(DeploymentItem), NEW t \in Seq(DeploymentItem),
           NEW from \in Nat, InOrder(s), InOrder(t),
           \A i \in DOMAIN s : s[i].key <= from,
           \A i \in DOMAIN t : t[i].key > from
    PROVE  /\ s \o t \in Seq(DeploymentItem) /\ InOrder(s \o t)
           /\ ItemsOf(s \o t) = ItemsOf(s) \cup ItemsOf(t)
<1>1. /\ s \o t \in Seq(DeploymentItem) /\ Len(s) \in Nat /\ Len(t) \in Nat
      /\ DOMAIN s = 1..Len(s) /\ DOMAIN t = 1..Len(t)
      /\ DOMAIN (s \o t) = 1..(Len(s) + Len(t))
      /\ \A i \in 1..(Len(s) + Len(t)) :
            (s \o t)[i] = IF i <= Len(s) THEN s[i] ELSE t[i - Len(s)]
  BY ConcatProperties, LenProperties
<1>2. /\ \A i \in 1..Len(s) : s[i] \in DeploymentItem /\ s[i].key \in Nat
      /\ \A i \in 1..Len(t) : t[i] \in DeploymentItem /\ t[i].key \in Nat
  <2>1. /\ \A i \in 1..Len(s) : s[i] \in DeploymentItem
        /\ \A i \in 1..Len(t) : t[i] \in DeploymentItem
    BY ElementOfSeq
  <2> QED
    BY <2>1, ListAssumption DEF DeploymentItem
<1> DEFINE u == s \o t
<1>3. /\ \A i \in 1..Len(s) : i \in DOMAIN u /\ u[i] = s[i]
      /\ \A i \in 1..Len(t) : i + Len(s) \in DOMAIN u /\ u[i + Len(s)] = t[i]
      /\ \A i \in DOMAIN u : \/ i \in 1..Len(s)
                             \/ i - Len(s) \in 1..Len(t) /\ i = (i - Len(s)) + Len(s)
  <2> HIDE DEF u
  <2>1. DOMAIN u = 1..(Len(s) + Len(t))
    BY <1>1 DEF u
  <2>2. \A i \in 1..(Len(s) + Len(t)) : u[i] = IF i <= Len(s) THEN s[i] ELSE t[i - Len(s)]
    BY <1>1 DEF u
  <2>3. \A i \in 1..Len(t) : (i + Len(s)) - Len(s) = i /\ ~(i + Len(s) <= Len(s))
    BY <1>1
  <2>4. /\ \A i \in 1..Len(s) : i \in DOMAIN u /\ u[i] = s[i]
        /\ \A i \in 1..Len(t) : i + Len(s) \in DOMAIN u
    BY <1>1, <2>1, <2>2
  <2>5. \A i \in 1..Len(t) : u[i + Len(s)] = t[i]
    BY <2>1, <2>2, <2>3, <2>4
  <2> QED
    BY <1>1, <2>1, <2>4, <2>5
<1> HIDE DEF u
<1>4. InOrder(u)
  <2> SUFFICES ASSUME NEW i \in DOMAIN u, NEW j \in DOMAIN u, i < j
               PROVE  u[i].key < u[j].key
    BY DEF InOrder
  <2>a. DOMAIN u = 1..(Len(s) + Len(t))
    BY <1>1 DEF u
  <2>1. CASE j \in 1..Len(s)
    <3>1. i \in 1..Len(s)
      BY <1>1, <2>a, <2>1
    <3> QED
      BY <1>1, <1>3, <2>1, <3>1 DEF InOrder
  <2>2. CASE i \notin 1..Len(s)
    <3>1. /\ i - Len(s) \in 1..Len(t) /\ j - Len(s) \in 1..Len(t)
          /\ i - Len(s) < j - Len(s)
          /\ i = (i - Len(s)) + Len(s) /\ j = (j - Len(s)) + Len(s)
      BY <1>1, <1>3, <2>a, <2>2
    <3>2. u[i] = t[i - Len(s)] /\ u[j] = t[j - Len(s)]
      BY <1>3, <3>1
    <3> QED
      BY <1>1, <3>1, <3>2 DEF InOrder
  <2>3. CASE i \in 1..Len(s) /\ j \notin 1..Len(s)
    <3>1. j - Len(s) \in 1..Len(t) /\ u[j] = t[j - Len(s)] /\ u[i] = s[i]
      BY <1>3, <2>3
    <3>2. s[i].key <= from /\ t[j - Len(s)].key > from
      BY <1>1, <2>3, <3>1
    <3> QED
      BY <1>2, <2>3, <3>1, <3>2
  <2> QED
    BY <2>1, <2>2, <2>3
<1>5. \A x : x \in ItemsOf(u) <=> x \in ItemsOf(s) \/ x \in ItemsOf(t)
  <2>1. ASSUME NEW i \in DOMAIN u PROVE u[i] \in ItemsOf(s) \cup ItemsOf(t)
    BY <1>1, <1>3 DEF ItemsOf
  <2>2. ASSUME NEW i \in DOMAIN s PROVE s[i] \in ItemsOf(u)
    BY <1>1, <1>3 DEF ItemsOf
  <2>3. ASSUME NEW i \in DOMAIN t PROVE t[i] \in ItemsOf(u)
    BY <1>1, <1>3 DEF ItemsOf
  <2> QED
    BY <2>1, <2>2, <2>3 DEF ItemsOf
<1> QED
  BY <1>1, <1>4, <1>5 DEF u

(* The result of sorting what is in order already has the same items, and *)
(* is in order.                                                            *)
LEMMA SortedKeeps ==
    ASSUME NEW s \in Seq(DeploymentItem), \A i, j \in DOMAIN s : s[i].key = s[j].key => i = j
    PROVE  /\ Sorted(s) \in Seq(DeploymentItem)
           /\ InOrder(Sorted(s)) /\ ItemsOf(Sorted(s)) = ItemsOf(s)
<1>1. Len(s) \in Nat /\ s \in [1..Len(s) -> DeploymentItem] /\ DOMAIN s = 1..Len(s)
  BY LenProperties
<1>2. /\ Sorted(s) \in [1..Len(s) -> DeploymentItem]
      /\ InOrder(Sorted(s)) /\ ItemsOf(Sorted(s)) = ItemsOf(s)
  BY <1>1, SortedIs
<1> QED
  BY <1>1, <1>2, SeqDef

(* One turn of the loop: what is collected stays a beginning of the list,  *)
(* and is the list when the page came without a token.                     *)
LEMMA CollectKeeps ==
    ASSUME ListInv, NEW snap \in Snapshot, NEW pinned \in Nat, NEW from \in Nat,
           NEW page, page = PageOf(snap, list.ns, from),
           InOrder(list.out), \A i \in DOMAIN list.out : list.out[i].key <= from,
           ItemsOf(list.out) = Items(snap, {k \in Selected(snap, list.ns) : k <= from}),
           Collect(snap, pinned, page),
           UNCHANGED <<informed, store, rev, oldest, cache, synced, lostPages>>
    PROVE  ListInv'
<1>1. /\ list \in [pc : {"idle", "first", "next", "cached", "OK", "Unavailable"}, ns : Filters,
                   out : Seq(DeploymentItem), from : Nat, snap : Snapshot, pinned : Nat]
      /\ list.ns \in Filters /\ list.out \in Seq(DeploymentItem)
  BY DEF ListInv, ListTypeOK
<1>2. /\ page \in Seq(DeploymentItem) /\ InOrder(page)
      /\ \A i \in DOMAIN page : page[i].key > from
      /\ More(snap, list.ns, page) =>
            /\ page # <<>> /\ page[Len(page)].key \in Nat
            /\ ItemsOf(page) =
                  Items(snap, {k \in Selected(snap, list.ns) :
                                 k > from /\ k <= page[Len(page)].key})
      /\ ~More(snap, list.ns, page) =>
            ItemsOf(page) = Items(snap, {k \in Selected(snap, list.ns) : k > from})
  <2>1. Continues(page, snap, list.ns, from)
    BY <1>1, PageIs
  <2> QED
    BY <2>1 DEF Continues
<1> DEFINE out == list.out \o page
           last == page[Len(page)].key
<1>3. /\ out \in Seq(DeploymentItem) /\ InOrder(out)
      /\ ItemsOf(out) = ItemsOf(list.out) \cup ItemsOf(page)
  BY <1>1, <1>2, Appended
<1>s. \A k \in Selected(snap, list.ns) : k \in Nat
  BY ListAssumption DEF Selected
<1>4. CASE More(snap, list.ns, page)
  <2>1. list' = [list EXCEPT !.pc = "next", !.out = out,
                             !.from = last, !.snap = snap, !.pinned = pinned]
    BY <1>4 DEF Collect
  <2>2. /\ last \in Nat /\ from < last /\ page # <<>>
        /\ Len(page) \in DOMAIN page
    <3>1. last \in Nat /\ page # <<>>
      BY <1>2, <1>4
    <3>2. Len(page) \in DOMAIN page
      BY <1>2, <3>1, EmptySeq, LenProperties
    <3> QED
      BY <1>2, <3>1, <3>2
  <2> HIDE DEF out, last
  <2>3. /\ list' \in [pc : {"idle", "first", "next", "cached", "OK", "Unavailable"}, ns : Filters,
                      out : Seq(DeploymentItem), from : Nat, snap : Snapshot, pinned : Nat]
        /\ list'.pc = "next" /\ list'.out = out /\ list'.from = last
        /\ list'.snap = snap /\ list'.ns = list.ns
    BY <1>1, <1>3, <2>1, <2>2
  <2>4. {k \in Selected(snap, list.ns) : k <= last} =
           {k \in Selected(snap, list.ns) : k <= from}
             \cup {k \in Selected(snap, list.ns) : k > from /\ k <= last}
    BY <1>s, <2>2
  <2>5. ItemsOf(out) = Items(snap, {k \in Selected(snap, list.ns) : k <= last})
    <3>1. ItemsOf(page) = Items(snap, {k \in Selected(snap, list.ns) : k > from /\ k <= last})
      BY <1>2, <1>4 DEF last
    <3>2. \A S, T : Items(snap, S \cup T) = Items(snap, S) \cup Items(snap, T)
      BY DEF Items
    <3> QED
      BY <1>3, <2>4, <3>1, <3>2
  <2>6. \A i \in DOMAIN out : out[i].key <= last
    <3> SUFFICES ASSUME NEW i \in DOMAIN out PROVE out[i].key <= last
      OBVIOUS
    <3>1. out[i] \in Items(snap, {k \in Selected(snap, list.ns) : k <= last})
      BY <2>5 DEF ItemsOf
    <3>2. PICK k \in Selected(snap, list.ns) : k <= last /\ out[i] = Item(snap, k)
      BY <3>1 DEF Items
    <3> QED
      BY <3>2 DEF Item
  <2>7. store' \in Snapshot /\ cache' \in Snapshot /\ rev' \in Nat
    BY DEF ListInv, ListTypeOK
  <2> QED
    BY <1>3, <2>3, <2>5, <2>6, <2>7
       DEF ListInv, ListTypeOK, NothingYet, Collected, ListIsSnapshot
<1>5. CASE ~More(snap, list.ns, page)
  <2>1. list' = [list EXCEPT !.pc = "OK", !.out = Sorted(out),
                             !.snap = snap, !.pinned = pinned]
    BY <1>5 DEF Collect
  <2> HIDE DEF out
  <2>2. /\ Sorted(out) \in Seq(DeploymentItem)
        /\ InOrder(Sorted(out)) /\ ItemsOf(Sorted(out)) = ItemsOf(out)
    <3>1. /\ DOMAIN out = 1..Len(out) /\ Len(out) \in Nat
          /\ \A i \in DOMAIN out : out[i] \in DeploymentItem
      BY <1>3, LenProperties, ElementOfSeq
    <3>2. \A i \in DOMAIN out : out[i].key \in Nat
      BY <3>1, ListAssumption DEF DeploymentItem
    <3>3. ASSUME NEW i \in DOMAIN out, NEW j \in DOMAIN out, out[i].key = out[j].key
          PROVE  i = j
      <4>1. ~(i < j) /\ ~(j < i)
        BY <1>3, <3>2, <3>3 DEF InOrder
      <4> QED
        BY <3>1, <4>1
    <3> QED
      BY <1>3, <3>3, SortedKeeps
  <2>3. /\ list' \in [pc : {"idle", "first", "next", "cached", "OK", "Unavailable"}, ns : Filters,
                      out : Seq(DeploymentItem), from : Nat, snap : Snapshot, pinned : Nat]
        /\ list'.pc = "OK" /\ list'.out = Sorted(out)
        /\ list'.snap = snap /\ list'.ns = list.ns
    BY <1>1, <2>1, <2>2
  <2>4. Selected(snap, list.ns) =
           {k \in Selected(snap, list.ns) : k <= from}
             \cup {k \in Selected(snap, list.ns) : k > from}
    BY <1>s
  <2>5. ItemsOf(Sorted(out)) = Items(snap, Selected(snap, list.ns))
    <3>1. \A S, T : Items(snap, S \cup T) = Items(snap, S) \cup Items(snap, T)
      BY DEF Items
    <3> QED
      BY <1>2, <1>3, <1>5, <2>2, <2>4, <3>1
  <2>6. store' \in Snapshot /\ cache' \in Snapshot /\ rev' \in Nat
    BY DEF ListInv, ListTypeOK
  <2>7. ListIsSnapshot'
    <3>1. /\ {list'.out[i] : i \in DOMAIN list'.out} = Items(list'.snap, Selected(list'.snap, list'.ns))
          /\ \A i, j \in DOMAIN list'.out : i < j => list'.out[i].key < list'.out[j].key
      BY <2>2, <2>3, <2>5 DEF ItemsOf, InOrder
    <3> QED
      BY <3>1 DEF ListIsSnapshot
  <2> QED
    BY <2>3, <2>6, <2>7 DEF ListInv, ListTypeOK, NothingYet, Collected
<1> QED
  BY <1>4, <1>5


(* What a call does, and what others do meanwhile. *)
LEMMA ListKept == ListInv /\ [ListNext]_listVars => ListInv'
<1> SUFFICES ASSUME ListInv, [ListNext]_listVars PROVE ListInv'
  OBVIOUS
<1>1. CASE UNCHANGED listVars
  BY <1>1 DEF listVars, ListInv, ListTypeOK, NothingYet, Collected, ListIsSnapshot
<1>t. /\ list \in [pc : {"idle", "first", "next", "cached", "OK", "Unavailable"}, ns : Filters,
                   out : Seq(DeploymentItem), from : Nat, snap : Snapshot, pinned : Nat]
      /\ store \in Snapshot /\ cache \in Snapshot /\ rev \in Nat
      /\ list.ns \in Filters /\ list.snap \in Snapshot /\ list.from \in Nat
      /\ list.pinned \in Nat
  BY DEF ListInv, ListTypeOK
<1>2. ASSUME NEW pc \in {"idle", "first", "cached", "Unavailable"}, NEW ns \in Filters,
             list' = [IdleList EXCEPT !.pc = pc, !.ns = ns],
             UNCHANGED <<store, rev, cache>>
      PROVE  ListInv'
  <2>1. /\ list' \in [pc : {"idle", "first", "next", "cached", "OK", "Unavailable"}, ns : Filters,
                      out : Seq(DeploymentItem), from : Nat, snap : Snapshot, pinned : Nat]
        /\ list'.pc = pc /\ list'.out = <<>>
    BY <1>2, IdleListTyped
  <2> QED
    BY <1>2, <1>t, <2>1 DEF ListInv, ListTypeOK, NothingYet, Collected, ListIsSnapshot
<1>3. CASE Start
  <2>1. PICK ns \in {"", "system", "other"} :
           list' = [IdleList EXCEPT !.pc = IF informed THEN "cached" ELSE "first", !.ns = ns]
    BY <1>3 DEF Start
  <2>2. UNCHANGED <<store, rev, cache>>
    BY <1>3 DEF Start
  <2> QED
    BY <1>2, <2>1, <2>2 DEF Filters
<1>4. ASSUME Lost, UNCHANGED <<store, rev, cache>> PROVE ListInv'
  <2>1. list' = [IdleList EXCEPT !.pc = "Unavailable", !.ns = IdleList.ns]
    BY <1>4, IdleListTyped DEF Lost
  <2>2. IdleList.ns \in Filters
    BY IdleListTyped
  <2> QED
    BY <1>2, <1>4, <2>1, <2>2
<1>5. CASE PageFails \/ ListUnsynced
  BY <1>4, <1>5 DEF PageFails, ListUnsynced
<1>6. CASE FirstPage
  <2>1. PICK page : page = PageOf(store, list.ns, 0) /\ Collect(store, rev, page)
    BY <1>6 DEF FirstPage
  <2>2. list.out = <<>> /\ UNCHANGED <<informed, store, rev, oldest, cache, synced, lostPages>>
    BY <1>6 DEF FirstPage, ListInv, NothingYet
  <2>3. /\ InOrder(list.out) /\ \A i \in DOMAIN list.out : list.out[i].key <= 0
        /\ ItemsOf(list.out) = {}
    <3>1. DOMAIN list.out = {}
      <4>1. Len(list.out) = 0 /\ DOMAIN list.out = 1..Len(list.out)
        BY <1>t, <2>2, EmptySeq, LenProperties
      <4> QED
        BY <4>1
    <3> QED
      BY <3>1 DEF InOrder, ItemsOf
  <2>4. Items(store, {k \in Selected(store, list.ns) : k <= 0}) = {}
    <3>1. \A k \in Selected(store, list.ns) : k \in Nat \ {0}
      BY ListAssumption DEF Selected
    <3>2. {k \in Selected(store, list.ns) : k <= 0} = {}
      BY <3>1
    <3> QED
      BY <3>2 DEF Items
  <2> QED
    BY <1>t, <2>1, <2>2, <2>3, <2>4, CollectKeeps
<1>7. CASE NextPage
  <2>1. CASE list.pinned < oldest
    BY <1>4, <1>7, <2>1 DEF NextPage
  <2>2. CASE ~(list.pinned < oldest)
    <3>1. PICK page : /\ page = PageOf(list.snap, list.ns, list.from)
                      /\ Collect(list.snap, list.pinned, page)
      BY <1>7, <2>2 DEF NextPage
    <3>2. UNCHANGED <<informed, store, rev, oldest, cache, synced, lostPages>>
      BY <1>7 DEF NextPage
    <3>3. /\ InOrder(list.out) /\ \A i \in DOMAIN list.out : list.out[i].key <= list.from
          /\ ItemsOf(list.out) =
                Items(list.snap, {k \in Selected(list.snap, list.ns) : k <= list.from})
      BY <1>7 DEF NextPage, ListInv, Collected
    <3> QED
      BY <1>t, <3>1, <3>2, <3>3, CollectKeeps
  <2> QED
    BY <2>1, <2>2
<1>8. CASE ListCached
  <2> DEFINE S == Items(cache, Selected(cache, list.ns))
             D == 1..Cardinality(S)
  <2>1. PICK items \in SetToSeqs(S) :
           list' = [list EXCEPT !.pc = "OK", !.out = Sorted(items), !.snap = cache]
    BY <1>8 DEF ListCached
  <2>2. IsFiniteSet(S) /\ Cardinality(S) \in Nat
    <3> DEFINE ks == Selected(cache, list.ns)
               g == [k \in ks |-> Item(cache, k)]
    <3>1. IsFiniteSet(ks)
      <4>1. ks \in SUBSET Deployments
        BY DEF Selected
      <4> QED
        BY <4>1, ListAssumption, FS_Subset
    <3>2. g \in Surjection(ks, S)
      BY DEF Surjection, Items
    <3> HIDE DEF g, ks, S
    <3>3. IsFiniteSet(S)
      BY <3>1, <3>2, FS_Surjection
    <3> QED
      BY <3>3, FS_CardinalityType
  <2>3. items \in [D -> S] /\ \A i, j \in D : i # j => items[i] # items[j]
    <3> HIDE DEF S
    <3> QED
      BY <2>1 DEF SetToSeqs
  <2>4. S \subseteq DeploymentItem
    <3>1. \A k \in Deployments : cache[k] \in Nat
      BY <1>t DEF Snapshot
    <3>2. \A k \in Deployments : Item(cache, k) \in DeploymentItem
      BY <3>1 DEF Item, DeploymentItem
    <3> QED
      BY <3>2 DEF Items, Selected
  <2>5. items \in Injection(D, S)
    BY <2>3 DEF Injection, IsInjective
  <2>6. ItemsOf(items) = S
    <3>1. IsFiniteSet(D) /\ Cardinality(D) = Cardinality(S)
      <4> HIDE DEF S
      <4> QED
        BY <2>2, FS_Interval
    <3>2. items \in Surjection(D, S)
      <4> HIDE DEF S, D
      <4> QED
        BY <2>2, <2>5, <3>1, FS_Injection
    <3> HIDE DEF S
    <3> QED
      BY <2>3, <3>2 DEF Surjection, ItemsOf
  <2>7. \A i, j \in D : items[i].key = items[j].key => i = j
    <3> SUFFICES ASSUME NEW i \in D, NEW j \in D, items[i].key = items[j].key PROVE i = j
      OBVIOUS
    <3>1. items[i] \in S /\ items[j] \in S
      BY <2>3
    <3>2. items[i] = items[j]
      BY <3>1 DEF Items, Item
    <3> HIDE DEF S
    <3> QED
      BY <2>3, <3>2
  <2> DEFINE n == Cardinality(S)
  <2> HIDE DEF S
  <2>8. items \in [1..n -> DeploymentItem] /\ n \in Nat
    BY <2>2, <2>3, <2>4
  <2>9. /\ Sorted(items) \in [1..n -> DeploymentItem]
        /\ InOrder(Sorted(items)) /\ ItemsOf(Sorted(items)) = S
    <3> HIDE DEF n
    <3>1. D = 1..n
      BY DEF n
    <3> QED
      BY <2>6, <2>7, <2>8, <3>1, SortedIs
  <2>10. Sorted(items) \in Seq(DeploymentItem)
    BY <2>8, <2>9, SeqDef
  <2>11. /\ list' \in [pc : {"idle", "first", "next", "cached", "OK", "Unavailable"}, ns : Filters,
                       out : Seq(DeploymentItem), from : Nat, snap : Snapshot, pinned : Nat]
         /\ list'.pc = "OK" /\ list'.out = Sorted(items)
         /\ list'.snap = cache /\ list'.ns = list.ns
    BY <1>t, <2>1, <2>10
  <2>12. ListIsSnapshot'
    <3>1. /\ {list'.out[i] : i \in DOMAIN list'.out} = Items(list'.snap, Selected(list'.snap, list'.ns))
          /\ \A i, j \in DOMAIN list'.out : i < j => list'.out[i].key < list'.out[j].key
      BY <2>9, <2>11 DEF ItemsOf, InOrder, S
    <3> QED
      BY <3>1 DEF ListIsSnapshot
  <2>13. store' \in Snapshot /\ cache' \in Snapshot /\ rev' \in Nat
    BY <1>8, <1>t DEF ListCached
  <2> QED
    BY <2>11, <2>12, <2>13 DEF ListInv, ListTypeOK, NothingYet, Collected
<1>9. CASE Change \/ Compact \/ CacheFollows
  <2>1. list' = list
    BY <1>9 DEF Change, Compact, CacheFollows
  <2>2. store' \in Snapshot /\ cache' \in Snapshot /\ rev' \in Nat
    BY <1>9, <1>t DEF Change, Compact, CacheFollows, Snapshot
  <2> QED
    BY <2>1, <2>2 DEF ListInv, ListTypeOK, NothingYet, Collected, ListIsSnapshot
<1> QED
  BY <1>1, <1>3, <1>5, <1>6, <1>7, <1>8, <1>9 DEF ListNext, ListStep


(* A list is the whole of one moment: however many pages it takes, what-   *)
(* ever comes and goes in between, and in whatever order a cache holds its *)
(* items (backend.go, List).                                               *)
THEOREM ListWhole == ListSpec => []ListIsSnapshot
<1>1. ListInv => ListIsSnapshot
  BY DEF ListInv
<1> QED
  BY <1>1, ListStarts, ListKept, PTL DEF ListSpec


-----------------------------------------------------------------------------
(* Keys *)

(* Finite sets of numbers have a least and a greatest element. *)
LEMMA Extremes ==
    ASSUME NEW T, IsFiniteSet(T), T \subseteq Nat, T # {}
    PROVE  /\ \E a \in T : \A b \in T : a <= b
           /\ \E a \in T : \A b \in T : b <= a
<1> DEFINE f == [k \in T |-> k]
           c == Cardinality(T)
           Place(k) == Cardinality(Below(T, f, k))
<1>1. f \in [T -> Nat] /\ \A a, b \in T : f[a] = f[b] => a = b
  OBVIOUS
<1>2. /\ c \in Nat /\ \A a \in T : Place(a) \in 0..(c - 1)
      /\ \A a, b \in T : f[a] < f[b] <=> Place(a) < Place(b)
      /\ \A n \in 1..c : \E a \in T : Place(a) = n - 1
  <2> HIDE DEF f
  <2> QED
    BY <1>1, Places
<1>3. c > 0
  BY <1>2, FS_EmptySet
<1>4. \A a, b \in T : a < b <=> Place(a) < Place(b)
  <2>1. \A a \in T : f[a] = a
    OBVIOUS
  <2> HIDE DEF f, Place
  <2> QED
    BY <1>2, <2>1
<1> HIDE DEF Place, c
<1>5. PICK a \in T : Place(a) = 0
  <2>1. 1 \in 1..c /\ 1 - 1 = 0
    BY <1>2, <1>3
  <2> QED
    BY <1>2, <2>1
<1>6. PICK z \in T : Place(z) = c - 1
  <2>1. c \in 1..c
    BY <1>2, <1>3
  <2> QED
    BY <1>2, <2>1
<1>7. \A b \in T : ~(Place(b) < Place(a)) /\ ~(Place(z) < Place(b))
  BY <1>2, <1>5, <1>6
<1>8. \A b \in T : ~(b < a) /\ ~(z < b)
  BY <1>4, <1>7
<1>9. a \in Nat /\ z \in Nat
  OBVIOUS
<1> QED
  BY <1>8, <1>9

(* Where strings.Split cuts, and what lies between the cuts. *)
Cuts(s, sep) == {i \in DOMAIN s : s[i] = sep}
Begins(s, sep) == {1} \cup {i + 1 : i \in Cuts(s, sep)}

Piece(s, sep, i, j) ==
    /\ i \in Begins(s, sep) /\ i >= 1
    /\ j \in i..(Len(s) + 1) /\ j \in Cuts(s, sep) \cup {Len(s) + 1}
    /\ \A k \in i..(j - 1) : k \notin Cuts(s, sep)

LEMMA CutsFinite ==
    ASSUME NEW s \in Seq(Chars), NEW sep
    PROVE  /\ Len(s) \in Nat /\ DOMAIN s = 1..Len(s)
           /\ Cuts(s, sep) \subseteq 1..Len(s)
           /\ IsFiniteSet(Cuts(s, sep)) /\ Cardinality(Cuts(s, sep)) \in Nat
           /\ Begins(s, sep) \subseteq 1..(Len(s) + 1)
           /\ IsFiniteSet(Begins(s, sep))
           /\ Cardinality(Begins(s, sep)) = Cardinality(Cuts(s, sep)) + 1
<1>1. Len(s) \in Nat /\ DOMAIN s = 1..Len(s)
  BY LenProperties
<1>2. Cuts(s, sep) \subseteq 1..Len(s)
  BY <1>1 DEF Cuts
<1>3. IsFiniteSet(1..Len(s))
  BY <1>1, FS_Interval
<1>4. IsFiniteSet(Cuts(s, sep)) /\ Cardinality(Cuts(s, sep)) \in Nat
  BY <1>2, <1>3, FS_Subset, FS_CardinalityType
<1> DEFINE C == Cuts(s, sep)
           T == {i + 1 : i \in C}
           g == [i \in C |-> i + 1]
<1>5. T \subseteq 2..(Len(s) + 1) /\ 1 \notin T
  BY <1>1, <1>2
<1>6. g \in Bijection(C, T)
  <2>1. g \in [C -> T] /\ \A t \in T : \E i \in C : g[i] = t
    OBVIOUS
  <2>2. \A i, j \in C : g[i] = g[j] => i = j
    BY <1>1, <1>2
  <2> QED
    BY <2>1, <2>2 DEF Bijection, Injection, Surjection, IsInjective
<1> HIDE DEF C, T, g
<1>7. IsFiniteSet(T) /\ Cardinality(T) = Cardinality(C)
  <2>1. ExistsBijection(C, T)
    BY <1>6 DEF ExistsBijection
  <2> QED
    BY <1>4, <2>1, FS_Bijection DEF C
<1>8. IsFiniteSet(T \cup {1}) /\ Cardinality(T \cup {1}) = Cardinality(T) + 1
  BY <1>5, <1>7, FS_AddElement
<1>9. Begins(s, sep) = T \cup {1}
  BY DEF Begins, T, C
<1>10. Begins(s, sep) \subseteq 1..(Len(s) + 1)
  BY <1>1, <1>5, <1>9
<1> QED
  BY <1>1, <1>2, <1>4, <1>7, <1>8, <1>9, <1>10 DEF C

(* A piece begins wherever one may, and ends at the next cut. *)
LEMMA PieceFrom ==
    ASSUME NEW s \in Seq(Chars), NEW sep, NEW i \in Begins(s, sep)
    PROVE  \E j \in i..(Len(s) + 1) : Piece(s, sep, i, j)
<1> DEFINE T == {j \in i..(Len(s) + 1) : j \in Cuts(s, sep) \cup {Len(s) + 1}}
<1>1. Len(s) \in Nat /\ i \in 1..(Len(s) + 1)
  BY CutsFinite
<1>2. IsFiniteSet(T) /\ T \subseteq Nat /\ T # {}
  <2>1. IsFiniteSet(i..(Len(s) + 1))
    BY <1>1, FS_Interval
  <2>2. IsFiniteSet(T)
    BY <2>1, FS_Subset
  <2>3. Len(s) + 1 \in T
    BY <1>1
  <2> QED
    BY <1>1, <2>2, <2>3
<1>3. PICK j \in T : \A b \in T : j <= b
  <2> HIDE DEF T
  <2> QED
    BY <1>2, Extremes
<1>4. ASSUME NEW k \in i..(j - 1) PROVE k \notin Cuts(s, sep)
  <2>1. k \in i..(Len(s) + 1) /\ ~(j <= k)
    BY <1>1
  <2> QED
    BY <1>3, <2>1
<1> QED
  BY <1>1, <1>4 DEF Piece

(* Only one piece begins at a place. *)
LEMMA PieceOnce ==
    ASSUME NEW s \in Seq(Chars), NEW sep, NEW i, NEW j, NEW l,
           Piece(s, sep, i, j), Piece(s, sep, i, l)
    PROVE  j = l
<1>1. Len(s) \in Nat /\ i \in 1..(Len(s) + 1) /\ Cuts(s, sep) \subseteq 1..Len(s)
  BY CutsFinite DEF Piece
<1>2. j \in i..(Len(s) + 1) /\ l \in i..(Len(s) + 1)
  BY DEF Piece
<1>3. ASSUME j < l PROVE FALSE
  <2>1. j \in i..(l - 1) /\ j # Len(s) + 1
    BY <1>1, <1>2, <1>3
  <2> QED
    BY <2>1 DEF Piece
<1>4. ASSUME l < j PROVE FALSE
  <2>1. l \in i..(j - 1) /\ l # Len(s) + 1
    BY <1>1, <1>2, <1>4
  <2> QED
    BY <2>1 DEF Piece
<1> QED
  BY <1>1, <1>2, <1>3, <1>4

(* Every character that is no separator lies in a piece. *)
LEMMA PieceAround ==
    ASSUME NEW s \in Seq(Chars), NEW sep, NEW q \in 1..Len(s), q \notin Cuts(s, sep)
    PROVE  \E i, j \in 1..(Len(s) + 1) : Piece(s, sep, i, j) /\ i <= q /\ q < j
<1> DEFINE T == {i \in Begins(s, sep) : i <= q}
<1>1. /\ Len(s) \in Nat /\ Begins(s, sep) \subseteq 1..(Len(s) + 1)
      /\ IsFiniteSet(Begins(s, sep)) /\ Cuts(s, sep) \subseteq 1..Len(s)
  BY CutsFinite
<1>2. IsFiniteSet(T) /\ T \subseteq Nat /\ T # {}
  <2>1. 1 \in T
    BY <1>1 DEF Begins
  <2> QED
    BY <1>1, <2>1, FS_Subset
<1>3. PICK i \in T : \A b \in T : b <= i
  <2> HIDE DEF T
  <2> QED
    BY <1>2, Extremes
<1>4. PICK j \in i..(Len(s) + 1) : Piece(s, sep, i, j)
  BY PieceFrom
<1>5. q < j
  <2> SUFFICES ASSUME j <= q PROVE FALSE
    BY <1>1
  <2>1. j \in Cuts(s, sep) /\ j # q
    BY <1>1, <1>4 DEF Piece
  <2>2. j + 1 \in T
    BY <1>1, <2>1 DEF Begins
  <2> QED
    BY <1>1, <1>3, <2>2
<1>6. i \in 1..(Len(s) + 1) /\ j \in 1..(Len(s) + 1) /\ i <= q
  BY <1>1
<1> QED
  BY <1>4, <1>5, <1>6

(* strings.Split returns the pieces, all of them, from left to right. *)
SplitFrom(s, sep, parts) ==
    /\ DOMAIN parts = 1..(Cardinality(Cuts(s, sep)) + 1)
    /\ Len(parts) = Cardinality(Cuts(s, sep)) + 1
    /\ \A n \in DOMAIN parts : \E i, j \in 1..(Len(s) + 1) :
          /\ Piece(s, sep, i, j) /\ parts[n] = SubSeq(s, i, j - 1)
          /\ Cardinality({k \in Begins(s, sep) : k < i}) = n - 1
    /\ \A i, j \in 1..(Len(s) + 1) :
          Piece(s, sep, i, j) => \E n \in DOMAIN parts : parts[n] = SubSeq(s, i, j - 1)

LEMMA SplitIs ==
    ASSUME NEW s \in Seq(Chars), NEW sep
    PROVE  SplitFrom(s, sep, Split(s, sep))
<1> DEFINE cuts == {i \in DOMAIN s : s[i] = sep}
           from == {1} \cup {i + 1 : i \in cuts}
           Upto(i) == CHOOSE j \in i..(Len(s) + 1) :
                         /\ j \in cuts \cup {Len(s) + 1}
                         /\ \A k \in i..(j - 1) : k \notin cuts
           at(n) == CHOOSE i \in from : Cardinality({k \in from : k < i}) = n - 1
           c == Cardinality(cuts)
<1>1. /\ cuts = Cuts(s, sep) /\ from = Begins(s, sep)
      /\ Len(s) \in Nat /\ c \in Nat /\ IsFiniteSet(from) /\ Cardinality(from) = c + 1
      /\ from \subseteq 1..(Len(s) + 1)
  BY CutsFinite DEF Cuts, Begins
<1>2. Split(s, sep) = [n \in 1..(c + 1) |-> SubSeq(s, at(n), Upto(at(n)) - 1)]
  BY DEF Split
<1>3. \A i \in from : Upto(i) \in i..(Len(s) + 1) /\ Piece(s, sep, i, Upto(i))
  <2> SUFFICES ASSUME NEW i \in from
               PROVE  Upto(i) \in i..(Len(s) + 1) /\ Piece(s, sep, i, Upto(i))
    OBVIOUS
  <2>1. \E j \in i..(Len(s) + 1) : /\ j \in cuts \cup {Len(s) + 1}
                                   /\ \A k \in i..(j - 1) : k \notin cuts
    <3>1. \E j \in i..(Len(s) + 1) : Piece(s, sep, i, j)
      BY <1>1, PieceFrom
    <3> HIDE DEF cuts, from
    <3> QED
      BY <1>1, <3>1 DEF Piece
  <2>2. /\ Upto(i) \in i..(Len(s) + 1) /\ Upto(i) \in cuts \cup {Len(s) + 1}
        /\ \A k \in i..(Upto(i) - 1) : k \notin cuts
    <3> HIDE DEF cuts, from
    <3> QED
      BY <2>1
  <2> HIDE DEF cuts, from, Upto
  <2>3. i >= 1
    BY <1>1
  <2> QED
    BY <1>1, <2>2, <2>3 DEF Piece
<1> HIDE DEF Upto, cuts, from, c
<1> DEFINE f == [k \in from |-> k]
           Place(i) == Cardinality({k \in from : k < i})
<1>4. /\ \A i \in from : Place(i) \in 0..c
      /\ \A i, k \in from : i < k <=> Place(i) < Place(k)
      /\ \A n \in 1..(c + 1) : \E i \in from : Place(i) = n - 1
  <2>1. f \in [from -> Nat] /\ \A a, b \in from : f[a] = f[b] => a = b
    BY <1>1
  <2>2. \A i \in from : Place(i) = Cardinality(Below(from, f, i)) /\ f[i] = i
    <3>1. \A i \in from : {k \in from : k < i} = Below(from, f, i)
      BY DEF Below
    <3> QED
      BY <3>1
  <2>3. /\ \A a \in from : Cardinality(Below(from, f, a)) \in 0..(Cardinality(from) - 1)
        /\ \A a, b \in from :
              f[a] < f[b] <=> Cardinality(Below(from, f, a)) < Cardinality(Below(from, f, b))
        /\ \A n \in 1..Cardinality(from) :
              \E a \in from : Cardinality(Below(from, f, a)) = n - 1
    <3> HIDE DEF f, Place
    <3> QED
      BY <1>1, <2>1, Places
  <2>4. (c + 1) - 1 = c
    BY <1>1
  <2> HIDE DEF f, Place
  <2>5. \A i \in from : Place(i) \in 0..c
    BY <1>1, <2>2, <2>3, <2>4
  <2>6. \A i, k \in from : i < k <=> Place(i) < Place(k)
    BY <2>2, <2>3
  <2>7. \A n \in 1..(c + 1) : \E i \in from : Place(i) = n - 1
    BY <1>1, <2>2, <2>3
  <2> QED
    BY <2>5, <2>6, <2>7
<1>5. \A n \in 1..(c + 1) : at(n) \in from /\ Place(at(n)) = n - 1
  <2> SUFFICES ASSUME NEW n \in 1..(c + 1) PROVE at(n) \in from /\ Place(at(n)) = n - 1
    OBVIOUS
  <2>1. \E i \in from : Place(i) = n - 1
    BY <1>4
  <2> QED
    BY <2>1
<1> HIDE DEF at
<1>6. ASSUME NEW i \in from PROVE Place(i) + 1 \in 1..(c + 1) /\ at(Place(i) + 1) = i
  <2> DEFINE n == Place(i) + 1
  <2>1. Place(i) \in 0..c
    BY <1>4
  <2> HIDE DEF Place
  <2>2. n \in 1..(c + 1) /\ n - 1 = Place(i)
    BY <1>1, <2>1
  <2>3. at(n) \in from /\ Place(at(n)) = Place(i)
    BY <1>5, <2>2
  <2> HIDE DEF n
  <2>4. ~(at(n) < i) /\ ~(i < at(n))
    BY <1>4, <2>1, <2>3
  <2>5. at(n) \in Nat /\ i \in Nat
    BY <1>1, <2>3
  <2> QED
    BY <2>2, <2>4, <2>5 DEF n
<1>7. DOMAIN Split(s, sep) = 1..(c + 1) /\ Len(Split(s, sep)) = c + 1
  <2>1. DOMAIN Split(s, sep) = 1..(c + 1)
    BY <1>2
  <2> DEFINE parts == {SubSeq(s, at(n), Upto(at(n)) - 1) : n \in 1..(c + 1)}
  <2>2. Split(s, sep) \in Seq(parts)
    <3>1. Split(s, sep) \in [1..(c + 1) -> parts]
      BY <1>2
    <3>2. c + 1 \in Nat
      BY <1>1
    <3> HIDE DEF parts
    <3> QED
      BY <3>1, <3>2, SeqDef
  <2>3. Len(Split(s, sep)) \in Nat /\ 1..Len(Split(s, sep)) = 1..(c + 1)
    BY <2>1, <2>2, LenProperties
  <2> QED
    BY <1>1, <2>1, <2>3
<1>8. ASSUME NEW n \in 1..(c + 1)
      PROVE  \E i, j \in 1..(Len(s) + 1) :
                /\ Piece(s, sep, i, j) /\ Split(s, sep)[n] = SubSeq(s, i, j - 1)
                /\ Cardinality({k \in Begins(s, sep) : k < i}) = n - 1
  <2>1. at(n) \in from /\ Place(at(n)) = n - 1
    BY <1>5
  <2>2. /\ Upto(at(n)) \in 1..(Len(s) + 1) /\ at(n) \in 1..(Len(s) + 1)
        /\ Piece(s, sep, at(n), Upto(at(n)))
    BY <1>1, <1>3, <2>1
  <2>3. Split(s, sep)[n] = SubSeq(s, at(n), Upto(at(n)) - 1)
    BY <1>2
  <2> QED
    BY <1>1, <2>1, <2>2, <2>3
<1>9. ASSUME NEW i \in 1..(Len(s) + 1), NEW j \in 1..(Len(s) + 1), Piece(s, sep, i, j)
      PROVE  \E n \in 1..(c + 1) : Split(s, sep)[n] = SubSeq(s, i, j - 1)
  <2>1. i \in from
    BY <1>1, <1>9 DEF Piece
  <2>2. j = Upto(i)
    BY <1>3, <1>9, <2>1, PieceOnce
  <2>3. Place(i) + 1 \in 1..(c + 1) /\ at(Place(i) + 1) = i
    BY <1>6, <2>1
  <2>4. Split(s, sep)[Place(i) + 1] = SubSeq(s, i, j - 1)
    BY <1>2, <2>2, <2>3
  <2> QED
    BY <2>3, <2>4
<1>10. c = Cardinality(Cuts(s, sep))
  BY <1>1 DEF c
<1> QED
  BY <1>7, <1>8, <1>9, <1>10 DEF SplitFrom


(* A part of a sequence, by positions. *)
LEMMA PartIs ==
    ASSUME NEW s \in Seq(Chars), NEW i \in 1..(Len(s) + 1), NEW j \in i..(Len(s) + 1)
    PROVE  /\ SubSeq(s, i, j - 1) \in Seq(Chars) /\ Len(SubSeq(s, i, j - 1)) = j - i
           /\ DOMAIN SubSeq(s, i, j - 1) = 1..(j - i)
           /\ \A k \in 1..(j - i) : SubSeq(s, i, j - 1)[k] = s[i + k - 1]
<1>1. Len(s) \in Nat
  BY LenProperties
<1>2. \A k \in i..(j - 1) : s[k] \in Chars
  BY <1>1, ElementOfSeq
<1>3. /\ SubSeq(s, i, j - 1) \in Seq(Chars)
      /\ Len(SubSeq(s, i, j - 1)) = IF i <= j - 1 THEN (j - 1) - i + 1 ELSE 0
      /\ \A k \in 1..((j - 1) - i + 1) : SubSeq(s, i, j - 1)[k] = s[i + k - 1]
  BY <1>1, <1>2, SubSeqProperties
<1>4. (j - 1) - i + 1 = j - i /\ (i <= j - 1 \/ j - i = 0)
  BY <1>1
<1>5. Len(SubSeq(s, i, j - 1)) = j - i
  BY <1>3, <1>4
<1> QED
  BY <1>3, <1>4, <1>5, LenProperties

(* dnsLabel, by positions. *)
LabelAt(s, i, j) ==
    /\ i < j /\ s[i] = "a" /\ s[j - 1] = "a"
    /\ \A k \in i..(j - 1) : s[k] \in {"a", "-"}

LEMMA LabelIs ==
    ASSUME NEW s \in Seq(Chars), NEW i \in 1..(Len(s) + 1), NEW j \in i..(Len(s) + 1)
    PROVE  dnsLabel(SubSeq(s, i, j - 1)) <=> LabelAt(s, i, j)
<1> DEFINE w == SubSeq(s, i, j - 1)
<1>1. /\ Len(s) \in Nat /\ w \in Seq(Chars) /\ Len(w) = j - i /\ DOMAIN w = 1..(j - i)
      /\ \A k \in 1..(j - i) : w[k] = s[i + k - 1]
  BY PartIs, LenProperties
<1> HIDE DEF w
<1>2. w # <<>> <=> i < j
  <2>1. w = <<>> <=> Len(w) = 0
    BY <1>1, EmptySeq
  <2> QED
    BY <1>1, <2>1
<1>3. ASSUME i < j
      PROVE  /\ w[1] = s[i] /\ w[Len(w)] = s[j - 1]
             /\ (\A k \in DOMAIN w : w[k] \in {"a", "-"})
                <=> (\A k \in i..(j - 1) : s[k] \in {"a", "-"})
  <2>1. /\ 1 \in 1..(j - i) /\ j - i \in 1..(j - i) /\ i + 1 - 1 = i
        /\ i + (j - i) - 1 = j - 1
    BY <1>1, <1>3
  <2>2. w[1] = s[i] /\ w[Len(w)] = s[j - 1]
    BY <1>1, <2>1
  <2>3. \A k \in 1..(j - i) : i + k - 1 \in i..(j - 1)
    BY <1>1
  <2>4. \A k \in i..(j - 1) : k - i + 1 \in 1..(j - i) /\ i + (k - i + 1) - 1 = k
    BY <1>1
  <2>5. ASSUME \A k \in DOMAIN w : w[k] \in {"a", "-"}, NEW k \in i..(j - 1)
        PROVE  s[k] \in {"a", "-"}
    <3>1. k - i + 1 \in DOMAIN w /\ w[k - i + 1] = s[k]
      BY <1>1, <2>4
    <3> QED
      BY <2>5, <3>1
  <2>6. ASSUME \A k \in i..(j - 1) : s[k] \in {"a", "-"}, NEW k \in DOMAIN w
        PROVE  w[k] \in {"a", "-"}
    BY <1>1, <2>3, <2>6
  <2> QED
    BY <2>2, <2>5, <2>6
<1> QED
  BY <1>2, <1>3 DEF dnsLabel, LabelAt, w

(* A place with another one after it is not the last. *)
LEMMA NotLast ==
    ASSUME NEW N \in Nat, NEW q \in 1..N
    PROVE  q + 1 \in 1..N <=> q # N
OBVIOUS

(* All labels of a name are valid exactly if it is a subdomain. *)
LabelsValid(s) ==
    \A i, j \in 1..(Len(s) + 1) :
       Piece(s, ".", i, j) => LabelAt(s, i, j) /\ j - i <= LabelMax

LEMMA ValidIsSubdomain ==
    ASSUME NEW s \in Seq(Chars), LabelsValid(s)
    PROVE  Subdomain(s, 1, Len(s), TRUE)
<1>1. /\ Len(s) \in Nat /\ DOMAIN s = 1..Len(s) /\ Cuts(s, ".") \subseteq 1..Len(s)
      /\ Begins(s, ".") \subseteq 1..(Len(s) + 1) /\ LabelMax \in Nat
  BY CutsFinite, NamesAssumption
<1>2. ASSUME NEW i \in Begins(s, ".")
      PROVE  i \in 1..Len(s) /\ s[i] = "a"
  <2>1. PICK j \in i..(Len(s) + 1) : Piece(s, ".", i, j)
    BY PieceFrom
  <2>2. i \in 1..(Len(s) + 1) /\ j \in 1..(Len(s) + 1)
    BY <1>1
  <2>3. LabelAt(s, i, j)
    BY <2>1, <2>2 DEF LabelsValid
  <2> QED
    BY <2>2, <2>3 DEF LabelAt
<1>3. 1 \in 1..Len(s) /\ s[1] = "a"
  BY <1>2 DEF Begins
<1>4. ASSUME NEW q \in 1..Len(s), s[q] # "."
      PROVE  /\ s[q] \in {"a", "-"}
             /\ (q + 1 \in Cuts(s, ".") \/ q = Len(s)) => s[q] = "a"
             /\ q + LabelMax <= Len(s) => \E l \in q..(q + LabelMax) : s[l] = "."
  <2>1. PICK i \in 1..(Len(s) + 1), j \in 1..(Len(s) + 1) :
           Piece(s, ".", i, j) /\ i <= q /\ q < j
    BY <1>4, PieceAround DEF Cuts
  <2>2. LabelAt(s, i, j) /\ j - i <= LabelMax
    BY <2>1 DEF LabelsValid
  <2>3. s[q] \in {"a", "-"}
    BY <2>1, <2>2 DEF LabelAt
  <2>4. ASSUME q + 1 \in Cuts(s, ".") \/ q = Len(s) PROVE s[q] = "a"
    <3>1. q + 1 = j
      <4>1. q + 1 \in i..(j - 1) => q + 1 \notin Cuts(s, ".")
        BY <2>1 DEF Piece
      <4>2. q + 1 \in i..(j - 1) => q # Len(s)
        <5>1. q + 1 \in i..(j - 1) => q + 1 \in 1..Len(s)
          BY <1>1
        <5> QED
          BY <1>1, <5>1, NotLast
      <4>3. q + 1 \notin i..(j - 1)
        BY <2>4, <4>1, <4>2
      <4>4. i \in Nat /\ j \in Nat /\ q \in Nat /\ i <= q /\ q < j
        BY <1>1, <2>1
      <4> QED
        BY <4>3, <4>4
    <3>2. q = j - 1
      BY <1>1, <3>1
    <3> QED
      BY <2>2, <3>2 DEF LabelAt
  <2>5. ASSUME q + LabelMax <= Len(s) PROVE \E l \in q..(q + LabelMax) : s[l] = "."
    <3>1. j <= q + LabelMax /\ j \in q..(q + LabelMax)
      BY <1>1, <2>1, <2>2
    <3>2. j # Len(s) + 1
      BY <1>1, <2>5, <3>1
    <3>3. s[j] = "."
      BY <2>1, <3>2 DEF Piece, Cuts
    <3> QED
      BY <3>1, <3>3
  <2> QED
    BY <2>3, <2>4, <2>5
<1>5. ASSUME NEW q \in 1..Len(s), s[q] = "."
      PROVE  s[q - 1] = "a" /\ s[q + 1] = "a" /\ q # Len(s)
  <2>1. q \in Cuts(s, ".") /\ q + 1 \in Begins(s, ".")
    BY <1>1, <1>5 DEF Cuts, Begins
  <2>2. q + 1 \in 1..Len(s) /\ s[q + 1] = "a"
    BY <1>2, <2>1
  <2>3. q # 1
    BY <1>3, <1>5
  <2>4. q - 1 \in 1..Len(s) /\ (q - 1) + 1 = q
    BY <1>1, <2>3
  <2>5. s[q - 1] # "."
    <3> SUFFICES ASSUME s[q - 1] = "." PROVE FALSE
      OBVIOUS
    <3>1. (q - 1) + 1 \in Begins(s, ".")
      BY <1>1, <2>4 DEF Cuts, Begins
    <3> QED
      BY <1>2, <1>5, <2>4, <3>1
  <2>6. s[q - 1] = "a"
    BY <1>4, <2>1, <2>4, <2>5
  <2>7. q # Len(s)
    BY <1>1, <2>2, NotLast
  <2> QED
    BY <2>2, <2>6, <2>7
<1>6. s[Len(s)] = "a" /\ 1 <= Len(s) /\ Len(s) \in 1..Len(s)
  <2>1. Len(s) \in 1..Len(s) /\ 1 <= Len(s)
    BY <1>1, <1>3
  <2> QED
    BY <1>4, <1>5, <2>1
<1>7. ASSUME NEW k \in 1..Len(s), k + LabelMax <= Len(s)
      PROVE  \E l \in k..(k + LabelMax) : s[l] = "."
  <2>1. k \in k..(k + LabelMax)
    BY <1>1
  <2> QED
    BY <1>4, <1>7, <2>1
<1> QED
  BY <1>3, <1>4, <1>5, <1>6, <1>7 DEF Subdomain

LEMMA SubdomainIsValid ==
    ASSUME NEW s \in Seq(Chars), Subdomain(s, 1, Len(s), TRUE)
    PROVE  LabelsValid(s)
<1>1. /\ Len(s) \in Nat /\ DOMAIN s = 1..Len(s) /\ Cuts(s, ".") \subseteq 1..Len(s)
      /\ LabelMax \in Nat
  BY CutsFinite, NamesAssumption
<1>2. /\ 1 <= Len(s) /\ s[1] = "a" /\ s[Len(s)] = "a"
      /\ \A k \in 1..Len(s) : s[k] \in {"a", "-"} \/ s[k] = "."
      /\ \A k \in 1..Len(s) : s[k] = "." => s[k - 1] = "a" /\ s[k + 1] = "a"
      /\ \A k \in 1..Len(s) : k + LabelMax <= Len(s) => \E l \in k..(k + LabelMax) : s[l] = "."
  BY DEF Subdomain
<1> SUFFICES ASSUME NEW i \in 1..(Len(s) + 1), NEW j \in 1..(Len(s) + 1), Piece(s, ".", i, j)
             PROVE  LabelAt(s, i, j) /\ j - i <= LabelMax
  BY DEF LabelsValid
<1>3. /\ i \in Begins(s, ".") /\ i <= j /\ j \in Cuts(s, ".") \cup {Len(s) + 1}
      /\ \A k \in i..(j - 1) : k \notin Cuts(s, ".")
  BY <1>1 DEF Piece
<1>4. i \in 1..Len(s) /\ s[i] = "a"
  <2>1. CASE i = 1
    BY <1>1, <1>2, <2>1
  <2>2. CASE i # 1
    <3>1. PICK q \in Cuts(s, ".") : i = q + 1
      BY <1>3, <2>2 DEF Begins
    <3>2. q \in 1..Len(s) /\ s[q] = "."
      BY <1>1, <3>1 DEF Cuts
    <3>3. q # Len(s)
      BY <1>2, <3>2
    <3>4. i \in 1..Len(s)
      BY <1>1, <3>1, <3>2, <3>3, NotLast
    <3>5. s[q + 1] = "a"
      BY <1>2, <3>2
    <3> QED
      BY <3>1, <3>4, <3>5
  <2> QED
    BY <2>1, <2>2
<1>5. i < j /\ j - 1 \in 1..Len(s) /\ i \in i..(j - 1)
  <2>1. i # j
    <3>1. i \notin Cuts(s, ".") /\ i # Len(s) + 1
      BY <1>1, <1>4 DEF Cuts
    <3> QED
      BY <1>3, <3>1
  <2> QED
    BY <1>1, <1>3, <1>4, <2>1
<1>6. s[j - 1] = "a"
  <2>1. CASE j = Len(s) + 1
    BY <1>1, <1>2, <2>1
  <2>2. CASE j \in Cuts(s, ".")
    BY <1>1, <1>2, <2>2 DEF Cuts
  <2> QED
    BY <1>3, <2>1, <2>2
<1>7. ASSUME NEW k \in i..(j - 1) PROVE k \in 1..Len(s) /\ s[k] \in {"a", "-"}
  <2>1. k \in 1..Len(s)
    BY <1>1, <1>5
  <2>2. s[k] # "."
    BY <1>1, <1>3, <2>1 DEF Cuts
  <2> QED
    BY <1>2, <2>1, <2>2
<1>8. j - i <= LabelMax
  <2> SUFFICES ASSUME ~(j - i <= LabelMax) PROVE FALSE
    OBVIOUS
  <2>1. i + LabelMax <= Len(s)
    BY <1>1, <1>5
  <2>2. PICK l \in i..(i + LabelMax) : s[l] = "."
    BY <1>2, <1>4, <2>1
  <2>3. l \in i..(j - 1)
    BY <1>1
  <2> QED
    BY <1>7, <2>2, <2>3
<1> QED
  BY <1>4, <1>5, <1>6, <1>7, <1>8 DEF LabelAt

(* What stands behind the slash is judged as if it stood alone. *)
LEMMA Shifted ==
    ASSUME NEW s \in Seq(Chars), NEW w \in Seq(Chars), NEW m \in Nat,
           Len(s) = m + Len(w), \A k \in 1..Len(w) : w[k] = s[m + k]
    PROVE  Subdomain(w, 1, Len(w), TRUE) <=> Subdomain(s, m + 1, Len(s), TRUE)
<1>1. Len(s) \in Nat /\ Len(w) \in Nat /\ LabelMax \in Nat
  BY LenProperties, NamesAssumption
<1> DEFINE L == Len(w)
           N == Len(s)
<1>n. N = m + L /\ L \in Nat /\ \A k \in 1..L : w[k] = s[m + k]
  BY <1>1
<1> HIDE DEF L, N
<1>2. /\ 1 <= L <=> m + 1 <= N
      /\ \A k \in 1..L : m + k \in (m + 1)..N
      /\ \A k \in (m + 1)..N : k - m \in 1..L /\ w[k - m] = s[k] /\ m + (k - m) = k
  <2>1. /\ 1 <= L <=> m + 1 <= N
        /\ \A k \in 1..L : m + k \in (m + 1)..N
        /\ \A k \in (m + 1)..N : k - m \in 1..L /\ m + (k - m) = k
    BY <1>n
  <2> QED
    BY <1>n, <2>1
<1>3. ASSUME Subdomain(w, 1, L, TRUE) PROVE Subdomain(s, m + 1, N, TRUE)
  <2>1. /\ 1 <= L /\ w[1] = "a" /\ w[L] = "a"
        /\ \A k \in 1..L : w[k] \in {"a", "-"} \/ w[k] = "."
        /\ \A k \in 1..L : w[k] = "." => w[k - 1] = "a" /\ w[k + 1] = "a"
        /\ \A k \in 1..L : k + LabelMax <= L => \E l \in k..(k + LabelMax) : w[l] = "."
    BY <1>3 DEF Subdomain
  <2>2. 1 \in 1..L /\ L \in 1..L
    BY <1>n, <2>1
  <2>3. s[m + 1] = "a" /\ s[N] = "a" /\ m + 1 <= N
    BY <1>n, <1>2, <2>1, <2>2
  <2>4. ASSUME NEW k \in (m + 1)..N
        PROVE  /\ s[k] \in {"a", "-"} \/ s[k] = "."
               /\ s[k] = "." => s[k - 1] = "a" /\ s[k + 1] = "a"
               /\ k + LabelMax <= N => \E l \in k..(k + LabelMax) : s[l] = "."
    <3> DEFINE q == k - m
    <3>1. q \in 1..L /\ w[q] = s[k] /\ k = m + q
      BY <1>2
    <3> HIDE DEF q
    <3>2. s[k] \in {"a", "-"} \/ s[k] = "."
      BY <2>1, <3>1
    <3>3. ASSUME s[k] = "." PROVE s[k - 1] = "a" /\ s[k + 1] = "a"
      <4>1. w[q] = "." /\ q # 1 /\ q # L
        BY <2>1, <3>1, <3>3
      <4>2. q - 1 \in 1..L /\ q + 1 \in 1..L /\ m + (q - 1) = k - 1 /\ m + (q + 1) = k + 1
        BY <1>n, <3>1, <4>1
      <4>3. w[q - 1] = s[m + (q - 1)] /\ w[q + 1] = s[m + (q + 1)]
        BY <1>n, <4>2
      <4>4. w[q - 1] = "a" /\ w[q + 1] = "a"
        BY <2>1, <3>1, <4>1
      <4> QED
        BY <4>2, <4>3, <4>4
    <3>4. ASSUME k + LabelMax <= N PROVE \E l \in k..(k + LabelMax) : s[l] = "."
      <4>1. q + LabelMax <= L
        BY <1>1, <1>n, <3>1, <3>4
      <4>2. PICK l \in q..(q + LabelMax) : w[l] = "."
        BY <2>1, <3>1, <4>1
      <4>3. l \in 1..L /\ m + l \in k..(k + LabelMax)
        BY <1>1, <1>n, <3>1, <4>1
      <4> QED
        BY <1>n, <4>2, <4>3
    <3> QED
      BY <3>2, <3>3, <3>4
  <2> QED
    BY <2>3, <2>4 DEF Subdomain
<1>4. ASSUME Subdomain(s, m + 1, N, TRUE) PROVE Subdomain(w, 1, L, TRUE)
  <2>1. /\ m + 1 <= N /\ s[m + 1] = "a" /\ s[N] = "a"
        /\ \A k \in (m + 1)..N : s[k] \in {"a", "-"} \/ s[k] = "."
        /\ \A k \in (m + 1)..N : s[k] = "." => s[k - 1] = "a" /\ s[k + 1] = "a"
        /\ \A k \in (m + 1)..N :
              k + LabelMax <= N => \E l \in k..(k + LabelMax) : s[l] = "."
    BY <1>4 DEF Subdomain
  <2>2. 1 \in 1..L /\ L \in 1..L /\ 1 <= L
    BY <1>n, <1>2, <2>1
  <2>3. w[1] = "a" /\ w[L] = "a"
    BY <1>n, <2>1, <2>2
  <2>4. ASSUME NEW q \in 1..L
        PROVE  /\ w[q] \in {"a", "-"} \/ w[q] = "."
               /\ w[q] = "." => w[q - 1] = "a" /\ w[q + 1] = "a"
               /\ q + LabelMax <= L => \E l \in q..(q + LabelMax) : w[l] = "."
    <3> DEFINE k == m + q
    <3>1. k \in (m + 1)..N /\ w[q] = s[k] /\ k = m + q
      BY <1>n, <1>2
    <3> HIDE DEF k
    <3>2. w[q] \in {"a", "-"} \/ w[q] = "."
      BY <2>1, <3>1
    <3>3. ASSUME w[q] = "." PROVE w[q - 1] = "a" /\ w[q + 1] = "a"
      <4>1. q # 1 /\ q # L
        BY <2>3, <3>3
      <4>2. q - 1 \in 1..L /\ q + 1 \in 1..L /\ m + (q - 1) = k - 1 /\ m + (q + 1) = k + 1
        BY <1>n, <3>1, <4>1
      <4>3. w[q - 1] = s[m + (q - 1)] /\ w[q + 1] = s[m + (q + 1)]
        BY <1>n, <4>2
      <4>4. s[k - 1] = "a" /\ s[k + 1] = "a"
        BY <2>1, <3>1, <3>3
      <4> QED
        BY <4>2, <4>3, <4>4
    <3>4. ASSUME q + LabelMax <= L PROVE \E l \in q..(q + LabelMax) : w[l] = "."
      <4>1. k + LabelMax <= N
        BY <1>1, <1>n, <3>1, <3>4
      <4>2. PICK l \in k..(k + LabelMax) : s[l] = "."
        BY <2>1, <3>1, <4>1
      <4>3. l - m \in q..(q + LabelMax) /\ l \in (m + 1)..N
        BY <1>1, <1>n, <3>1, <4>1
      <4> QED
        BY <1>2, <4>2, <4>3
    <3> QED
      BY <3>2, <3>3, <3>4
  <2> QED
    BY <2>2, <2>3, <2>4 DEF Subdomain
<1> QED
  BY <1>3, <1>4 DEF L, N

(* What stands before a slash is a namespace exactly if it is a label. *)
LEMMA NamespaceIs ==
    ASSUME NEW s \in Seq(Chars), NEW m \in 1..Len(s)
    PROVE  ValidateNamespace(SubSeq(s, 1, m - 1), FALSE)
              <=> Subdomain(s, 1, m - 1, FALSE) /\ m - 1 <= LabelMax
<1> DEFINE w == SubSeq(s, 1, m - 1)
<1>1. Len(s) \in Nat /\ LabelMax \in Nat
  BY LenProperties, NamesAssumption
<1>2. 1 \in 1..(Len(s) + 1) /\ m \in 1..(Len(s) + 1)
  BY <1>1
<1>3. /\ Len(w) = m - 1
      /\ dnsLabel(w) <=> LabelAt(s, 1, m)
  BY <1>2, PartIs, LabelIs
<1> HIDE DEF w
<1>4. ASSUME m - 1 <= LabelMax
      PROVE  LabelAt(s, 1, m) <=> Subdomain(s, 1, m - 1, FALSE)
  <2>1. \A k \in 1..(m - 1) : ~(k + LabelMax <= m - 1)
    BY <1>1, <1>4
  <2>2. 1 < m <=> 1 <= m - 1
    BY <1>1
  <2> QED
    BY <2>1, <2>2 DEF LabelAt, Subdomain
<1>5. ValidateNamespace(w, FALSE) <=> Len(w) # 0 /\ Len(w) <= LabelMax /\ dnsLabel(w)
  BY DEF ValidateNamespace
<1>6. LabelAt(s, 1, m) => m - 1 # 0
  BY <1>1 DEF LabelAt
<1> QED
  BY <1>3, <1>4, <1>5, <1>6 DEF w

(* What stands behind it is a name exactly if it is a subdomain. *)
LEMMA NameIs ==
    ASSUME NEW s \in Seq(Chars), NEW m \in 1..Len(s), NEW ns,
           ValidateNamespace(ns, FALSE)
    PROVE  Validate([namespace |-> ns, name |-> SubSeq(s, m + 1, Len(s))])
              <=> Subdomain(s, m + 1, Len(s), TRUE) /\ Len(s) - m <= NameMax
<1> DEFINE w == SubSeq(s, m + 1, (Len(s) + 1) - 1)
           labels == Split(w, ".")
<1>1. Len(s) \in Nat /\ LabelMax \in Nat /\ NameMax \in Nat
  BY LenProperties, NamesAssumption
<1>2. /\ m + 1 \in 1..(Len(s) + 1) /\ Len(s) + 1 \in (m + 1)..(Len(s) + 1)
      /\ (Len(s) + 1) - (m + 1) = Len(s) - m /\ (Len(s) + 1) - 1 = Len(s)
  BY <1>1
<1>3. /\ w \in Seq(Chars) /\ Len(w) = Len(s) - m
      /\ \A k \in 1..Len(w) : w[k] = s[m + k]
  <2>0. /\ w \in Seq(Chars) /\ Len(w) = (Len(s) + 1) - (m + 1)
        /\ \A k \in 1..((Len(s) + 1) - (m + 1)) : w[k] = s[m + 1 + k - 1]
    BY <1>2, PartIs
  <2> HIDE DEF w
  <2>1. /\ w \in Seq(Chars) /\ Len(w) = Len(s) - m
        /\ \A k \in 1..(Len(s) - m) : w[k] = s[m + 1 + k - 1]
    BY <1>2, <2>0
  <2>2. \A k \in 1..(Len(s) - m) : m + 1 + k - 1 = m + k
    BY <1>1
  <2> QED
    BY <2>1, <2>2
<1>4. w = SubSeq(s, m + 1, Len(s))
  BY <1>2
<1> HIDE DEF w
<1>5. Subdomain(w, 1, Len(w), TRUE) <=> Subdomain(s, m + 1, Len(s), TRUE)
  <2>1. m \in Nat /\ Len(s) = m + Len(w)
    BY <1>1, <1>3
  <2> QED
    BY <1>3, <2>1, Shifted
<1>6. ASSUME NEW i \in 1..(Len(w) + 1), NEW j \in 1..(Len(w) + 1), Piece(w, ".", i, j)
      PROVE  /\ dnsLabel(SubSeq(w, i, j - 1)) <=> LabelAt(w, i, j)
             /\ Len(SubSeq(w, i, j - 1)) = j - i
  <2>1. j \in i..(Len(w) + 1)
    BY <1>6 DEF Piece
  <2> QED
    BY <1>3, <2>1, LabelIs, PartIs
<1>7. LabelsValid(w)
         <=> \A n \in DOMAIN labels : Len(labels[n]) <= LabelMax /\ dnsLabel(labels[n])
  <2>1. SplitFrom(w, ".", labels)
    BY <1>3, SplitIs
  <2> HIDE DEF labels
  <2>2. ASSUME LabelsValid(w), NEW n \in DOMAIN labels
        PROVE  Len(labels[n]) <= LabelMax /\ dnsLabel(labels[n])
    <3>1. PICK i \in 1..(Len(w) + 1), j \in 1..(Len(w) + 1) :
             Piece(w, ".", i, j) /\ labels[n] = SubSeq(w, i, j - 1)
      BY <2>1 DEF SplitFrom
    <3>2. LabelAt(w, i, j) /\ j - i <= LabelMax
      BY <2>2, <3>1 DEF LabelsValid
    <3> QED
      BY <1>6, <3>1, <3>2
  <2>3. ASSUME \A n \in DOMAIN labels : Len(labels[n]) <= LabelMax /\ dnsLabel(labels[n]),
               NEW i \in 1..(Len(w) + 1), NEW j \in 1..(Len(w) + 1), Piece(w, ".", i, j)
        PROVE  LabelAt(w, i, j) /\ j - i <= LabelMax
    <3>1. PICK n \in DOMAIN labels : labels[n] = SubSeq(w, i, j - 1)
      BY <2>1, <2>3 DEF SplitFrom
    <3> QED
      BY <1>6, <2>3, <3>1
  <2> QED
    BY <2>2, <2>3 DEF LabelsValid
<1>8. LabelsValid(w) <=> Subdomain(w, 1, Len(w), TRUE)
  BY <1>3, ValidIsSubdomain, SubdomainIsValid
<1>9. Subdomain(w, 1, Len(w), TRUE) => Len(w) # 0
  BY <1>1, <1>3 DEF Subdomain
<1>10. Validate([namespace |-> ns, name |-> w])
          <=> /\ Len(w) # 0 /\ Len(w) <= NameMax
              /\ \A n \in DOMAIN labels : Len(labels[n]) <= LabelMax /\ dnsLabel(labels[n])
  BY DEF Validate
<1> HIDE DEF labels
<1> QED
  BY <1>3, <1>4, <1>5, <1>7, <1>8, <1>9, <1>10

(* With one slash there are two parts, what is before it and what is       *)
(* behind it, and two parts mean one slash.                                *)
LEMMA TwoParts ==
    ASSUME NEW s \in Seq(Chars)
    PROVE  /\ Len(Split(s, "/")) = 2 <=> \E m \in 1..Len(s) : Cuts(s, "/") = {m}
           /\ \A m \in 1..Len(s) : Cuts(s, "/") = {m} =>
                 /\ Split(s, "/")[1] = SubSeq(s, 1, m - 1)
                 /\ Split(s, "/")[2] = SubSeq(s, m + 1, Len(s))
<1> DEFINE C == Cuts(s, "/")
           parts == Split(s, "/")
<1>1. /\ Len(s) \in Nat /\ C \subseteq 1..Len(s) /\ IsFiniteSet(C) /\ Cardinality(C) \in Nat
  BY CutsFinite
<1>2. /\ DOMAIN parts = 1..(Cardinality(C) + 1) /\ Len(parts) = Cardinality(C) + 1
      /\ \A n \in DOMAIN parts : \E i, j \in 1..(Len(s) + 1) :
            /\ Piece(s, "/", i, j) /\ parts[n] = SubSeq(s, i, j - 1)
            /\ Cardinality({k \in Begins(s, "/") : k < i}) = n - 1
  <2>1. SplitFrom(s, "/", parts)
    BY SplitIs
  <2> HIDE DEF parts
  <2> QED
    BY <2>1 DEF SplitFrom
<1> HIDE DEF C, parts
<1>3. Len(parts) = 2 <=> Cardinality(C) = 1
  BY <1>1, <1>2
<1>4. Cardinality(C) = 1 <=> \E m \in 1..Len(s) : C = {m}
  <2>1. Cardinality(C) = 1 <=> \E m : C = {m}
    BY <1>1, FS_Singleton
  <2> QED
    BY <1>1, <2>1
<1>5. ASSUME NEW m \in 1..Len(s), C = {m}
      PROVE  parts[1] = SubSeq(s, 1, m - 1) /\ parts[2] = SubSeq(s, m + 1, Len(s))
  <2>1. Begins(s, "/") = {1, m + 1}
    BY <1>5 DEF C, Begins
  <2>2. 1 \in DOMAIN parts /\ 2 \in DOMAIN parts
    <3>1. Cardinality(C) = 1
      BY <1>4, <1>5
    <3> QED
      BY <1>2, <3>1
  <2>3. {k \in Begins(s, "/") : k < 1} = {} /\ {k \in Begins(s, "/") : k < m + 1} = {1}
    BY <1>1, <2>1
  <2>4. Cardinality({}) = 0 /\ Cardinality({1}) = 1
    BY FS_EmptySet, FS_Singleton
  <2>5. Piece(s, "/", 1, m) /\ Piece(s, "/", m + 1, Len(s) + 1)
    <3>1. /\ m \in 1..(Len(s) + 1) /\ \A k \in 1..(m - 1) : k \notin {m}
          /\ Len(s) + 1 \in (m + 1)..(Len(s) + 1) /\ m + 1 >= 1
          /\ \A k \in (m + 1)..((Len(s) + 1) - 1) : k \notin {m}
      BY <1>1
    <3>2. Cuts(s, "/") = {m}
      BY <1>5 DEF C
    <3> QED
      BY <2>1, <3>1, <3>2 DEF Piece
  <2>6. PICK i \in 1..(Len(s) + 1), j \in 1..(Len(s) + 1) :
           /\ Piece(s, "/", i, j) /\ parts[1] = SubSeq(s, i, j - 1)
           /\ Cardinality({k \in Begins(s, "/") : k < i}) = 1 - 1
    BY <1>2, <2>2
  <2>7. i = 1 /\ j = m
    <3>1. i = 1
      <4>1. i \in {1, m + 1}
        BY <2>1, <2>6 DEF Piece
      <4>2. ASSUME i = m + 1 PROVE FALSE
        <5>1. Cardinality({k \in Begins(s, "/") : k < i}) = 1
          BY <2>3, <2>4, <4>2
        <5> QED
          BY <2>6, <5>1
      <4> QED
        BY <4>1, <4>2
    <3> QED
      BY <2>5, <2>6, <3>1, PieceOnce
  <2>8. PICK p \in 1..(Len(s) + 1), q \in 1..(Len(s) + 1) :
           /\ Piece(s, "/", p, q) /\ parts[2] = SubSeq(s, p, q - 1)
           /\ Cardinality({k \in Begins(s, "/") : k < p}) = 2 - 1
    BY <1>2, <2>2
  <2>9. p = m + 1 /\ q = Len(s) + 1
    <3>1. p = m + 1
      <4>1. p \in {1, m + 1}
        BY <2>1, <2>8 DEF Piece
      <4>2. ASSUME p = 1 PROVE FALSE
        <5>1. Cardinality({k \in Begins(s, "/") : k < p}) = 0
          BY <2>3, <2>4, <4>2
        <5> QED
          BY <2>8, <5>1
      <4> QED
        BY <4>1, <4>2
    <3> QED
      BY <2>5, <2>8, <3>1, PieceOnce
  <2>10. (Len(s) + 1) - 1 = Len(s)
    BY <1>1
  <2> QED
    BY <2>6, <2>7, <2>8, <2>9, <2>10
<1> QED
  BY <1>3, <1>4, <1>5 DEF C, parts

(* Where a string is cut, it is put together again. *)
LEMMA Together ==
    ASSUME NEW s \in Seq(Chars), NEW m \in 1..Len(s), s[m] = "/"
    PROVE  SubSeq(s, 1, m - 1) \o <<"/">> \o SubSeq(s, m + 1, Len(s)) = s
<1> DEFINE u == SubSeq(s, 1, m - 1)
           v == SubSeq(s, m + 1, (Len(s) + 1) - 1)
           slash == <<"/">>
           all == (u \o slash) \o v
<1>1. Len(s) \in Nat
  BY LenProperties
<1>2. /\ 1 \in 1..(Len(s) + 1) /\ m \in 1..(Len(s) + 1) /\ m + 1 \in 1..(Len(s) + 1)
      /\ Len(s) + 1 \in (m + 1)..(Len(s) + 1) /\ (Len(s) + 1) - 1 = Len(s)
      /\ (Len(s) + 1) - (m + 1) = Len(s) - m
  BY <1>1
<1>3. u \in Seq(Chars) /\ Len(u) = m - 1 /\ \A k \in 1..(m - 1) : u[k] = s[1 + k - 1]
  BY <1>2, PartIs
<1>4. /\ v \in Seq(Chars) /\ Len(v) = Len(s) - m
      /\ \A k \in 1..(Len(s) - m) : v[k] = s[m + 1 + k - 1]
  <2>1. /\ v \in Seq(Chars) /\ Len(v) = (Len(s) + 1) - (m + 1)
        /\ \A k \in 1..((Len(s) + 1) - (m + 1)) : v[k] = s[m + 1 + k - 1]
    BY <1>2, PartIs
  <2> HIDE DEF v
  <2> QED
    BY <1>2, <2>1
<1>5. slash \in Seq(Chars) /\ Len(slash) = 1 /\ slash[1] = "/"
  BY DEF Chars
<1> HIDE DEF u, v, slash
<1>6. /\ u \o slash \in Seq(Chars) /\ Len(u \o slash) = m
      /\ \A k \in 1..m : (u \o slash)[k] = s[k]
  <2>1. /\ u \o slash \in Seq(Chars) /\ Len(u \o slash) = Len(u) + Len(slash)
        /\ \A k \in 1..(Len(u) + Len(slash)) :
              (u \o slash)[k] = IF k <= Len(u) THEN u[k] ELSE slash[k - Len(u)]
    BY <1>3, <1>5, ConcatProperties
  <2>2. Len(u) + Len(slash) = m
    BY <1>1, <1>3, <1>5
  <2>3. ASSUME NEW k \in 1..m PROVE (u \o slash)[k] = s[k]
    <3>1. CASE k <= m - 1
      <4>1. k \in 1..(m - 1) /\ 1 + k - 1 = k
        BY <1>1, <3>1
      <4> QED
        BY <1>3, <2>1, <2>2, <3>1, <4>1
    <3>2. CASE ~(k <= m - 1)
      <4>1. k = m /\ k - (m - 1) = 1
        BY <1>1, <3>2
      <4> QED
        BY <1>3, <1>5, <2>1, <2>2, <3>2, <4>1
    <3> QED
      BY <3>1, <3>2
  <2> QED
    BY <2>1, <2>2, <2>3
<1> DEFINE us == u \o slash
<1> HIDE DEF us
<1>7. /\ us \o v \in Seq(Chars) /\ Len(us \o v) = Len(s)
      /\ \A k \in 1..Len(s) : (us \o v)[k] = s[k]
  <2>1. us \in Seq(Chars) /\ Len(us) = m /\ \A k \in 1..m : us[k] = s[k]
    BY <1>6 DEF us
  <2>2. /\ us \o v \in Seq(Chars) /\ Len(us \o v) = Len(us) + Len(v)
        /\ \A k \in 1..(Len(us) + Len(v)) :
              (us \o v)[k] = IF k <= Len(us) THEN us[k] ELSE v[k - Len(us)]
    BY <1>4, <2>1, ConcatProperties
  <2>3. Len(us) + Len(v) = Len(s)
    BY <1>1, <1>4, <2>1
  <2>4. ASSUME NEW k \in 1..Len(s) PROVE (us \o v)[k] = s[k]
    <3>1. CASE k <= m
      <4>1. k \in 1..m
        BY <1>1, <3>1
      <4> QED
        BY <2>1, <2>2, <2>3, <3>1, <4>1
    <3>2. CASE ~(k <= m)
      <4>1. k - m \in 1..(Len(s) - m) /\ m + 1 + (k - m) - 1 = k
        BY <1>1, <3>2
      <4> QED
        BY <1>4, <2>1, <2>2, <2>3, <3>2, <4>1
    <3> QED
      BY <3>1, <3>2
  <2> QED
    BY <2>2, <2>3, <2>4
<1>8. us \o v = s
  BY <1>7, SeqEqual
<1> QED
  BY <1>2, <1>8 DEF us, u, v, slash

(* What ParseKey makes of a string. *)
LEMMA ParsedRight ==
    ASSUME NEW s \in Seq(Chars)
    PROVE  /\ ParseKey(s).result = "ok" => IsKey(s) /\ Key(ParseKey(s).target) = s
           /\ ParseKey(s).result = "failed" => ~IsKey(s)
<1> DEFINE parts == Split(s, "/")
           t == [namespace |-> parts[1], name |-> parts[2]]
<1>1. Len(s) \in Nat /\ DOMAIN s = 1..Len(s)
  BY LenProperties
<1>2. ParseKey(s) = IF Len(parts) # 2 THEN Failed
                    ELSE IF Validate(t) THEN [result |-> "ok", target |-> t] ELSE Failed
  BY DEF ParseKey
<1>3. ASSUME NEW m \in 1..Len(s), s[m] = "/", Subdomain(s, 1, m - 1, FALSE),
             Subdomain(s, m + 1, Len(s), TRUE)
      PROVE  Cuts(s, "/") = {m}
  <2>1. \A k \in 1..(m - 1) : s[k] # "/"
    BY <1>3 DEF Subdomain
  <2>2. \A k \in (m + 1)..Len(s) : s[k] # "/"
    BY <1>3 DEF Subdomain
  <2>3. \A k \in 1..Len(s) : k = m \/ k \in 1..(m - 1) \/ k \in (m + 1)..Len(s)
    BY <1>1
  <2>4. \A k \in Cuts(s, "/") : k = m
    BY <1>1, <2>1, <2>2, <2>3 DEF Cuts
  <2>5. m \in Cuts(s, "/")
    BY <1>1, <1>3 DEF Cuts
  <2> QED
    BY <2>4, <2>5
<1>4. /\ Len(parts) = 2 <=> \E m \in 1..Len(s) : Cuts(s, "/") = {m}
      /\ \A m \in 1..Len(s) : Cuts(s, "/") = {m} =>
            parts[1] = SubSeq(s, 1, m - 1) /\ parts[2] = SubSeq(s, m + 1, Len(s))
  BY TwoParts
<1> HIDE DEF parts
<1>5. ASSUME NEW m \in 1..Len(s), Cuts(s, "/") = {m}
      PROVE  /\ Validate(t) <=> /\ Subdomain(s, 1, m - 1, FALSE) /\ m - 1 <= LabelMax
                                /\ Subdomain(s, m + 1, Len(s), TRUE) /\ Len(s) - m <= NameMax
             /\ s[m] = "/"
  <2>1. /\ ValidateNamespace(parts[1], FALSE)
              <=> Subdomain(s, 1, m - 1, FALSE) /\ m - 1 <= LabelMax
        /\ t = [namespace |-> parts[1], name |-> SubSeq(s, m + 1, Len(s))]
    BY <1>4, <1>5, NamespaceIs
  <2>2. Validate(t) => ValidateNamespace(parts[1], FALSE)
    BY DEF Validate
  <2>3. s[m] = "/"
    BY <1>5 DEF Cuts
  <2> HIDE DEF t
  <2> QED
    BY <2>1, <2>2, <2>3, NameIs
<1>6. IsKey(s) <=> Len(parts) = 2 /\ Validate(t)
  <2>1. ASSUME IsKey(s) PROVE Len(parts) = 2 /\ Validate(t)
    <3>1. PICK m \in 1..Len(s) :
             /\ s[m] = "/"
             /\ Subdomain(s, 1, m - 1, FALSE) /\ m - 1 <= LabelMax
             /\ Subdomain(s, m + 1, Len(s), TRUE) /\ Len(s) - m <= NameMax
      BY <1>1, <2>1 DEF IsKey
    <3>2. Cuts(s, "/") = {m}
      BY <1>3, <3>1
    <3> HIDE DEF t
    <3> QED
      BY <1>4, <1>5, <3>1, <3>2
  <2>2. ASSUME Len(parts) = 2, Validate(t) PROVE IsKey(s)
    <3>1. PICK m \in 1..Len(s) : Cuts(s, "/") = {m}
      BY <1>4, <2>2
    <3> HIDE DEF t
    <3> QED
      BY <1>1, <1>5, <2>2, <3>1 DEF IsKey
  <2> QED
    BY <2>1, <2>2
<1>7. ASSUME Len(parts) = 2, Validate(t) PROVE Key(t) = s
  <2>1. PICK m \in 1..Len(s) : Cuts(s, "/") = {m}
    BY <1>4, <1>7
  <2>2. parts[1] = SubSeq(s, 1, m - 1) /\ parts[2] = SubSeq(s, m + 1, Len(s))
    BY <1>4, <2>1
  <2>3. s[m] = "/"
    BY <2>1 DEF Cuts
  <2> QED
    BY <2>2, <2>3, Together DEF Key
<1> HIDE DEF t
<1> QED
  BY <1>2, <1>6, <1>7 DEF Failed

(* The key is a string, and what was made of it is what ParseKey returns. *)
NamesInv ==
    /\ key \in Seq(Chars)
    /\ parsed.result = "none" \/ parsed = ParseKey(key)

(* The key of a target is unambiguous: ParseKey succeeds exactly on the    *)
(* keys of valid targets and returns the target whose key it is, for       *)
(* strings and limits of any length (model.go, Key, ParseKey, Validate).   *)
THEOREM ParseExact == NamesSpec => []ParseKeyIsExact
<1>1. NamesInit => NamesInv
  <2> SUFFICES ASSUME NamesInit PROVE NamesInv
    OBVIOUS
  <2>1. PICK n \in 0..MaxLen : key \in [1..n -> Chars]
    BY DEF NamesInit, Strings
  <2>2. n \in Nat
    BY NamesAssumption
  <2>3. key \in Seq(Chars)
    BY <2>1, <2>2, SeqDef
  <2> QED
    BY <2>3 DEF NamesInit, NamesInv
<1>2. NamesInv /\ [NamesNext]_namesVars => NamesInv'
  BY DEF NamesInv, NamesNext, namesVars
<1>3. NamesInv => ParseKeyIsExact
  BY ParsedRight DEF NamesInv, ParseKeyIsExact
<1> QED
  BY <1>1, <1>2, <1>3, PTL DEF NamesSpec
=============================================================================

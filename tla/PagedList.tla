----------------------------- MODULE PagedList -----------------------------
(***************************************************************************)
(* Backend.List over many Deployments, while they come and go.             *)
(*                                                                         *)
(* Below level 4 the list is read in pages of Limit items.  The continue   *)
(* token pins the revision of the first page; the API server forgets old   *)
(* revisions (compaction) and then refuses the token.  From level 4 on the *)
(* list is what the Pod's cache holds at one moment, in no order.          *)
(*                                                                         *)
(* Deployments are numbered in the order of their keys namespace/name,     *)
(* which is also the order in which the API server serves them.            *)
(***************************************************************************)
EXTENDS Integers, FiniteSets, SequencesExt

CONSTANTS
    Deployments,  \* the Deployments that may exist, in key order
    System,       \* those of one namespace; the others are in another one
    Limit,        \* items of a page (500 in the code)
    MaxChanges,   \* BOUND: writes of other users
    MaxLostPages  \* BOUND: pages that fail

ASSUME ListAssumption ==
    /\ IsFiniteSet(Deployments) /\ Deployments \subseteq Nat \ {0}
    /\ System \subseteq Deployments
    /\ Limit \in Nat \ {0} /\ MaxChanges \in Nat /\ MaxLostPages \in Nat

VARIABLES
    informed, \* the level is 4 or 5, whose Pods have informers
    store,    \* store[k]: revision of Deployment k, 0 if there is none
    rev,      \* revision of the latest write
    oldest,   \* the oldest revision a continue token may still name
    cache,    \* the store as the Pod's informer knows it
    synced,   \* the Pod's informers have completed their first list
    list,     \* the locals of the call
    lostPages \* pages that have failed

listVars == <<informed, store, rev, oldest, cache, synced, list, lostPages>>

(* The items of a snapshot that a namespace filter selects; "" is the      *)
(* whole cluster.                                                          *)
Selected(snap, ns) ==
    {k \in Deployments : snap[k] # 0 /\ (ns = "" \/ (ns = "system") = (k \in System))}

Item(snap, k) == [key |-> k, version |-> snap[k]]
Items(snap, ks) == {Item(snap, k) : k \in ks}
ByKey(a, b) == a.key < b.key

(* The call: its filter, what it has collected, and the continue token,    *)
(* which carries the pinned snapshot and where the next page starts.       *)
IdleList == [pc |-> "idle", ns |-> "", out |-> <<>>, from |-> 0,
             snap |-> [k \in Deployments |-> 0], pinned |-> 0]

Start ==
    /\ list.pc \in {"idle", "OK", "Unavailable"}
    /\ \E ns \in {"", "system", "other"} :
          list' = [IdleList EXCEPT !.pc = IF informed THEN "cached" ELSE "first", !.ns = ns]
    /\ UNCHANGED <<informed, store, rev, oldest, cache, synced, lostPages>>

-----------------------------------------------------------------------------
(* sort.Slice by key: an item comes after those with smaller keys. *)
Sorted(items) ==
    LET Before(i) == {j \in DOMAIN items : \/ ByKey(items[j], items[i])
                                           \/ ~ByKey(items[i], items[j]) /\ j < i}
    IN  [n \in DOMAIN items |->
            items[CHOOSE i \in DOMAIN items : Cardinality(Before(i)) = n - 1]]

(* The API server: the next Limit items of a snapshot, in key order.  *)
PageOf(snap, ns, from) ==
    LET rest == {k \in Selected(snap, ns) : k > from}
        size == IF Cardinality(rest) < Limit THEN Cardinality(rest) ELSE Limit
    IN  [n \in 1..size |->
            Item(snap, CHOOSE k \in rest : Cardinality({l \in rest : l < k}) = n - 1)]

(* Is there more after the page?  The token is then not empty. *)
More(snap, ns, page) ==
    page # <<>> /\ \E k \in Selected(snap, ns) : k > page[Len(page)].key

(* Mutant of Collect: the first page is taken for the whole list. *)
CollectOnce(snap, pinned, page) ==
    list' = [list EXCEPT !.pc = "OK", !.out = Sorted(list.out \o page),
                         !.snap = snap, !.pinned = pinned]

(* Mutant of Collect: the token is not sent with the next request, whose   *)
(* page replaces this one.                                                 *)
CollectNoToken(snap, pinned, page) ==
    list' = IF More(snap, list.ns, page)
            THEN [list EXCEPT !.out = page]
            ELSE [list EXCEPT !.pc = "OK", !.out = Sorted(list.out \o page),
                              !.snap = snap, !.pinned = pinned]

(* One turn of the loop of Backend.List: append the page, and stop when it *)
(* came without a token.                                                   *)
Collect(snap, pinned, page) ==
    list' = IF More(snap, list.ns, page)
            THEN [list EXCEPT !.pc = "next", !.out = list.out \o page,
                              !.from = page[Len(page)].key, !.snap = snap, !.pinned = pinned]
            ELSE [list EXCEPT !.pc = "OK", !.out = Sorted(list.out \o page),
                              !.snap = snap, !.pinned = pinned]

FirstPage ==
    /\ list.pc = "first"
    /\ \E page \in {PageOf(store, list.ns, 0)} : Collect(store, rev, page)
    /\ UNCHANGED <<informed, store, rev, oldest, cache, synced, lostPages>>

(* Every error of a page ends the call without a list; 410 Gone is none of *)
(* the cases of mapError and becomes Unavailable.                          *)
Lost == list' = [IdleList EXCEPT !.pc = "Unavailable"]

NextPage ==
    /\ list.pc = "next"
    /\ IF list.pinned < oldest
       THEN Lost
       ELSE \E page \in {PageOf(list.snap, list.ns, list.from)} :
               Collect(list.snap, list.pinned, page)
    /\ UNCHANGED <<informed, store, rev, oldest, cache, synced, lostPages>>

PageFails ==
    /\ lostPages < MaxLostPages
    /\ list.pc \in {"first", "next"}
    /\ Lost
    /\ lostPages' = lostPages + 1
    /\ UNCHANGED <<informed, store, rev, oldest, cache, synced>>

(* Mutant of ListCached: the order of the lister is kept. *)
ListCachedUnsorted ==
    /\ list.pc = "cached" /\ synced
    /\ \E items \in SetToSeqs(Items(cache, Selected(cache, list.ns))) :
          list' = [list EXCEPT !.pc = "OK", !.out = items, !.snap = cache]
    /\ UNCHANGED <<informed, store, rev, oldest, cache, synced, lostPages>>

(* The cached branch: nothing is listed before the first sync; the lister  *)
(* walks a map.                                                            *)
ListUnsynced ==
    /\ list.pc = "cached" /\ ~synced
    /\ Lost
    /\ UNCHANGED <<informed, store, rev, oldest, cache, synced, lostPages>>

ListCached ==
    /\ list.pc = "cached" /\ synced
    /\ \E items \in SetToSeqs(Items(cache, Selected(cache, list.ns))) :
          list' = [list EXCEPT !.pc = "OK", !.out = Sorted(items), !.snap = cache]
    /\ UNCHANGED <<informed, store, rev, oldest, cache, synced, lostPages>>

-----------------------------------------------------------------------------
(* Other users create, change and delete Deployments. *)
Change ==
    /\ rev <= MaxChanges
    /\ \E k \in Deployments, gone \in BOOLEAN :
          /\ gone => store[k] # 0
          /\ store' = [store EXCEPT ![k] = IF gone THEN 0 ELSE rev]
    /\ rev' = rev + 1
    /\ UNCHANGED <<informed, oldest, cache, synced, list, lostPages>>

Compact ==
    /\ oldest < rev
    /\ oldest' = rev
    /\ UNCHANGED <<informed, store, rev, cache, synced, list, lostPages>>

CacheFollows ==
    /\ informed
    /\ ~synced \/ cache # store
    /\ cache' = store /\ synced' = TRUE
    /\ UNCHANGED <<informed, store, rev, oldest, list, lostPages>>

ListInit ==
    /\ store \in [Deployments -> {0, 1}]
    /\ rev = 1 /\ oldest = 1 /\ lostPages = 0
    /\ informed \in BOOLEAN
    /\ cache = [k \in Deployments |-> 0] /\ synced = FALSE
    /\ list = IdleList

ListStep == FirstPage \/ NextPage \/ ListUnsynced \/ ListCached

ListNext == Start \/ ListStep \/ PageFails \/ Change \/ Compact \/ CacheFollows

ListSpec == ListInit /\ [][ListNext]_listVars /\ WF_listVars(ListStep)

-----------------------------------------------------------------------------
(* The whole list or none: a successful List is exactly the Deployments of *)
(* ONE revision that the filter selects, each once, in key order, however  *)
(* many pages it took and whatever came and went in between.  "Explicit    *)
(* pagination avoids silently dropping items from a large list."           *)
ListIsSnapshot ==
    list.pc = "OK" =>
       /\ {list.out[i] : i \in DOMAIN list.out} = Items(list.snap, Selected(list.snap, list.ns))
       /\ \A i, j \in DOMAIN list.out : i < j => list.out[i].key < list.out[j].key

(* A List ends although Deployments are created faster than it reads.      *)
ListEnds == list.pc \in {"first", "next", "cached"} ~> list.pc \in {"OK", "Unavailable"}
=============================================================================

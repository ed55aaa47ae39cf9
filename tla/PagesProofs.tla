----------------------------- MODULE PagesProofs -----------------------------
(***************************************************************************)
(* Lemmas about the page loop, for any page size and cap and whatever the  *)
(* list becomes between two pages.                                         *)
(***************************************************************************)
EXTENDS Pages, FiniteSetTheorems, TLAPS

(* The state of a loop while the list is S: until something is removed, it *)
(* has every item that was listed all the time and is on an earlier page   *)
(* now. Items move to later pages only, so none of them is skipped.        *)
LoopInv(loop, S) ==
  /\ loop \in Loops
  /\ loop.first \subseteq loop.seen /\ loop.got \subseteq loop.seen
  /\ ~loop.done => S \subseteq loop.seen /\ loop.page <= MaxPages
  /\ ~loop.done /\ ~loop.shrunk =>
       /\ loop.seen = S
       /\ \A x \in loop.first : Before(S, x) < (loop.page - 1) * PerPage => x \in loop.got
  /\ loop.done /\ Undisturbed(loop) => loop.first \subseteq loop.got

LEMMA SetsAreFinite ==
  ASSUME NEW S \in SUBSET Items
  PROVE  IsFiniteSet(S) /\ Cardinality(S) \in Nat
BY PagesAssumption, FS_Subset, FS_CardinalityType

LEMMA BeforeType ==
  ASSUME NEW S \in SUBSET Items, NEW x \in Items
  PROVE  Before(S, x) \in Nat
<1>1. {y \in S : y < x} \in SUBSET Items
  OBVIOUS
<1> QED BY <1>1, SetsAreFinite DEF Before

(* An item of the list has fewer items before it than the list has.        *)
LEMMA BeforeBound ==
  ASSUME NEW S \in SUBSET Items, NEW x \in S
  PROVE  Before(S, x) < Cardinality(S)
<1> DEFINE T == {y \in S : y < x}
<1>1. IsFiniteSet(S) /\ Cardinality(S) \in Nat /\ Cardinality(T) \in Nat
  <2>1. T \in SUBSET Items
    OBVIOUS
  <2> HIDE DEF T
  <2> QED BY <2>1, SetsAreFinite
<1>2. Cardinality(T) <= Cardinality(S) /\ (Cardinality(S) = Cardinality(T) => S = T)
  <2>1. T \in SUBSET S
    OBVIOUS
  <2> HIDE DEF T
  <2> QED BY <1>1, <2>1, FS_Subset
<1>3. S # T
  <2>1. x \in Nat
    BY PagesAssumption
  <2>2. x \notin T
    BY <2>1
  <2> QED BY <2>2
<1> QED BY <1>1, <1>2, <1>3 DEF Before

(* A list that grows moves no item to an earlier place.                    *)
LEMMA BeforeGrows ==
  ASSUME NEW S \in SUBSET Items, NEW T \in SUBSET Items, S \subseteq T, NEW x \in Items
  PROVE  Before(S, x) <= Before(T, x)
<1> DEFINE A == {y \in S : y < x}  B == {y \in T : y < x}
<1>1. A \in SUBSET B /\ B \in SUBSET Items
  OBVIOUS
<1> HIDE DEF A, B
<1>2. Cardinality(A) <= Cardinality(B)
  BY <1>1, SetsAreFinite, FS_Subset
<1> QED BY <1>2 DEF Before, A, B

LEMMA BeginInv ==
  ASSUME NEW S \in SUBSET Items
  PROVE  LoopInv(Begin(S), S)
<1> DEFINE loop == Begin(S)
<1>0. loop = [page |-> 1, got |-> {}, done |-> FALSE,
              first |-> S, seen |-> S, shrunk |-> FALSE]
  BY DEF Begin
<1> HIDE DEF loop
<1>1. /\ loop \in Loops /\ loop.page = 1 /\ loop.first = S /\ loop.seen = S
      /\ loop.got = {} /\ loop.done = FALSE /\ loop.shrunk = FALSE
  <2>1. 1 \in 1 .. MaxPages + 1
    BY PagesAssumption
  <2> QED BY <1>0, <2>1 DEF Loops
<1>2. \A x \in S : ~(Before(S, x) < (loop.page - 1) * PerPage)
  <2>1. (loop.page - 1) * PerPage = 0
    BY <1>1, PagesAssumption
  <2> QED BY <2>1, BeforeType
<1>3. 1 <= MaxPages
  BY PagesAssumption
<1>4. LoopInv(loop, S)
  BY <1>1, <1>2, <1>3 DEF LoopInv
<1> QED BY <1>4 DEF loop

LEMMA NoLoopInv ==
  ASSUME NEW S
  PROVE  LoopInv(NoLoop, S)
BY PagesAssumption DEF LoopInv, NoLoop, Loops

LEMMA WatchedInv ==
  ASSUME NEW S \in SUBSET Items, NEW T \in SUBSET Items, NEW loop, LoopInv(loop, S)
  PROVE  LoopInv(Watched(loop, T), T)
<1>1. CASE loop.done
  BY <1>1 DEF Watched, LoopInv
<1>2. CASE ~loop.done
  <2> DEFINE after == Watched(loop, T)
  <2>1. /\ after \in Loops
        /\ after.first = loop.first /\ after.got = loop.got /\ after.page = loop.page
        /\ after.done = loop.done /\ after.seen = loop.seen \cup T
        /\ after.shrunk = (loop.shrunk \/ ~(loop.seen \subseteq T))
    BY <1>2 DEF Watched, LoopInv, Loops
  <2> HIDE DEF after
  <2>2. ASSUME ~after.shrunk
        PROVE  /\ after.seen = T
               /\ \A x \in loop.first :
                    Before(T, x) < (loop.page - 1) * PerPage => x \in loop.got
    <3>1. ~loop.shrunk /\ loop.seen = S /\ S \subseteq T
      BY <1>2, <2>1, <2>2 DEF LoopInv
    <3>2. after.seen = T
      BY <2>1, <3>1
    <3>3. ASSUME NEW x \in loop.first, Before(T, x) < (loop.page - 1) * PerPage
          PROVE  x \in loop.got
      <4>1. x \in Items /\ Before(S, x) <= Before(T, x)
        BY <3>1, BeforeGrows DEF LoopInv
      <4>2. Before(S, x) \in Nat /\ Before(T, x) \in Nat
        BY <4>1, BeforeType
      <4>3. (loop.page - 1) * PerPage \in Int
        BY PagesAssumption DEF LoopInv, Loops
      <4>4. Before(S, x) < (loop.page - 1) * PerPage
        BY <3>3, <4>1, <4>2, <4>3
      <4> QED BY <1>2, <3>1, <4>4 DEF LoopInv
    <3> QED BY <3>2, <3>3
  <2> QED BY <1>2, <2>1, <2>2 DEF LoopInv, after
<1> QED BY <1>1, <1>2

LEMMA FetchedInv ==
  ASSUME NEW S \in SUBSET Items, NEW loop, LoopInv(loop, S), ~loop.done
  PROVE  LoopInv(Fetched(loop, S), S)
<1> DEFINE k == loop.page  after == Fetched(loop, S)
<1>1. /\ loop \in Loops /\ k \in 1 .. MaxPages /\ S \subseteq loop.seen
      /\ MaxPages \in Nat /\ PerPage \in Nat /\ Cardinality(S) \in Nat
  BY PagesAssumption, SetsAreFinite DEF LoopInv, Loops
<1>2. Page(S, k) \subseteq S
  BY DEF Page
<1>3. /\ after.got = loop.got \cup Page(S, k)
      /\ after.page = IF HasNext(S, k) THEN k + 1 ELSE k
      /\ after.done = (~HasNext(S, k) \/ k + 1 > MaxPages)
      /\ after.first = loop.first /\ after.seen = loop.seen /\ after.shrunk = loop.shrunk
      /\ after \in Loops
  <2>1. HasNext(S, k) \in BOOLEAN
    BY DEF HasNext
  <2>2. (IF HasNext(S, k) THEN k + 1 ELSE k) \in 1 .. MaxPages + 1
    BY <1>1
  <2> QED BY <1>1, <1>2, <2>1, <2>2 DEF Fetched, Loops
<1> HIDE DEF after
<1>4. ASSUME ~loop.shrunk, NEW x \in loop.first, Before(S, x) < k * PerPage
      PROVE  x \in after.got
  <2>1. x \in S /\ x \in Items
    BY <1>4 DEF LoopInv
  <2>2. Before(S, x) \in Nat /\ (k - 1) * PerPage \in Int
    BY <1>1, <2>1, BeforeType
  <2>3. CASE Before(S, x) < (k - 1) * PerPage
    BY <1>3, <1>4, <2>3 DEF LoopInv
  <2>4. CASE (k - 1) * PerPage <= Before(S, x)
    BY <1>3, <1>4, <2>1, <2>4 DEF Page
  <2> QED BY <2>2, <2>3, <2>4
<1>5. ASSUME after.done, Undisturbed(after)
      PROVE  after.first \subseteq after.got
  <2>1. ~loop.shrunk /\ loop.seen = S /\ Cardinality(S) <= MaxPages * PerPage
    BY <1>3, <1>5 DEF Undisturbed, LoopInv
  <2>2. k * PerPage \in Nat
    BY <1>1
  <2>3. Cardinality(S) <= k * PerPage
    <3>1. CASE ~HasNext(S, k)
      BY <1>1, <2>2, <3>1 DEF HasNext
    <3>2. CASE k + 1 > MaxPages
      <4>1. k = MaxPages
        BY <1>1, <3>2
      <4> QED BY <2>1, <4>1
    <3> QED BY <1>3, <1>5, <3>1, <3>2
  <2>4. ASSUME NEW x \in loop.first
        PROVE  Before(S, x) < k * PerPage
    <3>1. x \in S /\ x \in Items
      BY <2>1 DEF LoopInv
    <3>2. Before(S, x) \in Nat /\ Before(S, x) < Cardinality(S)
      BY <3>1, BeforeType, BeforeBound
    <3> QED BY <1>1, <2>2, <2>3, <3>2
  <2> QED BY <1>3, <1>4, <2>1, <2>4
<1>6. ASSUME ~after.done
      PROVE  after.page = k + 1 /\ k + 1 <= MaxPages /\ (after.page - 1) * PerPage = k * PerPage
  <2>0. HasNext(S, k) /\ ~(k + 1 > MaxPages)
    BY <1>3, <1>6, Zenon
  <2>1. after.page = k + 1 /\ k + 1 <= MaxPages
    BY <1>1, <1>3, <2>0
  <2>2. after.page - 1 = k
    BY <1>1, <2>1
  <2> QED BY <2>1, <2>2
<1>7. after.first \subseteq after.seen /\ after.got \subseteq after.seen
  BY <1>1, <1>2, <1>3 DEF LoopInv
<1>8. ASSUME ~after.done, ~after.shrunk
      PROVE  /\ after.seen = S
             /\ \A x \in after.first :
                  Before(S, x) < (after.page - 1) * PerPage => x \in after.got
  BY <1>3, <1>4, <1>6, <1>8 DEF LoopInv
<1> QED BY <1>1, <1>3, <1>5, <1>6, <1>7, <1>8 DEF LoopInv, after
=============================================================================

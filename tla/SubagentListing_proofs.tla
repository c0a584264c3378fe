------------------------ MODULE SubagentListing_proofs ------------------------
(***************************************************************************)
(* Every listing is exact, for any number of subagents, any page sizes and  *)
(* any sizes of the statuses.                                               *)
(***************************************************************************)
EXTENDS SubagentListing, FiniteSetTheorems, WellFoundedInduction, TLAPS

(* Up to its cursor a listing has collected what matched all along, once;    *)
(* beyond its cursor it has collected nothing.                               *)
CollectedUpToCursor ==
  command = "listing" =>
    /\ \A i \in Id : i > after => times[i] = 0
    /\ \A i \in steady : i <= after => times[i] = 1

(* The cursors that were followed are the ones up to the current one. *)
CursorsAreBehind == command = "listing" => \A i \in seen : i <= after

SteadyMatches == command = "listing" => steady \subseteq Matching(wanted)

ListingInv ==
  /\ ListingTypeOK
  /\ ListingIsExact
  /\ CollectedUpToCursor
  /\ CursorsAreBehind
  /\ SteadyMatches

-----------------------------------------------------------------------------
(* Finite sets of ids have a first and a last element. *)

LEMMA FirstExists ==
  ASSUME NEW S \in SUBSET Nat, S # {}
  PROVE  \E i \in S : \A j \in S : i <= j
<1> DEFINE R == OpToRel(<, Nat)
<1>1. IsWellFoundedOn(R, Nat)
  BY NatLessThanWellFounded
<1>2. PICK i \in S : \A j \in S : ~(<<j, i>> \in R)
  BY <1>1, WFMin
<1>3. ASSUME NEW j \in S PROVE i <= j
  <2>1. ~(<<j, i>> \in R)
    BY <1>2
  <2>2. ~(j < i)
    BY <2>1 DEF OpToRel
  <2> QED
    BY <2>2
<1> QED
  BY <1>3

LEMMA LastExists ==
  ASSUME NEW S \in SUBSET Id, S # {}
  PROVE  \E i \in S : LastOf(i, S)
<1> USE ListingAssumption
<1> DEFINE D == {MaxId - i : i \in S}
<1>1. D \in SUBSET Nat /\ D # {}
  BY DEF Id
<1>2. PICK d \in D : \A e \in D : d <= e
  BY <1>1, FirstExists
<1>3. PICK i \in S : d = MaxId - i
  BY <1>2
<1>4. ASSUME NEW j \in S PROVE i >= j
  <2>1. MaxId - j \in D
    OBVIOUS
  <2> QED
    BY <1>2, <1>3, <2>1 DEF Id
<1> QED
  BY <1>4 DEF LastOf

-----------------------------------------------------------------------------
(* The last page: nothing of the rest is left out. *)

LEMMA LastPageIsComplete ==
  ASSUME ListingTypeOK,
         NEW size \in [Id -> Size], NEW page \in SUBSET Id,
         IsPage(page, Rest(wanted, after), size),
         ~MeetsTooLarge(page, Rest(wanted, after), size),
         ~More(page)
  PROVE  page = Rest(wanted, after)
<1> USE ListingAssumption
<1> DEFINE rest == Rest(wanted, after)
<1>1. page \subseteq rest /\ rest \in SUBSET Id
  BY DEF IsPage, Rest, Matching, Live
<1>2. SUFFICES ASSUME rest \ page # {} PROVE FALSE
  BY <1>1
<1>3. PICK j \in rest \ page : FirstOf(j, rest \ page)
  <2>1. rest \ page \in SUBSET Nat
    BY <1>1 DEF Id
  <2> QED
    BY <1>2, <2>1, FirstExists DEF FirstOf
<1>4. j \in Id /\ j \in Matching(wanted)
  BY <1>1, <1>3 DEF Rest
<1>5. CASE page # {}
  <2>1. PICK i \in page : LastOf(i, page)
    BY <1>5, LastExists
  <2>2. i < j
    BY <1>3 DEF IsPage
  <2>3. j \in Rest(wanted, i)
    BY <1>4, <2>2 DEF Rest
  <2> QED
    BY <2>1, <2>3 DEF More
<1>6. CASE page = {}
  <2>1. Cardinality(page) = 0
    BY <1>6, FS_EmptySet
  <2>2. Cardinality(page \cup {j}) = 1
    <3>1. page \cup {j} = {j}
      BY <1>6
    <3> QED
      BY <3>1, FS_Singleton
  <2>3. limit \in Nat /\ limit > 0
    BY DEF ListingTypeOK
  <2>4. ~TooLarge(j, size)
    BY <1>3, <2>1, <2>3 DEF MeetsTooLarge
  <2>5. \A i \in page \cup {j} : ~TooLarge(i, size)
    BY <1>6, <2>4
  <2>6. Fits(page \cup {j}, size)
    BY <2>2, <2>3, <2>5 DEF Fits
  <2> QED
    BY <1>3, <2>6 DEF IsPage
<1> QED
  BY <1>5, <1>6

-----------------------------------------------------------------------------
LEMMA ListingInit == Init => ListingInv
<1> SUFFICES ASSUME Init PROVE ListingInv
  OBVIOUS
<1> USE ListingAssumption DEF Init
<1>1. ListingTypeOK
  BY DEF ListingTypeOK, Live
<1>2. ListingIsExact
  BY DEF ListingIsExact
<1>3. CollectedUpToCursor /\ CursorsAreBehind /\ SteadyMatches
  BY DEF CollectedUpToCursor, CursorsAreBehind, SteadyMatches
<1> QED
  BY <1>1, <1>2, <1>3 DEF ListingInv

LEMMA AttachStep ==
  ASSUME ListingInv, NEW i \in Id, NEW owner \in Terminal \cup {None}, Attach(i, owner)
  PROVE  ListingInv'
<1> USE ListingAssumption DEF ListingInv, Attach, clientVars
<1>1. ListingTypeOK'
  BY DEF ListingTypeOK, Live
<1>2. ListingIsExact' /\ CollectedUpToCursor' /\ CursorsAreBehind'
  BY DEF ListingTypeOK, ListingIsExact, CollectedUpToCursor, CursorsAreBehind
<1>3. SteadyMatches'
  BY DEF ListingTypeOK, SteadyMatches, Matching, Live
<1> QED
  BY <1>1, <1>2, <1>3

LEMMA DetachStep ==
  ASSUME ListingInv, NEW i \in Id, Detach(i)
  PROVE  ListingInv'
<1> USE ListingAssumption DEF ListingInv, Detach, NoLongerMatches, clientVars
<1>1. ListingTypeOK'
  BY DEF ListingTypeOK, Live
<1>2. ListingIsExact' /\ CollectedUpToCursor' /\ CursorsAreBehind'
  BY DEF ListingTypeOK, ListingIsExact, CollectedUpToCursor, CursorsAreBehind
<1>3. SteadyMatches'
  BY DEF ListingTypeOK, SteadyMatches, Matching, Live
<1> QED
  BY <1>1, <1>2, <1>3

LEMMA ForgetStep ==
  ASSUME ListingInv, NEW i \in Id, Forget(i)
  PROVE  ListingInv'
<1> USE ListingAssumption DEF ListingInv, Forget, NoLongerMatches, clientVars
<1>1. ListingTypeOK'
  BY DEF ListingTypeOK, Live
<1>2. ListingIsExact' /\ CollectedUpToCursor' /\ CursorsAreBehind'
  BY DEF ListingTypeOK, ListingIsExact, CollectedUpToCursor, CursorsAreBehind
<1>3. SteadyMatches'
  BY DEF ListingTypeOK, SteadyMatches, Matching, Live
<1> QED
  BY <1>1, <1>2, <1>3

LEMMA ListBeginStep ==
  ASSUME ListingInv, NEW owner \in Terminal \cup {None}, NEW size \in Limit,
         ListBegin(owner, size)
  PROVE  ListingInv'
<1> USE ListingAssumption DEF ListingInv, ListBegin, registryVars
<1>1. ListingTypeOK'
  BY DEF ListingTypeOK, Matching, Live
<1>2. ListingIsExact'
  BY DEF ListingIsExact
<1>3. CollectedUpToCursor'
  BY DEF CollectedUpToCursor, Matching, Live, Id
<1>4. CursorsAreBehind' /\ SteadyMatches'
  BY DEF CursorsAreBehind, SteadyMatches, Matching, Live
<1> QED
  BY <1>1, <1>2, <1>3, <1>4

LEMMA ListFailsStep ==
  ASSUME ListingInv, NEW size \in [Id -> Size], NEW page \in SUBSET Id,
         ListFails(size, page)
  PROVE  ListingInv'
<1> USE DEF ListingInv, ListFails, registryVars
<1>1. ListingTypeOK'
  BY DEF ListingTypeOK, Live
<1>2. ListingIsExact'
  BY DEF ListingIsExact
<1>3. CollectedUpToCursor' /\ CursorsAreBehind' /\ SteadyMatches'
  BY DEF CollectedUpToCursor, CursorsAreBehind, SteadyMatches
<1> QED
  BY <1>1, <1>2, <1>3

(* A page begins after the cursor, so what it adds was collected by no page  *)
(* before; and it leaves out nothing up to the next cursor.                  *)
LEMMA ListPageStep ==
  ASSUME ListingInv, NEW size \in [Id -> Size], NEW page \in SUBSET Id,
         ListPage(size, page)
  PROVE  ListingInv'
<1> USE ListingAssumption DEF ListingInv
<1>0. /\ command = "listing"
      /\ IsPage(page, Rest(wanted, after), size)
      /\ ~MeetsTooLarge(page, Rest(wanted, after), size)
      /\ times' = [i \in Id |-> IF i \in page THEN times[i] + 1 ELSE times[i]]
      /\ UNCHANGED <<life, parent, wanted, limit, steady>>
  BY DEF ListPage, registryVars
<1>1. after \in Int /\ times \in [Id -> Nat] /\ steady \subseteq Id /\ Id \subseteq Int
  BY DEF ListingTypeOK, Id
<1>2. \A i \in page : i > after /\ times[i] = 0
  BY <1>0, <1>1 DEF IsPage, Rest, CollectedUpToCursor
<1>3. times' \in [Id -> Nat] /\ \A i \in Id : times'[i] <= 1
  BY <1>0, <1>1, <1>2 DEF ListingIsExact
<1>4. \A i \in steady : i > after => i \in Rest(wanted, after)
  BY <1>0 DEF SteadyMatches, Rest
<1>5. \A i \in steady : i <= after => times'[i] = 1
  BY <1>0, <1>1, <1>2 DEF CollectedUpToCursor
<1>6. CASE ~More(page) /\ command' = "listed" /\ UNCHANGED <<after, seen>>
  <2>1. page = Rest(wanted, after)
    BY <1>0, <1>6, LastPageIsComplete
  <2>2. \A i \in steady : times'[i] = 1
    <3> TAKE i \in steady
    <3>1. CASE i <= after
      BY <1>5, <3>1
    <3>2. CASE i > after
      BY <1>0, <1>1, <1>2, <1>4, <2>1, <3>2
    <3> QED
      BY <1>1, <3>1, <3>2
  <2>3. ListingTypeOK'
    BY <1>0, <1>3, <1>6 DEF ListingTypeOK, Live
  <2> QED
    BY <1>0, <1>3, <1>6, <2>2, <2>3
       DEF ListingIsExact, CollectedUpToCursor, CursorsAreBehind, SteadyMatches
<1>7. ASSUME NEW cursor \in page, LastOf(cursor, page),
             command' = IF cursor \in seen THEN "repeated" ELSE "listing",
             after' = cursor, seen' = seen \cup {cursor}
      PROVE  ListingInv'
  <2>1. cursor > after /\ cursor \in Id
    BY <1>2
  <2>2. cursor \notin seen /\ command' = "listing"
    BY <1>0, <1>1, <1>7, <2>1 DEF CursorsAreBehind, ListingTypeOK
  <2>3. ListingTypeOK'
    BY <1>0, <1>3, <1>7, <2>1, <2>2 DEF ListingTypeOK, Live
  <2>4. ListingIsExact'
    BY <1>3, <2>2 DEF ListingIsExact
  <2>5. \A i \in Id : i > cursor => times'[i] = 0
    <3> TAKE i \in Id
    <3> HAVE i > cursor
    <3>1. i \notin page
      BY <1>1, <1>7 DEF LastOf
    <3>2. i > after
      BY <1>1, <2>1
    <3> QED
      BY <1>0, <3>1, <3>2 DEF CollectedUpToCursor
  <2>6. \A i \in steady : i <= cursor => times'[i] = 1
    <3> TAKE i \in steady
    <3> HAVE i <= cursor
    <3>1. CASE i <= after
      BY <1>5, <3>1
    <3>2. CASE i > after
      <4>1. i \in Rest(wanted, after)
        BY <1>4, <3>2
      <4>2. i \in page
        BY <1>0, <1>1, <4>1 DEF IsPage
      <4> QED
        BY <1>0, <1>1, <1>2, <4>2
    <3> QED
      BY <1>1, <3>1, <3>2
  <2>7. CollectedUpToCursor'
    BY <1>0, <1>7, <2>5, <2>6 DEF CollectedUpToCursor
  <2>8. CursorsAreBehind'
    BY <1>0, <1>1, <1>7, <2>1 DEF CursorsAreBehind, ListingTypeOK
  <2>9. SteadyMatches'
    BY <1>0, <2>2 DEF SteadyMatches, Matching, Live
  <2> QED
    BY <2>3, <2>4, <2>7, <2>8, <2>9
<1> QED
  BY <1>6, <1>7 DEF ListPage

LEMMA ListingNext == ListingInv /\ [Next]_vars => ListingInv'
<1> SUFFICES ASSUME ListingInv, [Next]_vars PROVE ListingInv'
  OBVIOUS
<1>1. CASE Next
  BY <1>1, AttachStep, DetachStep, ForgetStep, ListBeginStep, ListFailsStep, ListPageStep DEF Next
<1>2. CASE UNCHANGED vars
  BY <1>2 DEF vars, registryVars, clientVars, ListingInv, ListingTypeOK, ListingIsExact,
     CollectedUpToCursor, CursorsAreBehind, SteadyMatches, Matching, Live
<1> QED
  BY <1>1, <1>2

(* The state of the registry, of the client and of what it should find are   *)
(* what ListingTypeOK says.                                                  *)
THEOREM ListingIsTyped == Spec => []ListingTypeOK
<1>1. ListingInv => ListingTypeOK
  BY DEF ListingInv
<1> QED
  BY <1>1, ListingInit, ListingNext, PTL DEF Spec

(* Whatever attaches, is detached or disappears between the pages, a listing *)
(* that ends has every subagent that matched all along exactly once, lists   *)
(* none twice and always ends: no cursor comes twice.                        *)
THEOREM ListingsAreExact == Spec => []ListingIsExact
<1>1. ListingInv => ListingIsExact
  BY DEF ListingInv
<1> QED
  BY <1>1, ListingInit, ListingNext, PTL DEF Spec
=============================================================================

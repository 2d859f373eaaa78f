---------------------------- MODULE ListingProofs ----------------------------
(***************************************************************************)
(* Proofs about Listing for every number of rows, every limit and every    *)
(* length of a walk.                                                       *)
(*                                                                         *)
(* Where a row stands in the order is counted without the order: Newer(x)  *)
(* are the active rows before x.  An insertion only moves rows away from   *)
(* the beginning and a deletion only towards it, hence a walk that no      *)
(* deletion overlaps cannot step over a row, and one that no insertion     *)
(* overlaps cannot meet a row again.                                       *)
(***************************************************************************)
EXTENDS Listing, FiniteSetTheorems, SequenceTheorems, TLAPS

Newer(x) == {y \in Active : row[y].created > row[x].created}

RowType  == [state : {"absent", "pending", "active", "deleted"}, created : Times \cup {0}]
WalkType == [on : BOOLEAN, limit : Limits, offset : Int, listed : Seq(Rows), page : Seq(Rows),
             kept : SUBSET Rows, inserted : BOOLEAN, deleted : BOOLEAN]

\* Rows and walk have their shape; only slots not in use have no time; and a walk is
\* as far as it has listed rows.
Shape ==
    /\ row \in [Rows -> RowType]
    /\ now \in Times
    /\ walk \in WalkType
    /\ \A x \in Rows : row[x].created = 0 <=> row[x].state = "absent"
    /\ walk.offset \in -1 .. Len(walk.listed)
    /\ walk.on => ClampOffset(walk.offset) = Len(walk.listed)
    /\ Len(walk.page) <= MaxLimit

\* No row that the walk is to list has been passed over.
StillAhead == ~walk.deleted /\ NoTies =>
    IF walk.on
    THEN /\ walk.kept \subseteq Active
         /\ \A x \in walk.kept \ ToSet(walk.listed) : Cardinality(Newer(x)) >= Len(walk.listed)
    ELSE walk.kept \subseteq ToSet(walk.listed)

\* No row that the walk has listed lies before it again.
NeverAgain == ~walk.inserted /\ NoTies =>
    /\ IsInjective(walk.listed)
    /\ walk.on => \A x \in ToSet(walk.listed) \cap Active :
                      Cardinality(Newer(x)) < Len(walk.listed)

\* The inductive invariant.
ListInv == Shape /\ StillAhead /\ NeverAgain

-----------------------------------------------------------------------------
(* Rows *)

LEMMA ActiveFinite == IsFiniteSet(Active)
  BY ListingAssumption, FS_Subset DEF Active

LEMMA NewerFinite ==
    ASSUME NEW x
    PROVE  Newer(x) \subseteq Active /\ IsFiniteSet(Newer(x)) /\ Cardinality(Newer(x)) \in Nat
  BY ActiveFinite, FS_Subset, FS_CardinalityType DEF Newer

\* Times are natural numbers.
LEMMA TimesAreNat == Times \subseteq Nat \ {0}
  BY ListingAssumption, FS_CardinalityType DEF Times

\* Without ties the rows in use have different times.
LEMMA TimesDiffer ==
    ASSUME Shape, NoTies, NEW x \in Active, NEW y \in Active, row[x].created = row[y].created
    PROVE  x = y
  BY DEF NoTies, Active, NoRow

\* The query's only order.  A row's place is one more than the number of newer rows.
LEMMA OrderShape ==
    ASSUME Shape, NEW s \in Orders(Active)
    PROVE  /\ s \in Seq(Active)
           /\ Len(s) = Cardinality(Active)
           /\ \A i, j \in 1 .. Len(s) : s[i] = s[j] => i = j
           /\ \A x \in Active : \E i \in 1 .. Len(s) : s[i] = x
           /\ \A i, j \in 1 .. Len(s) : i < j => row[s[i]].created >= row[s[j]].created
<1> DEFINE n == Cardinality(Active)
<1>1. n \in Nat /\ IsFiniteSet(Active)
  BY ActiveFinite, FS_CardinalityType
<1>2. s \in [1 .. n -> Active] /\ \A i, j \in 1 .. n : i # j => s[i] # s[j]
  BY DEF Orders, SetToSeqs
<1>3. s \in Seq(Active) /\ Len(s) = n
  BY <1>1, <1>2
<1>4. s \in Injection(1 .. n, Active)
  BY <1>2 DEF Injection, IsInjective
<1>5. Cardinality(1 .. n) = n
  BY <1>1, FS_Interval
<1>6. s \in Surjection(1 .. n, Active)
  BY <1>1, <1>4, <1>5, FS_Injection
<1>7. \A i, j \in 1 .. Len(s) : i < j => row[s[i]].created >= row[s[j]].created
  BY DEF Orders
<1> QED
  BY <1>2, <1>3, <1>6, <1>7 DEF Surjection

LEMMA PlaceInOrder ==
    ASSUME Shape, NoTies, NEW s \in Orders(Active), NEW i \in 1 .. Len(s)
    PROVE  Cardinality(Newer(s[i])) = i - 1
<1>1. /\ Len(s) \in Nat
      /\ \A j \in 1 .. Len(s) : s[j] \in Active
      /\ \A j, k \in 1 .. Len(s) : s[j] = s[k] => j = k
      /\ \A j, k \in 1 .. Len(s) : j < k => row[s[j]].created >= row[s[k]].created
      /\ \A x \in Active : \E j \in 1 .. Len(s) : s[j] = x
  BY OrderShape
<1>2. \A j \in 1 .. Len(s) : row[s[j]].created \in Nat
  BY <1>1, TimesAreNat DEF Shape, RowType, Active
<1>3. ASSUME NEW j \in 1 .. Len(s)
      PROVE  s[j] \in Newer(s[i]) <=> j < i
  <2> DEFINE c(k) == row[s[k]].created
  <2>1. c(i) \in Nat /\ c(j) \in Nat
    BY <1>2
  <2>2. j < i => c(j) >= c(i)
    BY <1>1
  <2>3. i < j => c(i) >= c(j)
    BY <1>1
  <2>4. c(i) = c(j) => i = j
    BY <1>1, TimesDiffer
  <2>5. s[j] \in Newer(s[i]) <=> c(j) > c(i)
    BY <1>1 DEF Newer
  <2> HIDE DEF c
  <2> QED
    BY <2>1, <2>2, <2>3, <2>4, <2>5
<1> DEFINE f == [j \in 1 .. i - 1 |-> s[j]]
<1>4. \A j \in 1 .. i - 1 : j \in 1 .. Len(s) /\ j < i
  BY <1>1
<1>5. f \in [1 .. i - 1 -> Newer(s[i])]
  BY <1>3, <1>4
<1>6. \A x \in Newer(s[i]) : \E j \in 1 .. i - 1 : f[j] = x
  <2> TAKE x \in Newer(s[i])
  <2>1. PICK j \in 1 .. Len(s) : s[j] = x
    BY <1>1 DEF Newer
  <2>2. j < i
    BY <1>3, <2>1
  <2> QED
    BY <2>1, <2>2
<1>7. f \in Bijection(1 .. i - 1, Newer(s[i]))
  <2>1. \A j, k \in 1 .. i - 1 : f[j] = f[k] => j = k
    BY <1>1, <1>4
  <2> QED
    BY <1>5, <1>6, <2>1 DEF Bijection, Injection, Surjection, IsInjective
<1>8. ExistsBijection(1 .. i - 1, Newer(s[i]))
  BY <1>7 DEF ExistsBijection
<1>9. IsFiniteSet(1 .. i - 1) /\ Cardinality(1 .. i - 1) = i - 1
  <2>1. 1 \in Int /\ i - 1 \in Int /\ i \in Nat \ {0}
    BY <1>1
  <2> QED
    BY <2>1, FS_Interval
<1> QED
  BY <1>8, <1>9, FS_Bijection

-----------------------------------------------------------------------------
(* Pages *)

LEMMA ClampedLimit == \A limit \in Limits : ClampLimit(limit) \in 1 .. MaxLimit
  BY ListingAssumption DEF Limits, ClampLimit

\* p is the stretch of s from the offset on, cut at the limit.
Stretch(p, s, limit, offset) ==
    /\ Len(p) <= limit
    /\ offset + limit <= Len(s) => Len(p) = limit
    /\ offset <= Len(s) /\ Len(s) < offset + limit => Len(p) = Len(s) - offset
    /\ Len(s) < offset => Len(p) = 0
    /\ \A i \in 1 .. Len(p) : offset + i \in 1 .. Len(s) /\ p[i] = s[offset + i]

LEMMA SliceShape ==
    ASSUME NEW S, NEW s \in Seq(S), NEW limit \in Nat, NEW offset \in Nat
    PROVE  /\ Slice(s, limit, offset) \in Seq(S)
           /\ Stretch(Slice(s, limit, offset), s, limit, offset)
<1> DEFINE m == IF offset + limit <= Len(s) THEN limit
                ELSE IF offset <= Len(s) THEN Len(s) - offset ELSE 0
<1>1. Len(s) \in Nat /\ m \in Nat /\ m <= limit
  OBVIOUS
<1>2. {k \in 1 .. limit : offset + k <= Len(s)} = 1 .. m
  BY <1>1
<1>3. Slice(s, limit, offset) = [i \in 1 .. m |-> s[offset + i]]
  BY <1>2 DEF Slice
<1>4. \A i \in 1 .. m : offset + i \in 1 .. Len(s) /\ s[offset + i] \in S
  BY <1>1
<1>5. Slice(s, limit, offset) \in [1 .. m -> S]
  BY <1>3, <1>4
<1>6. Slice(s, limit, offset) \in Seq(S) /\ Len(Slice(s, limit, offset)) = m
  BY <1>1, <1>5
<1> QED
  BY <1>1, <1>3, <1>4, <1>6 DEF Stretch

\* The walk goes on by a page of that order.
Turned(s, limit, page) ==
    /\ page = Slice(s, limit, Len(walk.listed))
    /\ page \in Seq(Rows)
    /\ Len(page) \in 0 .. MaxLimit
    /\ walk.listed \o page \in Seq(Rows)
    /\ Len(walk.listed \o page) = Len(walk.listed) + Len(page)
    /\ walk' = [on |-> page # <<>>, limit |-> walk.limit, offset |-> Len(walk.listed) + Len(page),
                listed |-> walk.listed \o page, page |-> page, kept |-> walk.kept,
                inserted |-> walk.inserted, deleted |-> walk.deleted]

\* What List takes: rows that follow each other in some order, beginning after as many
\* as are listed.
LEMMA PageTaken ==
    ASSUME Shape, List
    PROVE  \E s \in Orders(Active), limit \in 1 .. MaxLimit, page \in Seq(Active) :
              Turned(s, limit, page)
<1> DEFINE limit == ClampLimit(walk.limit)
           offset == Len(walk.listed)
<1>1. limit \in 1 .. MaxLimit
  BY ClampedLimit DEF Shape, WalkType
<1>2. ClampOffset(walk.offset) = offset
  BY DEF Shape, List
<1>3. PICK s \in Orders(Active) :
         walk' = [walk EXCEPT !.page = Slice(s, limit, offset),
                              !.listed = @ \o Slice(s, limit, offset),
                              !.offset = Len(walk.listed \o Slice(s, limit, offset)),
                              !.on = Slice(s, limit, offset) # <<>>]
  BY <1>2 DEF List, Pages
<1> DEFINE page == Slice(s, limit, offset)
<1>4. s \in Seq(Active) /\ Active \subseteq Rows
  BY OrderShape DEF Active
<1>5. walk.listed \in Seq(Rows) /\ offset \in Nat
  BY DEF Shape, WalkType
<1>6. limit \in Nat /\ MaxLimit \in Nat /\ limit <= MaxLimit
  BY <1>1, ListingAssumption
<1> HIDE DEF limit, offset
<1>7. page \in Seq(Active) /\ Len(page) <= limit
  BY <1>4, <1>5, <1>6, SliceShape DEF Stretch
<1>8. page \in Seq(Rows)
  BY <1>4, <1>7, SeqMonotonic
<1>9. Len(page) \in 0 .. MaxLimit
  <2>1. Len(page) \in Nat
    BY <1>8, LenProperties
  <2> QED
    BY <1>6, <1>7, <2>1
<1>10. walk.listed \o page \in Seq(Rows) /\ Len(walk.listed \o page) = Len(walk.listed) + Len(page)
  BY <1>5, <1>8, ConcatProperties
<1> HIDE DEF page
<1>11. walk' = [on |-> page # <<>>, limit |-> walk.limit, offset |-> Len(walk.listed) + Len(page),
                listed |-> walk.listed \o page, page |-> page, kept |-> walk.kept,
                inserted |-> walk.inserted, deleted |-> walk.deleted]
  <2>1. walk' = [walk EXCEPT !.page = page, !.listed = @ \o page, !.offset = Len(walk.listed \o page),
                             !.on = page # <<>>]
    BY <1>3 DEF page
  <2>2. walk \in WalkType
    BY DEF Shape
  <2> QED
    BY <1>10, <2>1, <2>2 DEF WalkType
<1> QED
  BY <1>1, <1>7, <1>8, <1>9, <1>10, <1>11 DEF page, offset, Turned

-----------------------------------------------------------------------------
(* The shape is kept *)

LEMMA ShapeStart == ListingInit => Shape
<1> SUFFICES ASSUME ListingInit PROVE Shape
  OBVIOUS
<1>1. NoRow \in RowType /\ 1 \in Times
  BY ListingAssumption, FS_CardinalityType DEF NoRow, RowType, Times
<1>2. NoWalk \in WalkType
  BY ListingAssumption DEF NoWalk, WalkType, Limits
<1> QED
  BY <1>1, <1>2, ListingAssumption DEF ListingInit, Shape, NoRow, NoWalk

LEMMA ShapeStep == Shape /\ [ListingNext]_listingVars => Shape'
<1> SUFFICES ASSUME Shape, [ListingNext]_listingVars PROVE Shape'
  OBVIOUS
<1>1. ASSUME NEW x \in Rows, NEW time \in Times, BeginInsert(x, time) PROVE Shape'
  <2>1. time # 0
    BY TimesAreNat
  <2>2. [state |-> "pending", created |-> time] \in RowType
    BY DEF RowType
  <2> QED
    BY <1>1, <2>1, <2>2 DEF Shape, BeginInsert
<1>2. ASSUME NEW x \in Rows, NEW state \in {"active", "deleted"}, row[x].state # "absent",
             row' = [row EXCEPT ![x].state = state], now' = now,
             walk' = [walk EXCEPT !.inserted = @ \/ walk.on] \/ walk' = [walk EXCEPT !.deleted = @ \/ walk.on]
      PROVE  Shape'
  <2>1. row[x] \in RowType
    BY DEF Shape
  <2>2. [row[x] EXCEPT !.state = state] \in RowType
    BY <2>1 DEF RowType
  <2>3. row' = [row EXCEPT ![x] = [row[x] EXCEPT !.state = state]]
    BY <1>2 DEF Shape
  <2>4. /\ row' \in [Rows -> RowType]
        /\ \A y \in Rows : row'[y].created = 0 <=> row'[y].state = "absent"
    BY <1>2, <2>1, <2>2, <2>3 DEF Shape, RowType
  <2>5. /\ walk' \in WalkType
        /\ \A f \in {"on", "offset", "listed", "page"} : walk'[f] = walk[f]
    BY <1>2 DEF Shape, WalkType
  <2> QED
    BY <1>2, <2>4, <2>5 DEF Shape
<1>3. ASSUME NEW limit \in Limits, NEW offset \in Offsets, StartWalk(limit, offset) PROVE Shape'
  <2>1. /\ walk' = [on |-> TRUE, limit |-> limit, offset |-> offset, listed |-> <<>>, page |-> <<>>,
                    kept |-> Active, inserted |-> FALSE, deleted |-> FALSE]
        /\ row' = row /\ now' = now
    BY <1>3 DEF StartWalk, NoWalk
  <2>2. walk' \in WalkType
    BY <2>1 DEF WalkType, Offsets, Active
  <2>3. /\ walk'.offset \in -1 .. Len(walk'.listed)
        /\ ClampOffset(walk'.offset) = Len(walk'.listed)
        /\ Len(walk'.page) <= MaxLimit
    BY <2>1, ListingAssumption DEF Offsets, ClampOffset
  <2> QED
    BY <2>1, <2>2, <2>3 DEF Shape
<1>4. CASE List
  <2>1. PICK s \in Orders(Active), limit \in 1 .. MaxLimit, page \in Seq(Active) :
              Turned(s, limit, page)
    BY <1>4, PageTaken
  <2>2. Len(walk.listed) \in Nat /\ Len(page) \in Nat
    BY <2>1 DEF Shape, WalkType, Turned
  <2>3. walk' \in WalkType
    BY <2>1, <2>2 DEF Shape, WalkType, Turned
  <2>4. /\ walk'.offset = Len(walk'.listed)
        /\ Len(walk'.listed) \in Nat
        /\ Len(walk'.page) \in 0 .. MaxLimit
    <3>1. Len(walk.listed \o page) = Len(walk.listed) + Len(page) /\ Len(page) \in 0 .. MaxLimit
      BY <2>1 DEF Turned
    <3>2. walk'.offset = Len(walk.listed) + Len(page)
      BY <2>1 DEF Turned
    <3>3. walk'.listed = walk.listed \o page /\ walk'.page = page
      BY <2>1 DEF Turned
    <3> QED
      BY <2>2, <3>1, <3>2, <3>3
  <2>5. /\ walk'.offset \in -1 .. Len(walk'.listed)
        /\ ClampOffset(walk'.offset) = Len(walk'.listed)
        /\ Len(walk'.page) <= MaxLimit
    <3> DEFINE offset == walk'.offset
               n == Len(walk'.listed)
               m == Len(walk'.page)
    <3>1. offset = n /\ n \in Nat /\ m \in 0 .. MaxLimit /\ MaxLimit \in Nat
      BY <2>4, ListingAssumption
    <3> HIDE DEF offset, n, m
    <3>2. offset \in -1 .. n /\ ClampOffset(offset) = n /\ m <= MaxLimit
      BY <3>1 DEF ClampOffset
    <3> QED
      BY <3>2 DEF offset, n, m
  <2> QED
    BY <1>4, <2>3, <2>5 DEF Shape, List
<1>5. CASE UNCHANGED listingVars
  BY <1>5 DEF Shape, listingVars, ClampOffset
<1> QED
  BY <1>1, <1>2, <1>3, <1>4, <1>5 DEF ListingNext, CommitInsert, SoftDeleteRow

-----------------------------------------------------------------------------
(* What the steps do to the order *)

\* A row in use keeps its time, so a tie does not go away.
LEMMA TiesStay ==
    ASSUME Shape, [ListingNext]_listingVars
    PROVE  /\ \A x \in Rows : row[x].created # 0 => row'[x].created = row[x].created
           /\ NoTies' => NoTies
<1>1. \A x \in Rows : row[x].created # 0 => row'[x].created = row[x].created
  <2>1. ASSUME NEW x \in Rows, NEW time \in Times, BeginInsert(x, time)
        PROVE  \A y \in Rows : row[y].created # 0 => row'[y].created = row[y].created
    BY <2>1 DEF BeginInsert, Shape, NoRow
  <2>2. ASSUME NEW x \in Rows, CommitInsert(x) \/ SoftDeleteRow(x)
        PROVE  \A y \in Rows : row'[y].created = row[y].created
    BY <2>2 DEF CommitInsert, SoftDeleteRow, Shape, RowType
  <2>3. ASSUME row' = row
        PROVE  \A y \in Rows : row'[y].created = row[y].created
    BY <2>3
  <2> QED
    BY <2>1, <2>2, <2>3 DEF ListingNext, StartWalk, List, listingVars
<1>2. \A x \in Rows : row[x] = NoRow <=> row[x].created = 0
  BY DEF Shape, RowType, NoRow
<1>3. \A x \in Rows : row'[x] = NoRow <=> row'[x].created = 0
  BY ShapeStep DEF Shape, RowType, NoRow
<1> QED
  BY <1>1, <1>2, <1>3 DEF NoTies

\* A step that changes no active row's standing: the beginning of an insertion.
LEMMA BeginKeepsOrder ==
    ASSUME Shape, NEW x \in Rows, NEW time \in Times, BeginInsert(x, time)
    PROVE  Active' = Active /\ \A y \in Active : Newer(y)' = Newer(y)
<1>1. Active' = Active
  BY DEF Shape, BeginInsert, Active, NoRow
<1>2. \A y \in Active : row'[y] = row[y]
  BY DEF Shape, BeginInsert, Active, NoRow
<1> QED
  BY <1>1, <1>2 DEF Newer

\* An insertion adds rows before others, a deletion takes some away.
LEMMA CommitMovesBack ==
    ASSUME Shape, Shape', NEW x \in Rows, CommitInsert(x)
    PROVE  /\ Active \subseteq Active'
           /\ \A y \in Active : Cardinality(Newer(y)) <= Cardinality(Newer(y)')
<1>1. Active \subseteq Active' /\ \A y \in Active : row'[y].created = row[y].created
  BY DEF Shape, CommitInsert, Active, RowType
<1>2. \A y \in Active : Newer(y) \subseteq Newer(y)'
  BY <1>1 DEF Newer
<1>3. IsFiniteSet(Active')
  BY ListingAssumption, FS_Subset DEF Active
<1>4. \A y \in Active : IsFiniteSet(Newer(y)')
  BY <1>3, FS_Subset DEF Newer
<1> QED
  BY <1>1, <1>2, <1>4, FS_Subset

LEMMA DeleteMovesForward ==
    ASSUME Shape, Shape', NEW x \in Rows, SoftDeleteRow(x)
    PROVE  /\ Active' \subseteq Active
           /\ \A y \in Active' : /\ Cardinality(Newer(y)') <= Cardinality(Newer(y))
                                 /\ Cardinality(Newer(y)') \in Nat
<1>1. Active' \subseteq Active /\ \A y \in Active : row'[y].created = row[y].created
  BY DEF Shape, SoftDeleteRow, Active, RowType
<1>2. \A y \in Active' : Newer(y)' \subseteq Newer(y)
  BY <1>1 DEF Newer
<1> QED
  BY <1>1, <1>2, NewerFinite, FS_Subset, FS_CardinalityType

\* What a walk has listed after a page: what it had, and the rows of the page.
LEMMA ListedAfter ==
    ASSUME NEW listed \in Seq(Rows), NEW page \in Seq(Rows)
    PROVE  ToSet(listed \o page) = ToSet(listed) \cup ToSet(page)
<1>1. /\ listed \o page \in Seq(Rows)
      /\ Len(listed) \in Nat /\ Len(page) \in Nat
      /\ Len(listed \o page) = Len(listed) + Len(page)
      /\ \A i \in 1 .. Len(listed) + Len(page) :
            (listed \o page)[i] = IF i <= Len(listed) THEN listed[i] ELSE page[i - Len(listed)]
  BY ConcatProperties
<1>2. \A i \in 1 .. Len(listed) : (listed \o page)[i] = listed[i]
  BY <1>1
<1>3. \A i \in 1 .. Len(page) : /\ i + Len(listed) \in 1 .. Len(listed) + Len(page)
                                /\ (listed \o page)[i + Len(listed)] = page[i]
  BY <1>1
<1>4. /\ DOMAIN (listed \o page) = 1 .. Len(listed) + Len(page)
      /\ DOMAIN listed = 1 .. Len(listed)
      /\ DOMAIN page = 1 .. Len(page)
  BY <1>1, LenProperties
<1>5. ToSet(listed) \cup ToSet(page) \subseteq ToSet(listed \o page)
  <2>1. \A i \in 1 .. Len(listed) : i \in DOMAIN (listed \o page)
    BY <1>1, <1>4
  <2>2. ToSet(listed) \subseteq ToSet(listed \o page)
    BY <1>2, <1>4, <2>1 DEF ToSet
  <2>3. ToSet(page) \subseteq ToSet(listed \o page)
    BY <1>3, <1>4 DEF ToSet
  <2> QED
    BY <2>2, <2>3
<1>6. ASSUME NEW i \in 1 .. Len(listed) + Len(page)
      PROVE  (listed \o page)[i] \in ToSet(listed) \cup ToSet(page)
  <2>1. i <= Len(listed) => i \in 1 .. Len(listed)
    BY <1>1
  <2>2. ~(i <= Len(listed)) => i - Len(listed) \in 1 .. Len(page)
    BY <1>1
  <2> QED
    BY <1>1, <1>4, <2>1, <2>2 DEF ToSet
<1> QED
  BY <1>4, <1>5, <1>6 DEF ToSet

\* The places of a page: its rows have at least as many newer ones as are listed, and
\* every active row beyond it has at least that many and the page.
LEMMA PagePlaces ==
    ASSUME Shape, NoTies, NEW s \in Orders(Active), NEW limit \in 1 .. MaxLimit,
           NEW page \in Seq(Active), Turned(s, limit, page), NEW n, n = Len(walk.listed)
    PROVE  /\ \A x \in ToSet(page) : /\ x \in Active
                                     /\ n <= Cardinality(Newer(x))
                                     /\ Cardinality(Newer(x)) < n + Len(page)
           /\ \A x \in Active \ ToSet(page) :
                 n <= Cardinality(Newer(x)) => n + Len(page) <= Cardinality(Newer(x))
           /\ IsInjective(page)
           /\ page = <<>> => \A x \in Active : Cardinality(Newer(x)) < n
<1> DEFINE m == Len(page)
           size == Len(s)
<1>1. n \in Nat /\ m \in Nat /\ size \in Nat /\ limit \in Nat /\ limit >= 1
  BY OrderShape, LenProperties DEF Shape, WalkType
<1>2. /\ page = Slice(s, limit, n)
      /\ n + limit <= size => m = limit
      /\ n <= size /\ size < n + limit => m = size - n
      /\ size < n => m = 0
      /\ \A i \in 1 .. m : n + i \in 1 .. size /\ page[i] = s[n + i]
  <2>1. page = Slice(s, limit, n)
    BY DEF Turned
  <2>2. s \in Seq(Active) /\ limit \in Nat /\ n \in Nat
    BY <1>1, OrderShape
  <2>3. Stretch(page, s, limit, n)
    BY <2>1, <2>2, SliceShape
  <2> QED
    BY <2>1, <2>3 DEF Stretch
<1>3. DOMAIN page = 1 .. m
  BY LenProperties
<1>4. /\ \A i \in 1 .. size : s[i] \in Active /\ Cardinality(Newer(s[i])) = i - 1
      /\ \A x \in Active : \E i \in 1 .. size : s[i] = x
      /\ \A i, j \in 1 .. size : s[i] = s[j] => i = j
  BY OrderShape, PlaceInOrder
<1>5. \A i \in 1 .. size : n < i /\ i <= n + m => s[i] \in ToSet(page)
  <2> SUFFICES ASSUME NEW i \in 1 .. size, n < i, i <= n + m PROVE s[i] \in ToSet(page)
    OBVIOUS
  <2>1. i - n \in 1 .. m /\ n + (i - n) = i
    BY <1>1
  <2>2. page[i - n] = s[i]
    BY <1>2, <2>1
  <2> QED
    BY <1>3, <2>1, <2>2 DEF ToSet
<1> HIDE DEF m, size
<1>6. \A i \in 1 .. size : n < i => m >= 1
  <2> SUFFICES ASSUME NEW i \in 1 .. size, n < i PROVE m >= 1
    OBVIOUS
  <2>1. n < size
    BY <1>1
  <2>2. CASE n + limit <= size
    BY <1>1, <1>2, <2>2
  <2>3. CASE size < n + limit
    BY <1>1, <1>2, <2>1, <2>3
  <2> QED
    BY <1>1, <2>2, <2>3
<1>7. ASSUME NEW x \in ToSet(page)
      PROVE  x \in Active /\ n <= Cardinality(Newer(x)) /\ Cardinality(Newer(x)) < n + m
  <2>1. PICK i \in 1 .. m : page[i] = x
    BY <1>3 DEF ToSet
  <2>2. n + i \in 1 .. size /\ s[n + i] = x
    BY <1>2, <2>1
  <2>3. x \in Active /\ Cardinality(Newer(x)) = n + i - 1
    BY <1>4, <2>2
  <2> QED
    BY <1>1, <2>1, <2>3
<1>8. ASSUME NEW x \in Active \ ToSet(page), n <= Cardinality(Newer(x))
      PROVE  n + m <= Cardinality(Newer(x))
  <2>1. PICK i \in 1 .. size : s[i] = x
    BY <1>4
  <2>2. Cardinality(Newer(x)) = i - 1
    BY <1>4, <2>1
  <2>3. n < i
    BY <1>1, <1>8, <2>1, <2>2
  <2>4. ~(i <= n + m)
    BY <1>5, <2>1, <2>3
  <2> QED
    BY <1>1, <2>1, <2>2, <2>4
<1>9. IsInjective(page)
  <2> SUFFICES ASSUME NEW i \in 1 .. m, NEW j \in 1 .. m, page[i] = page[j] PROVE i = j
    BY <1>3 DEF IsInjective
  <2>1. n + i \in 1 .. size /\ n + j \in 1 .. size /\ s[n + i] = s[n + j]
    BY <1>2
  <2>2. n + i = n + j
    BY <1>4, <2>1
  <2> QED
    BY <1>1, <2>2
<1>10. ASSUME page = <<>>, NEW x \in Active
       PROVE  Cardinality(Newer(x)) < n
  <2>1. PICK i \in 1 .. size : s[i] = x
    BY <1>4
  <2>2. m = 0
    BY <1>10 DEF m
  <2>3. ~(n < i)
    BY <1>1, <1>6, <2>1, <2>2
  <2> QED
    BY <1>1, <1>4, <2>1, <2>3
<1> QED
  BY <1>7, <1>8, <1>9, <1>10 DEF m

-----------------------------------------------------------------------------
(* Completeness *)

LEMMA StillAheadStep == Shape /\ StillAhead /\ [ListingNext]_listingVars => StillAhead'
<1> SUFFICES ASSUME Shape, StillAhead, [ListingNext]_listingVars, ~walk'.deleted, NoTies'
             PROVE  StillAhead'
  BY DEF StillAhead
<1>1. NoTies /\ Shape'
  BY TiesStay, ShapeStep
<1> DEFINE n == Len(walk.listed)
<1>2. n \in Nat /\ walk.listed \in Seq(Rows)
  BY LenProperties DEF Shape, WalkType
<1>3. ASSUME NEW x \in Rows, NEW time \in Times, BeginInsert(x, time)
      PROVE  StillAhead'
  BY <1>1, <1>3, BeginKeepsOrder DEF StillAhead, BeginInsert
<1>4. ASSUME NEW x \in Rows, CommitInsert(x)
      PROVE  StillAhead'
  <2>1. \A f \in {"on", "kept", "listed", "deleted"} : walk'[f] = walk[f]
    BY <1>4 DEF CommitInsert, Shape, WalkType
  <2>2. /\ walk'.on = walk.on /\ walk'.kept = walk.kept
        /\ walk'.listed = walk.listed /\ walk'.deleted = walk.deleted
    BY <2>1
  <2>3. CASE ~walk.on
    BY <1>1, <2>2, <2>3 DEF StillAhead
  <2>4. CASE walk.on
    <3>1. walk.kept \subseteq Active /\ Active \subseteq Active'
      BY <1>1, <1>4, <2>2, <2>4, CommitMovesBack DEF StillAhead
    <3>2. ASSUME NEW y \in walk.kept \ ToSet(walk.listed)
          PROVE  Cardinality(Newer(y)') >= n
      <4>1. Cardinality(Newer(y)) >= n
        BY <1>1, <2>2, <2>4 DEF StillAhead
      <4>2. Cardinality(Newer(y)) <= Cardinality(Newer(y)') /\ Cardinality(Newer(y)) \in Nat
        BY <1>1, <1>4, <3>1, CommitMovesBack, NewerFinite
      <4>3. Cardinality(Newer(y)') \in Nat
        BY <1>1, ListingAssumption, FS_Subset, FS_CardinalityType DEF Newer, Active
      <4> QED
        BY <1>2, <4>1, <4>2, <4>3
    <3> QED
      BY <2>2, <2>4, <3>1, <3>2 DEF StillAhead
  <2> QED
    BY <2>3, <2>4 DEF Shape, WalkType
<1>5. ASSUME NEW x \in Rows, SoftDeleteRow(x)
      PROVE  StillAhead'
  <2>1. /\ ~walk.on /\ ~walk.deleted
        /\ walk'.on = walk.on /\ walk'.kept = walk.kept /\ walk'.listed = walk.listed
    BY <1>5 DEF SoftDeleteRow, Shape, WalkType
  <2> QED
    BY <1>1, <2>1 DEF StillAhead
<1>6. ASSUME NEW limit \in Limits, NEW offset \in Offsets, StartWalk(limit, offset)
      PROVE  StillAhead'
  <2>1. walk'.on /\ walk'.kept = Active /\ walk'.listed = <<>> /\ Active' = Active
    BY <1>6 DEF StartWalk, NoWalk, Active
  <2>2. \A x : Newer(x)' = Newer(x)
    BY <1>6, <2>1 DEF StartWalk, Newer
  <2> QED
    BY <2>1, <2>2, NewerFinite DEF StillAhead
<1>7. CASE List
  <2>1. PICK s \in Orders(Active), limit \in 1 .. MaxLimit, page \in Seq(Active) :
              Turned(s, limit, page)
    BY <1>7, PageTaken
  <2>2. /\ walk'.on = (page # <<>>) /\ walk'.kept = walk.kept
        /\ walk'.listed = walk.listed \o page /\ walk'.deleted = walk.deleted
        /\ Len(walk.listed \o page) = n + Len(page)
        /\ page \in Seq(Rows)
    BY <2>1 DEF Turned
  <2>3. ToSet(walk'.listed) = ToSet(walk.listed) \cup ToSet(page)
    BY <1>2, <2>2, ListedAfter
  <2>4. /\ walk.kept \subseteq Active
        /\ \A x \in walk.kept \ ToSet(walk.listed) : Cardinality(Newer(x)) >= n
    BY <1>1, <1>7, <2>2 DEF StillAhead, List
  <2>5. Active' = Active /\ \A x : Newer(x)' = Newer(x)
    BY <1>7 DEF List, Active, Newer
  <2>6. /\ \A x \in Active \ ToSet(page) :
              n <= Cardinality(Newer(x)) => n + Len(page) <= Cardinality(Newer(x))
        /\ page = <<>> => \A x \in Active : Cardinality(Newer(x)) < n
    BY <1>1, <2>1, PagePlaces
  <2>7. \A x \in walk.kept : Cardinality(Newer(x)) \in Nat
    BY NewerFinite
  <2>8. CASE page = <<>>
    <3>1. ASSUME NEW x \in walk.kept \ ToSet(walk.listed)
          PROVE  FALSE
      <4>1. n <= Cardinality(Newer(x)) /\ Cardinality(Newer(x)) < n
        BY <2>4, <2>6, <2>8
      <4> QED
        BY <1>2, <2>7, <4>1
    <3>2. ~walk'.on /\ walk'.kept \subseteq ToSet(walk'.listed)
      BY <2>2, <2>3, <2>8, <3>1
    <3> QED
      BY <3>2 DEF StillAhead
  <2>9. CASE page # <<>>
    BY <1>2, <2>2, <2>3, <2>4, <2>5, <2>6, <2>7, <2>9 DEF StillAhead
  <2> QED
    BY <2>8, <2>9
<1>8. CASE UNCHANGED listingVars
  BY <1>1, <1>8 DEF StillAhead, listingVars, Newer, Active
<1> QED
  BY <1>3, <1>4, <1>5, <1>6, <1>7, <1>8 DEF ListingNext

-----------------------------------------------------------------------------
(* No repetition *)

LEMMA ListedOnce ==
    ASSUME NEW listed \in Seq(Rows), NEW page \in Seq(Rows), IsInjective(listed), IsInjective(page),
           ToSet(listed) \cap ToSet(page) = {}
    PROVE  IsInjective(listed \o page)
<1> DEFINE n == Len(listed)
           m == Len(page)
           all == listed \o page
<1>1. /\ n \in Nat /\ m \in Nat
      /\ DOMAIN all = 1 .. n + m /\ DOMAIN listed = 1 .. n /\ DOMAIN page = 1 .. m
      /\ \A i \in 1 .. n + m : all[i] = IF i <= n THEN listed[i] ELSE page[i - n]
  BY ConcatProperties, LenProperties
<1> HIDE DEF n, m, all
<1>2. \A i \in 1 .. n + m : \/ i \in 1 .. n /\ all[i] = listed[i]
                            \/ i - n \in 1 .. m /\ all[i] = page[i - n]
  BY <1>1
<1>3. \A i \in 1 .. n, j \in 1 .. m : listed[i] # page[j]
  BY <1>1 DEF ToSet
<1>4. \A i, j \in 1 .. n : listed[i] = listed[j] => i = j
  BY <1>1 DEF IsInjective
<1>5. \A i, j \in 1 .. m : page[i] = page[j] => i = j
  BY <1>1 DEF IsInjective
<1>6. ASSUME NEW i \in 1 .. n + m, NEW j \in 1 .. n + m, all[i] = all[j]
      PROVE  i = j
  <2>1. CASE i \in 1 .. n /\ all[i] = listed[i]
    <3>1. j \in 1 .. n /\ all[j] = listed[j]
      BY <1>2, <1>3, <1>6, <2>1
    <3> QED
      BY <1>4, <1>6, <2>1, <3>1
  <2>2. CASE i - n \in 1 .. m /\ all[i] = page[i - n]
    <3>1. j - n \in 1 .. m /\ all[j] = page[j - n]
      BY <1>2, <1>3, <1>6, <2>2
    <3>2. i - n = j - n
      BY <1>5, <1>6, <2>2, <3>1
    <3> QED
      BY <1>1, <3>2
  <2> QED
    BY <1>2, <2>1, <2>2
<1>7. IsInjective(all)
  BY <1>1, <1>6 DEF IsInjective
<1> QED
  BY <1>7 DEF all

LEMMA NeverAgainStep == Shape /\ NeverAgain /\ [ListingNext]_listingVars => NeverAgain'
<1> SUFFICES ASSUME Shape, NeverAgain, [ListingNext]_listingVars, ~walk'.inserted, NoTies'
             PROVE  NeverAgain'
  BY DEF NeverAgain
<1>1. NoTies /\ Shape'
  BY TiesStay, ShapeStep
<1> DEFINE n == Len(walk.listed)
<1>2. n \in Nat /\ walk.listed \in Seq(Rows)
  BY LenProperties DEF Shape, WalkType
<1>3. ASSUME NEW x \in Rows, NEW time \in Times, BeginInsert(x, time)
      PROVE  NeverAgain'
  BY <1>1, <1>3, BeginKeepsOrder DEF NeverAgain, BeginInsert
<1>4. ASSUME NEW x \in Rows, CommitInsert(x)
      PROVE  NeverAgain'
  <2>1. ~walk.on /\ ~walk.inserted /\ walk'.on = walk.on /\ walk'.listed = walk.listed
    BY <1>4 DEF CommitInsert, Shape, WalkType
  <2> QED
    BY <1>1, <2>1 DEF NeverAgain
<1>5. ASSUME NEW x \in Rows, SoftDeleteRow(x)
      PROVE  NeverAgain'
  <2>1. walk'.on = walk.on /\ walk'.listed = walk.listed /\ walk'.inserted = walk.inserted
    BY <1>5 DEF SoftDeleteRow, Shape, WalkType
  <2>2. IsInjective(walk.listed)
    BY <1>1, <2>1 DEF NeverAgain
  <2>3. ASSUME walk.on, NEW y \in ToSet(walk.listed) \cap Active'
        PROVE  Cardinality(Newer(y)') < n
    <3>1. /\ y \in Active
          /\ Cardinality(Newer(y)') <= Cardinality(Newer(y)) /\ Cardinality(Newer(y)') \in Nat
      BY <1>1, <1>5, <2>3, DeleteMovesForward
    <3>2. Cardinality(Newer(y)) < n /\ Cardinality(Newer(y)) \in Nat
      BY <1>1, <2>1, <2>3, <3>1, NewerFinite DEF NeverAgain
    <3> QED
      BY <1>2, <3>1, <3>2
  <2> QED
    BY <2>1, <2>2, <2>3 DEF NeverAgain
<1>6. ASSUME NEW limit \in Limits, NEW offset \in Offsets, StartWalk(limit, offset)
      PROVE  NeverAgain'
  <2>1. walk'.listed = <<>>
    BY <1>6 DEF StartWalk, NoWalk
  <2>2. DOMAIN walk'.listed = {} /\ ToSet(walk'.listed) = {}
    BY <2>1 DEF ToSet
  <2> QED
    BY <2>2 DEF NeverAgain, IsInjective
<1>7. CASE List
  <2>1. PICK s \in Orders(Active), limit \in 1 .. MaxLimit, page \in Seq(Active) :
              Turned(s, limit, page)
    BY <1>7, PageTaken
  <2>2. /\ walk'.listed = walk.listed \o page /\ walk'.inserted = walk.inserted
        /\ Len(walk.listed \o page) = n + Len(page)
        /\ page \in Seq(Rows) /\ Len(page) \in Nat
    BY <2>1, LenProperties DEF Turned
  <2>3. walk.on /\ Active' = Active /\ \A x : Newer(x)' = Newer(x)
    BY <1>7 DEF List, Active, Newer
  <2>4. /\ IsInjective(walk.listed)
        /\ \A x \in ToSet(walk.listed) \cap Active : Cardinality(Newer(x)) < n
    BY <1>1, <2>2, <2>3 DEF NeverAgain
  <2>5. /\ \A x \in ToSet(page) : /\ x \in Active
                                  /\ n <= Cardinality(Newer(x))
                                  /\ Cardinality(Newer(x)) < n + Len(page)
        /\ IsInjective(page)
    BY <1>1, <2>1, PagePlaces
  <2>6. \A x : Cardinality(Newer(x)) \in Nat
    BY NewerFinite
  <2>7. ToSet(walk.listed) \cap ToSet(page) = {}
    BY <1>2, <2>4, <2>5, <2>6
  <2>8. IsInjective(walk'.listed)
    BY <1>2, <2>2, <2>4, <2>5, <2>7, ListedOnce
  <2>9. ASSUME NEW x \in ToSet(walk'.listed) \cap Active
        PROVE  Cardinality(Newer(x)) < Len(walk'.listed)
    <3>1. x \in ToSet(walk.listed) \/ x \in ToSet(page)
      BY <1>2, <2>2, <2>9, ListedAfter
    <3>2. Cardinality(Newer(x)) < n + Len(page)
      BY <1>2, <2>2, <2>4, <2>5, <2>6, <2>9, <3>1
    <3> QED
      BY <2>2, <3>2
  <2> QED
    BY <2>3, <2>8, <2>9 DEF NeverAgain
<1>8. CASE UNCHANGED listingVars
  BY <1>1, <1>8 DEF NeverAgain, listingVars, Newer, Active
<1> QED
  BY <1>3, <1>4, <1>5, <1>6, <1>7, <1>8 DEF ListingNext

-----------------------------------------------------------------------------
(* The invariant, and what it says of every walk *)

LEMMA ListInvStart == ListingInit => ListInv
<1> SUFFICES ASSUME ListingInit PROVE ListInv
  OBVIOUS
<1>1. walk = NoWalk /\ ToSet(NoWalk.listed) = {} /\ DOMAIN NoWalk.listed = {}
  BY DEF ListingInit, NoWalk, ToSet
<1>2. StillAhead
  BY <1>1 DEF StillAhead, NoWalk
<1>3. NeverAgain
  BY <1>1 DEF NeverAgain, NoWalk, IsInjective
<1> QED
  BY <1>2, <1>3, ShapeStart DEF ListInv

LEMMA ListInvariance == ListingSpec => []ListInv
<1>1. ListInv /\ [ListingNext]_listingVars => ListInv'
  BY ShapeStep, StillAheadStep, NeverAgainStep DEF ListInv
<1> QED
  BY <1>1, ListInvStart, PTL DEF ListingSpec

\* Rows and walk keep their shape, and no page is longer than the maximum, whatever
\* limit and offset a client sends.
THEOREM ListingTypeCorrect == ListingSpec => []ListingTypeOK
<1>1. ListInv => ListingTypeOK
  BY DEF ListInv, Shape, ListingTypeOK, RowType, WalkType
<1> QED
  BY <1>1, ListInvariance, PTL

\* A walk through a list endpoint that no deletion overlaps misses none of the rows
\* that were there when it began, however many are inserted while it goes on.
THEOREM WalksMissNothing == ListingSpec => []WalksAreComplete
<1>1. ListInv => WalksAreComplete
  BY DEF ListInv, StillAhead, WalksAreComplete, Walked
<1> QED
  BY <1>1, ListInvariance, PTL

\* A walk during which no row appears lists no row a second time, however many are
\* deleted while it goes on.
THEOREM WalksRepeatNothing == ListingSpec => []WalksListOnce
<1>1. ListInv => WalksListOnce
  BY DEF ListInv, NeverAgain, WalksListOnce
<1> QED
  BY <1>1, ListInvariance, PTL

=============================================================================

------------------------------- MODULE Listing -------------------------------
(***************************************************************************)
(* A client walks through a list endpoint page by page while others insert *)
(* and delete rows of that list.  A page is one query: the active rows of  *)
(* the app, newest first, from the offset on.  created_at is the time an   *)
(* insertion began, so a row may become visible after newer ones, and two  *)
(* rows may have the same; the query does not say which of those is first. *)
(***************************************************************************)
EXTENDS Integers, Sequences, FiniteSets, SequencesExt

CONSTANTS
    Rows,          \* slots for rows of one app in one table
    DefaultLimit,  \* 50 in the code
    MaxLimit       \* 100

ASSUME ListingAssumption ==
    /\ IsFiniteSet(Rows)
    /\ MaxLimit \in Nat
    /\ DefaultLimit \in 1 .. MaxLimit

VARIABLES
    row,   \* row[x]: its state and the time it was created
    now,   \* the time of the latest insertion
    walk   \* the client's walk

listingVars == <<row, now, walk>>

\* Bounds: what a client may ask for, and the times rows are created at.
Limits  == 0 .. MaxLimit + 1
Offsets == {-1, 0}
Times   == 1 .. Cardinality(Rows) + 1

NoRow   == [state |-> "absent", created |-> 0]
NoWalk  == [on |-> FALSE, limit |-> 0, offset |-> 0, listed |-> <<>>, page |-> <<>>,
            kept |-> {}, inserted |-> FALSE, deleted |-> FALSE]

ListingInit ==
    /\ row = [x \in Rows |-> NoRow]
    /\ now = 1
    /\ walk = NoWalk

Active == {x \in Rows : row[x].state = "active"}

\* A faulty variant: a limit above the maximum is let through.
ClampLimitBelow(limit) == IF limit <= 0 THEN DefaultLimit ELSE limit

\* A page size and an offset that the API accepts.
ClampLimit(limit)   == IF limit <= 0 \/ limit > MaxLimit THEN DefaultLimit ELSE limit
ClampOffset(offset) == IF offset < 0 THEN 0 ELSE offset

\* A faulty variant: ORDER BY is left out.
SomeOrders(S) == SetToSeqs(S)

\* ORDER BY created_at DESC: every sequence of S the query may run through.
Orders(S) == {s \in SetToSeqs(S) :
    \A i, j \in 1 .. Len(s) : i < j => row[s[i]].created >= row[s[j]].created}

\* A faulty variant: a page begins with the last row of the one before.
SliceOverlapping(s, limit, offset) ==
    LET first == IF offset = 0 THEN 1 ELSE offset
    IN  [i \in {k \in 1 .. limit : first + k <= Len(s) + 1} |-> s[first + i - 1]]

\* LIMIT and OFFSET.
Slice(s, limit, offset) == [i \in {k \in 1 .. limit : offset + k <= Len(s)} |-> s[offset + i]]

\* What a list endpoint may answer.
Pages(limit, offset) ==
    {Slice(s, ClampLimit(limit), ClampOffset(offset)) : s \in Orders(Active)}

-----------------------------------------------------------------------------
\* An insertion begins at the time that will be its created_at: that of the
\* one before, or a later one.
BeginInsert(x, time) ==
    /\ row[x] = NoRow
    /\ time \in {now, now + 1}
    /\ row' = [row EXCEPT ![x] = [state |-> "pending", created |-> time]]
    /\ now' = time
    /\ UNCHANGED walk

CommitInsert(x) ==
    /\ row[x].state = "pending"
    /\ row' = [row EXCEPT ![x].state = "active"]
    /\ walk' = [walk EXCEPT !.inserted = @ \/ walk.on]
    /\ UNCHANGED now

SoftDeleteRow(x) ==
    /\ row[x].state = "active"
    /\ row' = [row EXCEPT ![x].state = "deleted"]
    /\ walk' = [walk EXCEPT !.deleted = @ \/ walk.on]
    /\ UNCHANGED now

\* The client starts a walk with the limit and the offset it likes.
StartWalk(limit, offset) ==
    /\ ~walk.on
    /\ walk' = [NoWalk EXCEPT !.on = TRUE, !.limit = limit, !.offset = offset, !.kept = Active]
    /\ UNCHANGED <<row, now>>

\* The next page: the client goes on from the rows it has, until a page is empty.
List ==
    /\ walk.on
    /\ \E page \in Pages(walk.limit, walk.offset) :
         walk' = [walk EXCEPT !.page = page,
                              !.listed = @ \o page,
                              !.offset = Len(walk.listed \o page),
                              !.on = page # <<>>]
    /\ UNCHANGED <<row, now>>

ListingNext ==
    \/ \E x \in Rows, time \in Times : BeginInsert(x, time)
    \/ \E x \in Rows : CommitInsert(x) \/ SoftDeleteRow(x)
    \/ \E limit \in Limits, offset \in Offsets : StartWalk(limit, offset)
    \/ List

ListingSpec == ListingInit /\ [][ListingNext]_listingVars

-----------------------------------------------------------------------------
(* Properties *)

Walked == ~walk.on /\ walk # NoWalk

\* The query's order is the only one there is.
NoTies == \A x, y \in Rows : row[x].created = row[y].created => x = y \/ row[x] = NoRow

\* A walk that no deletion overlapped lists every row that was there from its
\* beginning to its end, whatever was inserted meanwhile and wherever in the
\* order, unless rows were created at one instant.
WalksAreComplete ==
    Walked /\ ~walk.deleted /\ NoTies => walk.kept \subseteq ToSet(walk.listed)

\* A walk during which no row appeared lists no row twice, whatever was
\* deleted meanwhile.
WalksListOnce ==
    Walked /\ ~walk.inserted /\ NoTies => IsInjective(walk.listed)

\* Rows and walk keep their shape; whatever a client asks for, no page is longer than
\* the maximum.
ListingTypeOK ==
    /\ row \in [Rows -> [state : {"absent", "pending", "active", "deleted"}, created : Times \cup {0}]]
    /\ now \in Times
    /\ walk.kept \subseteq Rows
    /\ walk.listed \in Seq(Rows)
    /\ walk.offset \in -1 .. Len(walk.listed)
    /\ Len(walk.page) <= MaxLimit

=============================================================================

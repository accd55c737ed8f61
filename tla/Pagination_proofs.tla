---- MODULE Pagination_proofs ----
(***************************************************************************)
(* Theorems about Pagination, for any finite set of ids, any limits and    *)
(* any number of rows created during the walk.  All of them rest on ranks: *)
(* the rows of a table have the ranks 0, 1, 2 ..., one each, and a row     *)
(* that is created only pushes others back.                                *)
(***************************************************************************)
EXTENDS Pagination, Functions, FiniteSetTheorems, TLAPS

\* Ids before an id, in a finite table.
LEMMA RankType ==
    ASSUME NEW in \in SUBSET Id, NEW id \in in
    PROVE  /\ IsFiniteSet(in)
           /\ Rank(id, in) \in 0 .. Cardinality(in) - 1
<1>1. IsFiniteSet(in) /\ Cardinality(in) \in Nat
  BY PageAssumption, FS_Subset, FS_CardinalityType
<1>2. PICK below : below = {i \in in : i < id}
  OBVIOUS
<1>3. below \in SUBSET in /\ id \in Nat /\ id \notin below
  BY <1>2, PageAssumption
<1>4. Cardinality(below) \in Nat /\ Cardinality(below) <= Cardinality(in)
  BY <1>1, <1>3, FS_Subset, FS_CardinalityType
<1>5. Cardinality(below) # Cardinality(in)
  BY <1>1, <1>3, FS_Subset
<1>6. QED
  BY <1>1, <1>2, <1>4, <1>5 DEF Rank

\* Rows are ranked in the order of their ids.
LEMMA RankOrder ==
    ASSUME NEW in \in SUBSET Id, NEW i \in in, NEW j \in in, i < j
    PROVE  Rank(i, in) < Rank(j, in)
<1>1. PICK lo, hi : lo = {k \in in : k < i} /\ hi = {k \in in : k < j}
  OBVIOUS
<1>2. lo \in SUBSET hi /\ i \in hi /\ i \notin lo /\ hi \in SUBSET in
  <2>1. \A k \in in : k \in Nat
    BY PageAssumption
  <2>2. \A k \in in : k < i => k < j
    BY <2>1
  <2>3. QED
    BY <1>1, <2>1, <2>2
<1>3. IsFiniteSet(hi) /\ Cardinality(hi) \in Nat
  BY <1>2, RankType, FS_Subset, FS_CardinalityType
<1>4. Cardinality(lo) \in Nat /\ Cardinality(lo) <= Cardinality(hi)
      /\ Cardinality(lo) # Cardinality(hi)
  BY <1>2, <1>3, FS_Subset, FS_CardinalityType
<1>5. QED
  BY <1>1, <1>3, <1>4 DEF Rank

\* No two rows have one rank.
LEMMA RankInjective ==
    ASSUME NEW in \in SUBSET Id, NEW i \in in, NEW j \in in, Rank(i, in) = Rank(j, in)
    PROVE  i = j
<1>1. i \in Nat /\ j \in Nat /\ Rank(i, in) \in Int
  BY PageAssumption, RankType
<1>2. ~(i < j) /\ ~(j < i)
  BY <1>1, RankOrder
<1>3. QED
  BY <1>1, <1>2

\* Rows whose ranks lie in an interval are no more than it is long.
LEMMA RanksFit ==
    ASSUME NEW in \in SUBSET Id, NEW part \in SUBSET in, NEW a \in Nat, NEW b \in Int,
           a <= b + 1, \A id \in part : Rank(id, in) \in a .. b
    PROVE  Cardinality(part) <= b - a + 1
<1>1. PICK f : f = [id \in part |-> Rank(id, in)]
  OBVIOUS
<1>2. f \in Injection(part, a .. b)
  BY <1>1, RankInjective DEF Injection, IsInjective
<1>3. IsFiniteSet(a .. b) /\ Cardinality(a .. b) = b - a + 1
  BY FS_Interval
<1>4. QED
  BY <1>2, <1>3, FS_Injection

\* A table with a row ranked at n or beyond has one ranked at n.
LEMMA RanksDense ==
    ASSUME NEW in \in SUBSET Id, NEW id \in in, NEW n \in Nat, n <= Rank(id, in)
    PROVE  \E k \in in : Rank(k, in) = n
<1>1. IsFiniteSet(in) /\ Cardinality(in) \in Nat /\ n \in 0 .. Cardinality(in) - 1
  BY RankType, FS_CardinalityType
<1>2. PICK size \in Nat : size = Cardinality(in)
  BY <1>1
<1>3. PICK f : f = [k \in in |-> Rank(k, in)]
  OBVIOUS
<1>4. f \in Injection(in, 0 .. size - 1)
  BY <1>2, <1>3, RankInjective, RankType DEF Injection, IsInjective
<1>5. IsFiniteSet(0 .. size - 1) /\ Cardinality(0 .. size - 1) = size
  BY <1>1, <1>2, FS_Interval
<1>6. f \in Surjection(in, 0 .. size - 1)
  BY <1>2, <1>4, <1>5, FS_Injection
<1>7. QED
  BY <1>1, <1>2, <1>3, <1>6 DEF Surjection

\* A row that is created moves no row to the front.
LEMMA RankGrows ==
    ASSUME NEW in \in SUBSET Id, NEW more \in SUBSET Id, in \subseteq more, NEW id \in in
    PROVE  Rank(id, in) <= Rank(id, more)
<1>1. PICK lo, hi : lo = {k \in in : k < id} /\ hi = {k \in more : k < id}
  OBVIOUS
<1>2. lo \in SUBSET hi /\ hi \in SUBSET more
  BY <1>1
<1>3. IsFiniteSet(hi)
  BY <1>2, PageAssumption, FS_Subset
<1>4. QED
  BY <1>1, <1>2, <1>3, FS_Subset DEF Rank

----------------------------------------------------------------------------
\* What the server takes for the limit.
LEMMA ParsedType ==
    ASSUME NEW limit \in Nat
    PROVE  /\ ParsedLimit(limit) \in 1 .. MaxLimit
           /\ limit \in 1 .. MaxLimit => ParsedLimit(limit) = limit
BY PageAssumption DEF ParsedLimit

\* Where the page begins: the offset less one, or the beginning.
From(n) == IF n = 0 THEN 0 ELSE n - 1

\* A page shows the rows ranked from there on.
LEMMA PageRanks ==
    ASSUME NEW n \in Nat, NEW limit \in Nat
    PROVE  List(limit, n) =
               {id \in rows : Rank(id, rows) \in From(n) .. From(n) + ParsedLimit(limit) - 1}
BY DEF List, Paginate, StoreOffset, From

\* A page has at most as many rows as the limit.
LEMMA PageSize ==
    ASSUME rows \in SUBSET Id, NEW n \in Nat, NEW limit \in Nat
    PROVE  /\ List(limit, n) \in SUBSET rows
           /\ Cardinality(List(limit, n)) \in 0 .. ParsedLimit(limit)
<1>1. PICK size \in 1 .. MaxLimit : size = ParsedLimit(limit)
  BY ParsedType
<1>2. PICK from \in Nat : from = From(n)
  BY DEF From
<1>3. PICK got : got = List(limit, n)
  OBVIOUS
<1>4. got \in SUBSET rows /\ \A id \in got : Rank(id, rows) \in from .. from + size - 1
  BY <1>1, <1>2, <1>3, PageRanks
<1>5. Cardinality(got) <= size
  <2>1. PICK to \in Int : to = from + size - 1
    BY <1>1
  <2>2. from <= to + 1 /\ to - from + 1 = size
    BY <1>1, <2>1, PageAssumption
  <2>3. QED
    BY <1>4, <2>1, <2>2, RanksFit
<1>6. Cardinality(got) \in Nat
  BY <1>4, PageAssumption, FS_Subset, FS_CardinalityType
<1>7. QED
  BY <1>1, <1>3, <1>4, <1>5, <1>6

----------------------------------------------------------------------------
\* Every step keeps every variable in its type.
LEMMA NextType == TypeOK /\ [Next]_vars => TypeOK'
<1> SUFFICES ASSUME TypeOK, [Next]_vars
             PROVE  TypeOK'
  OBVIOUS
<1> USE DEF TypeOK
<1>1. CASE Create
  BY <1>1 DEF Create, client
<1>2. CASE Begin
  BY <1>2 DEF Begin
<1>3. CASE NextPage
  <2>1. asked \in Nat
    BY PageAssumption
  <2>2. /\ page' \in SUBSET rows
        /\ Cardinality(page') \in 0 .. ParsedLimit(asked)
    BY <1>3, <2>1, PageSize DEF NextPage
  <2>3. Cardinality(page') \in Nat /\ Cardinality(page') <= MaxLimit
    BY <2>1, <2>2, ParsedType, PageAssumption
  <2>4. offset' \in Nat
    BY <1>3, <2>1, <2>3 DEF NextPage
  <2>5. QED
    BY <1>3, <2>2, <2>3, <2>4 DEF NextPage
<1>4. CASE UNCHANGED vars
  BY <1>4 DEF vars, client
<1>5. QED
  BY <1>1, <1>2, <1>3, <1>4 DEF Next, Quiet

\* Type correctness: offsets and limits stay natural numbers, and no page is
\* longer than maxPageLimit, whatever ?limit and ?offset a client sends.
THEOREM TypeCorrect == Spec => []TypeOK
<1>1. ASSUME Init
      PROVE  TypeOK
  <2>1. page = {} /\ Cardinality({}) = 0
    BY <1>1, FS_EmptySet DEF Init
  <2>2. Cardinality(page) <= MaxLimit
    BY <2>1, PageAssumption
  <2>3. QED
    BY <1>1, <2>2 DEF Init, TypeOK
<1>2. QED
  BY <1>1, NextType, PTL DEF Spec

----------------------------------------------------------------------------
\* A client whose stride is not longer than its pages can be.
Proper == ~(byAsked /\ asked > MaxLimit)

\* Of the rows there were at the start, those ranked before the next page have
\* been seen; what has been created since has only pushed others back.
Covered == \A id \in there : Rank(id, rows) < From(offset) => id \in seen

\* What a walk has seen, at any point of it.
WalkInv ==
    /\ walk = "start" => offset = 0 /\ seen = {}
    /\ walk # "start" => there \subseteq rows
    /\ walk # "start" /\ Proper => Covered
    /\ walk = "page" /\ ~moved => rows = there
    /\ NoneMissed
    /\ NoGap

\* One page more: what it moves the offset by, it shows.
LEMMA PageCovers ==
    ASSUME TypeOK, WalkInv, NextPage, Proper, NEW id \in there
    PROVE  /\ Rank(id, rows) < From(offset') => id \in seen'
           /\ Rank(id, rows) < From(offset) \/ id \in page' =>  id \in seen'
<1>1. asked \in Nat /\ offset \in Nat /\ rows \in SUBSET Id /\ id \in rows /\ Covered
  BY PageAssumption DEF TypeOK, WalkInv, NextPage
<1>2. PICK size \in 1 .. MaxLimit : size = ParsedLimit(asked)
  BY <1>1, ParsedType
<1>3. Rank(id, rows) \in Nat
  BY <1>1, RankType
<1>4. page' = {k \in rows : Rank(k, rows) \in From(offset) .. From(offset) + size - 1}
  BY <1>1, <1>2, PageRanks DEF NextPage
<1>5. Cardinality(page') \in 0 .. size
  BY <1>1, <1>2, PageSize DEF NextPage
<1>6. byAsked /\ asked > 0 => asked = size
  BY <1>1, <1>2, ParsedType, PageAssumption DEF Proper
<1>7. From(offset) \in Nat /\ From(offset') \in Nat /\ From(offset') <= From(offset) + size
  BY <1>1, <1>2, <1>5, <1>6, PageAssumption DEF NextPage, From
<1>8. seen' = seen \cup page'
  BY DEF NextPage
<1>9. Rank(id, rows) < From(offset) => id \in seen
  BY <1>1 DEF Covered
<1>10. Rank(id, rows) < From(offset') => id \in seen \/ id \in page'
  <2>1. PICK rank \in Nat : rank = Rank(id, rows)
    BY <1>3
  <2>2. PICK from \in Nat, upto \in Nat :
            from = From(offset) /\ upto = From(offset') /\ upto <= from + size
    BY <1>7
  <2>3. rank \in from .. from + size - 1 => id \in page'
    BY <1>1, <1>4, <2>1, <2>2
  <2>4. rank < upto => rank < from \/ rank \in from .. from + size - 1
    <3>1. size \in Nat
      BY PageAssumption
    <3>2. QED
      BY <2>2, <3>1
  <2>5. QED
    BY <1>9, <2>1, <2>2, <2>3, <2>4
<1>11. QED
  BY <1>8, <1>9, <1>10

\* Every step keeps the rows before the offset seen.
LEMMA NextWalk ==
    ASSUME TypeOK, WalkInv, [Next]_vars
    PROVE  WalkInv'
<1> USE DEF WalkInv
<1>0. rows \in SUBSET Id /\ offset \in Nat /\ there \in SUBSET Id /\ asked \in Nat
  BY PageAssumption DEF TypeOK
<1>1. CASE Create
  <2>1. rows \subseteq rows' /\ rows' \in SUBSET Id
    BY <1>0, <1>1 DEF Create
  <2>2. UNCHANGED client /\ moved' = (moved \/ walk = "page")
    BY <1>1 DEF Create
  <2>3. ASSUME walk # "start", Proper
        PROVE  Covered'
    <3>1. ASSUME NEW id \in there, Rank(id, rows') < From(offset)
          PROVE  id \in seen
      <4>1. id \in rows /\ Rank(id, rows) <= Rank(id, rows')
        BY <1>0, <2>1, <2>3, RankGrows
      <4>2. Rank(id, rows) \in Nat /\ Rank(id, rows') \in Nat /\ From(offset) \in Nat
        BY <1>0, <2>1, <4>1, RankType DEF From
      <4>3. QED
        BY <2>3, <3>1, <4>1, <4>2 DEF Covered
    <3>2. QED
      BY <2>2, <3>1 DEF Covered, client
  <2>4. NoneMissed' /\ NoGap'
    BY <2>2 DEF NoneMissed, NoGap, client
  <2>5. QED
    BY <2>1, <2>2, <2>3, <2>4 DEF client, Proper
<1>2. CASE Begin
  <2>1. Covered'
    <3>1. \A id \in rows : Rank(id, rows) \in Nat
      BY <1>0, RankType
    <3>2. QED
      BY <1>2, <3>1 DEF Begin, Covered, From
  <2>2. QED
    BY <1>2, <2>1 DEF Begin, NoneMissed, NoGap
<1>3. CASE NextPage
  <2>0. UNCHANGED <<rows, asked, byAsked, there, moved>> /\ walk = "page" /\ walk' # "start"
    BY <1>3 DEF NextPage
  <2>1. ASSUME Proper
        PROVE  Covered'
    BY <1>3, <2>0, <2>1, PageCovers DEF Covered
  <2>2. ASSUME Proper, walk' = "done"
        PROVE  there \subseteq seen'
    <3>1. SUFFICES ASSUME NEW id \in there
                   PROVE  id \in seen'
      OBVIOUS
    <3>2. PICK size \in 1 .. MaxLimit : size = ParsedLimit(asked)
      BY <1>0, ParsedType
    <3>3. page' = {k \in rows : Rank(k, rows) \in From(offset) .. From(offset) + size - 1}
      BY <1>0, <1>3, <3>2, PageRanks DEF NextPage
    <3>4. page' = {}
      BY <1>3, <2>2 DEF NextPage
    <3>5. id \in rows /\ Rank(id, rows) \in Nat /\ From(offset) \in Nat
      BY <1>0, <2>0, <3>1, RankType DEF From
    <3>6. ~ \E k \in rows : Rank(k, rows) = From(offset)
      BY <3>2, <3>3, <3>4, <3>5, PageAssumption
    <3>7. Rank(id, rows) < From(offset)
      BY <1>0, <3>5, <3>6, RanksDense
    <3>8. QED
      BY <1>3, <2>2, <3>1, <3>7, PageCovers
  <2>3. ASSUME Proper, ~moved, NEW i \in there, NEW j \in seen', i < j
        PROVE  i \in seen'
    <3>1. CASE j \in seen
      BY <1>3, <2>0, <2>3, <3>1 DEF NoGap, NextPage, Proper
    <3>2. CASE j \in page'
      <4>1. PICK size \in 1 .. MaxLimit : size = ParsedLimit(asked)
        BY <1>0, ParsedType
      <4>2. page' = {k \in rows : Rank(k, rows) \in From(offset) .. From(offset) + size - 1}
        BY <1>0, <1>3, <4>1, PageRanks DEF NextPage
      <4>3. i \in rows /\ j \in rows
        BY <2>0, <2>3, <3>2, <4>2
      <4>4. Rank(i, rows) < Rank(j, rows) /\ Rank(i, rows) \in Nat /\ Rank(j, rows) \in Nat
        BY <1>0, <2>3, <4>3, RankOrder, RankType
      <4>5. Rank(i, rows) < From(offset) \/ i \in page'
        BY <1>0, <3>2, <4>1, <4>2, <4>3, <4>4, PageAssumption DEF From
      <4>6. QED
        BY <1>3, <2>3, <4>5, PageCovers
    <3>3. QED
      BY <1>3, <2>3, <3>1, <3>2 DEF NextPage
  <2>4. NoneMissed'
    BY <2>0, <2>2 DEF NoneMissed, Proper
  <2>5. NoGap'
    BY <2>0, <2>3 DEF NoGap, Proper
  <2>6. QED
    BY <2>0, <2>1, <2>4, <2>5 DEF Proper
<1>4. CASE UNCHANGED vars
  BY <1>4 DEF vars, client, Proper, Covered, NoneMissed, NoGap
<1>5. QED
  BY <1>1, <1>2, <1>3, <1>4 DEF Next, Quiet

\* And so do all steps.
LEMMA WalkInvariant == Spec => []WalkInv
<1>1. Init => WalkInv
  BY DEF Init, WalkInv, NoneMissed, NoGap
<1>2. QED
  BY <1>1, NextWalk, TypeCorrect, PTL DEF Spec

\* A walk that ended saw every row there was when it began, however many rows
\* were created meanwhile and wherever they sort: they push rows back, and the
\* page that starts one row early (offset - 1) shows no fewer.
THEOREM WalkMissesNothing == Spec => []NoneMissed
<1>1. WalkInv => NoneMissed
  BY DEF WalkInv
<1>2. QED
  BY <1>1, WalkInvariant, PTL

\* The pages of an undisturbed walk leave no gap behind them, whichever way
\* the client advances its offset.
THEOREM WalkLeavesNoGap == Spec => []NoGap
<1>1. WalkInv => NoGap
  BY DEF WalkInv
<1>2. QED
  BY <1>1, WalkInvariant, PTL

====

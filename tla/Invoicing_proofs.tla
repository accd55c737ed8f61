---- MODULE Invoicing_proofs ----
(***************************************************************************)
(* What an invoice bills and what it says of itself, for any plan, any     *)
(* usage and any width of the integers: every record of its period once,   *)
(* amounts that add up, and a total that is exact when the usage fits.     *)
(***************************************************************************)
EXTENDS Invoicing, FiniteSetTheorems, WellFoundedInduction, TLAPS

\* The int64 of the program.

\* An amount that fits an int64 is left as it is.
LEMMA WrapFits ==
    ASSUME NEW n \in Int64
    PROVE  Wrap(n) = n
<1>1. /\ Half \in Int /\ Half > 0
      /\ n + Half >= 0 /\ n + Half < 2 * Half
  BY WidthAssumption DEF Int64
<1>2. \A a, b \in Int : 0 <= a /\ a < b => a % b = a
  OBVIOUS
<1>3. (n + Half) % (2 * Half) = n + Half
  BY <1>1, <1>2 DEF Int64
<1>4. QED
  BY <1>1, <1>3 DEF Wrap, Int64

\* So is 0.
LEMMA ZeroFits == 0 \in Int64 /\ Wrap(0) = 0
<1>1. 0 \in Int64
  BY WidthAssumption DEF Int64
<1>2. QED
  BY <1>1, WrapFits

\* An int64 is what Wrap makes of any integer.
LEMMA WrapType ==
    ASSUME NEW n \in Int
    PROVE  Wrap(n) \in Int64
<1>1. Half \in Nat /\ Half > 0 /\ 2 * Half > 0 /\ n + Half \in Int
  BY WidthAssumption
<1>2. (n + Half) % (2 * Half) \in 0 .. 2 * Half - 1
  BY <1>1
<1>3. QED
  BY <1>1, <1>2 DEF Wrap, Int64

\* What is left of a division, and what a remainder determines.
LEMMA DivMod ==
    ASSUME NEW x \in Int, NEW m \in Nat, m > 0
    PROVE  \E q \in Int : x = m * q + (x % m) /\ x % m \in 0 .. m - 1
<1>1. x \div m \in Int /\ x = m * (x \div m) + (x % m) /\ x % m \in 0 .. m - 1
  OBVIOUS
<1>2. QED
  BY <1>1

\* Two remainders that differ by a multiple of the divisor are one.
LEMMA SameRemainder ==
    ASSUME NEW m \in Nat, m > 0, NEW a \in 0 .. m - 1, NEW b \in 0 .. m - 1,
           NEW q \in Int, a - b = m * q
    PROVE  a = b
<1>1. CASE q >= 1
  <2>1. m * q >= m
    BY <1>1
  <2>2. QED
    BY <2>1
<1>2. CASE q <= -1
  <2>1. m * q <= -m
    BY <1>2
  <2>2. QED
    BY <2>1
<1>3. CASE q = 0
  BY <1>3
<1>4. QED
  BY <1>1, <1>2, <1>3

\* Wrap takes a multiple of the width away, and only a multiple is lost.
LEMMA WrapTakes ==
    ASSUME NEW n \in Int
    PROVE  \E q \in Int : n - Wrap(n) = (2 * Half) * q
<1>1. PICK m \in Nat : m = 2 * Half /\ m > 0
  BY WidthAssumption
<1>2. PICK x \in Int : x = n + Half
  BY WidthAssumption
<1>3. PICK q \in Int : x = m * q + (x % m) /\ x % m \in 0 .. m - 1
  BY <1>1, DivMod
<1>4. Wrap(n) = (x % m) - Half
  BY <1>1, <1>2 DEF Wrap
<1>5. n - Wrap(n) = m * q
  <2>1. PICK y, z \in Int : y = x % m /\ z = m * q
    BY <1>3
  <2>2. x = z + y /\ y \in Int /\ Half \in Int
    BY <1>3, <2>1, WidthAssumption
  <2>3. QED
    BY <1>2, <1>4, <2>1, <2>2
<1>6. QED
  BY <1>1, <1>5

\* Amounts a multiple of the width apart wrap to the same.
LEMMA WrapSame ==
    ASSUME NEW a \in Int, NEW b \in Int, NEW q \in Int, a - b = (2 * Half) * q
    PROVE  Wrap(a) = Wrap(b)
<1>1. PICK m \in Nat : m = 2 * Half /\ m > 0
  BY WidthAssumption
<1>2. PICK x \in Int : x = a + Half
  BY WidthAssumption
<1>3. PICK y \in Int : y = b + Half
  BY WidthAssumption
<1>4. PICK p \in Int : x = m * p + (x % m) /\ x % m \in 0 .. m - 1
  BY <1>1, DivMod
<1>5. PICK r \in Int : y = m * r + (y % m) /\ y % m \in 0 .. m - 1
  BY <1>1, DivMod
<1>6. q - p + r \in Int /\ (x % m) - (y % m) = m * (q - p + r)
  <2>1. Half \in Int
    BY WidthAssumption
  <2>2. x - y = m * q
    BY <1>1, <1>2, <1>3, <2>1
  <2>3. PICK u \in Int, v \in Int : u = x % m /\ v = y % m
    BY <1>4, <1>5
  <2>4. x = m * p + u /\ y = m * r + v
    BY <1>4, <1>5, <2>3
  <2>5. u - v = m * q - m * p + m * r
    BY <2>2, <2>4
  <2>6. m * q - m * p + m * r = m * (q - p + r)
    OBVIOUS
  <2>7. QED
    BY <2>3, <2>5, <2>6
<1>7. x % m = y % m
  BY <1>1, <1>4, <1>5, <1>6, SameRemainder
<1>8. QED
  BY <1>1, <1>2, <1>3, <1>7 DEF Wrap

\* So sums may be wrapped once, at the end.
LEMMA WrapAdds ==
    ASSUME NEW a \in Int, NEW b \in Int
    PROVE  Wrap(Wrap(a) + b) = Wrap(a + b)
<1>1. Wrap(a) \in Int
  BY WrapType DEF Int64
<1>2. PICK q \in Int : a - Wrap(a) = (2 * Half) * q
  BY WrapTakes
<1>3. (a + b) - (Wrap(a) + b) = (2 * Half) * q
  BY <1>1, <1>2
<1>4. QED
  BY <1>1, <1>3, WrapSame

\* The same of products.
LEMMA WrapMultiplies ==
    ASSUME NEW a \in Int, NEW c \in Int
    PROVE  Wrap(Wrap(a) * c) = Wrap(a * c)
<1>1. Wrap(a) \in Int
  BY WrapType DEF Int64
<1>2. PICK q \in Int : a - Wrap(a) = (2 * Half) * q
  BY WrapTakes
<1>3. PICK m \in Int : m = 2 * Half
  BY WidthAssumption
<1>4. a * c - Wrap(a) * c = m * (q * c)
  <2>1. PICK v \in Int : v = Wrap(a)
    BY <1>1
  <2>2. a - v = m * q
    BY <1>2, <1>3, <2>1
  <2>3. a * c - v * c = (a - v) * c /\ (m * q) * c = m * (q * c)
    OBVIOUS
  <2>4. QED
    BY <2>1, <2>2, <2>3
<1>5. q * c \in Int /\ a * c \in Int /\ Wrap(a) * c \in Int
  BY <1>1
<1>6. QED
  BY <1>3, <1>4, <1>5, WrapSame

----
\* Lists in order of arrival.

\* A row's place among rows with different arrival numbers.
Place(r, rows) == Cardinality({q \in rows : q.n < r.n}) + 1

\* Rows with an arrival number each.
Distinct(rows) == \A u, v \in rows : u.n = v.n => u = v

\* A place is one of the list's.
LEMMA PlaceType ==
    ASSUME NEW rows \in SUBSET Record, IsFiniteSet(rows), NEW r \in rows
    PROVE  Place(r, rows) \in 1 .. Cardinality(rows)
<1>1. PICK before : before = {q \in rows : q.n < r.n}
  OBVIOUS
<1>2. r.n \in Nat
  BY DEF Record
<1>3. before \in SUBSET rows /\ r \notin before
  BY <1>1, <1>2
<1>4. /\ Cardinality(before) \in Nat /\ Cardinality(rows) \in Nat
      /\ Cardinality(before) <= Cardinality(rows)
      /\ Cardinality(before) # Cardinality(rows)
  BY <1>3, FS_Subset, FS_CardinalityType
<1>5. Cardinality(before) + 1 \in 1 .. Cardinality(rows)
  BY <1>4
<1>6. QED
  BY <1>1, <1>5 DEF Place

\* Rows are placed in order of arrival.
LEMMA PlaceOrder ==
    ASSUME NEW rows \in SUBSET Record, IsFiniteSet(rows), NEW r \in rows, NEW s \in rows,
           r.n < s.n
    PROVE  Place(r, rows) < Place(s, rows)
<1>1. PICK lo, hi : lo = {q \in rows : q.n < r.n} /\ hi = {q \in rows : q.n < s.n}
  OBVIOUS
<1>2. \A q \in rows : q.n \in Nat
  BY DEF Record
<1>3. \A q \in rows : q.n < r.n => q.n < s.n
  BY <1>2
<1>4. lo \in SUBSET hi /\ hi \in SUBSET rows /\ r \in hi /\ r \notin lo
  BY <1>1, <1>2, <1>3
<1>5. IsFiniteSet(hi)
  BY <1>4, FS_Subset
<1>6. /\ Cardinality(lo) \in Nat /\ Cardinality(hi) \in Nat
      /\ Cardinality(lo) <= Cardinality(hi) /\ Cardinality(lo) # Cardinality(hi)
  BY <1>4, <1>5, FS_Subset, FS_CardinalityType
<1>7. Cardinality(lo) + 1 < Cardinality(hi) + 1
  BY <1>6
<1>8. QED
  BY <1>1, <1>7 DEF Place

\* The rows of a listing, each once.
Lists(list, rows) ==
    /\ list \in Seq(rows)
    /\ \A i, j \in 1 .. Len(list) : i # j => list[i] # list[j]
    /\ ToSet(list) = rows

\* Rows with different numbers have a list in order of arrival, with each once.
LEMMA ArrivalLists ==
    ASSUME NEW rows \in SUBSET Record, IsFiniteSet(rows), Distinct(rows)
    PROVE  Lists(ByArrival(rows), rows)
<1>1. PICK size \in Nat : size = Cardinality(rows)
  BY FS_CardinalityType
<1>2. IsFiniteSet(1 .. size) /\ Cardinality(1 .. size) = size
  <2>1. 1 \in Int /\ size \in Int
    OBVIOUS
  <2>2. /\ IsFiniteSet(1 .. size)
        /\ Cardinality(1 .. size) = IF 1 > size THEN 0 ELSE size - 1 + 1
    BY <2>1, FS_Interval, Zenon
  <2>3. QED
    BY <2>2
<1>3. \A r \in rows : r.n \in Nat /\ Place(r, rows) \in 1 .. size
  BY <1>1, PlaceType DEF Record
<1>4. PICK place : place = [r \in rows |-> Place(r, rows)]
  OBVIOUS
<1>5. place \in Surjection(rows, 1 .. size)
  <2>1. ASSUME NEW r \in rows, NEW s \in rows, place[r] = place[s]
        PROVE  r = s
    <3>1. ~(Place(r, rows) < Place(s, rows)) /\ ~(Place(s, rows) < Place(r, rows))
      BY <1>3, <1>4, <2>1
    <3>2. ~(r.n < s.n) /\ ~(s.n < r.n)
      BY <3>1, PlaceOrder
    <3>3. QED
      BY <1>3, <3>2 DEF Distinct
  <2>2. place \in Injection(rows, 1 .. size)
    BY <1>3, <1>4, <2>1 DEF Injection, IsInjective
  <2>3. QED
    BY <1>1, <1>2, <2>2, FS_Injection
<1>6. \E list \in [1 .. size -> rows] : \A i, j \in 1 .. size : i < j => list[i].n < list[j].n
  <2>1. PICK list : list = [i \in 1 .. size |-> CHOOSE r \in rows : place[r] = i]
    OBVIOUS
  <2>2. \A i \in 1 .. size : list[i] \in rows /\ place[list[i]] = i
    BY <1>5, <2>1 DEF Surjection
  <2>3. ASSUME NEW i \in 1 .. size, NEW j \in 1 .. size, i < j
        PROVE  list[i].n < list[j].n
    <3>1. Place(list[i], rows) = i /\ Place(list[j], rows) = j
      BY <1>4, <2>2
    <3>2. ~(list[j].n < list[i].n)
      <4>1. ~(Place(list[j], rows) < Place(list[i], rows))
        BY <2>3, <3>1
      <4>2. QED
        BY <2>2, <4>1, PlaceOrder
    <3>3. list[i] # list[j]
      BY <2>2, <2>3
    <3>4. QED
      BY <1>3, <2>2, <3>2, <3>3 DEF Distinct
  <2>4. list \in [1 .. size -> rows]
    BY <2>1, <2>2
  <2>5. QED
    BY <2>3, <2>4
<1>7. PICK list : list = ByArrival(rows)
  OBVIOUS
<1>8. /\ list \in [1 .. size -> rows]
      /\ \A i, j \in 1 .. size : i < j => list[i].n < list[j].n
  BY <1>1, <1>6, <1>7 DEF ByArrival
<1>9. ASSUME NEW i \in 1 .. size, NEW j \in 1 .. size, list[i] = list[j]
      PROVE  i = j
  <2>1. ~(i < j) /\ ~(j < i)
    BY <1>3, <1>8, <1>9
  <2>2. QED
    BY <2>1
<1>10. list \in Surjection(1 .. size, rows)
  <2>1. list \in Injection(1 .. size, rows)
    BY <1>8, <1>9 DEF Injection, IsInjective
  <2>2. QED
    BY <1>1, <1>2, <2>1, FS_Injection
<1>11. list \in Seq(rows) /\ Len(list) = size
  BY <1>8
<1>12. ToSet(list) = rows
  BY <1>8, <1>10 DEF ToSet, Surjection
<1>13. QED
  BY <1>7, <1>9, <1>11, <1>12 DEF Lists

\* One list after another, with nothing in common, is a list of both.
LEMMA ListsJoin ==
    ASSUME NEW S, NEW T, NEW s, NEW t, Lists(s, S), Lists(t, T), S \cap T = {}
    PROVE  Lists(s \o t, S \cup T)
<1>1. s \in Seq(S) /\ t \in Seq(T) /\ Len(s) \in Nat /\ Len(t) \in Nat
  BY DEF Lists
<1>2. s \in Seq(S \cup T) /\ t \in Seq(S \cup T)
  BY <1>1
<1>3. PICK st : st = s \o t
  OBVIOUS
<1>4. /\ st \in Seq(S \cup T) /\ Len(st) = Len(s) + Len(t)
      /\ \A i \in 1 .. Len(s) + Len(t) :
            st[i] = IF i <= Len(s) THEN s[i] ELSE t[i - Len(s)]
  BY <1>2, <1>3
<1>5. \A i \in 1 .. Len(st) : IF i <= Len(s) THEN i \in 1 .. Len(s) /\ st[i] = s[i]
                              ELSE i - Len(s) \in 1 .. Len(t) /\ st[i] = t[i - Len(s)]
  BY <1>1, <1>4
<1>6. /\ \A i \in 1 .. Len(s) : s[i] \in S
      /\ \A i \in 1 .. Len(t) : t[i] \in T
  BY <1>1
<1>7. ASSUME NEW i \in 1 .. Len(st), NEW j \in 1 .. Len(st), i # j
      PROVE  st[i] # st[j]
  <2>1. CASE i <= Len(s) /\ j <= Len(s)
    BY <1>5, <1>7, <2>1 DEF Lists
  <2>2. CASE ~(i <= Len(s)) /\ ~(j <= Len(s))
    <3>1. i - Len(s) # j - Len(s)
      BY <1>1, <1>7
    <3>2. QED
      BY <1>5, <2>2, <3>1 DEF Lists
  <2>3. CASE (i <= Len(s)) # (j <= Len(s))
    BY <1>5, <1>6, <2>3
  <2>4. QED
    BY <2>1, <2>2, <2>3
<1>8. ToSet(st) = S \cup T
  <2>1. ASSUME NEW i \in 1 .. Len(s)
        PROVE  i \in 1 .. Len(st) /\ st[i] = s[i]
    BY <1>1, <1>4
  <2>2. ASSUME NEW i \in 1 .. Len(t)
        PROVE  i + Len(s) \in 1 .. Len(st) /\ st[i + Len(s)] = t[i]
    <3>1. i + Len(s) \in 1 .. Len(st) /\ ~(i + Len(s) <= Len(s)) /\ i + Len(s) - Len(s) = i
      BY <1>1, <1>4
    <3>2. QED
      BY <1>4, <3>1
  <2>3. DOMAIN st = 1 .. Len(st) /\ DOMAIN s = 1 .. Len(s) /\ DOMAIN t = 1 .. Len(t)
    BY <1>1, <1>4
  <2>4. ToSet(s) = S /\ ToSet(t) = T
    BY DEF Lists
  <2>5. S \cup T \subseteq ToSet(st)
    BY <2>1, <2>2, <2>3, <2>4 DEF ToSet
  <2>6. ToSet(st) \subseteq S \cup T
    BY <1>5, <1>6, <2>3 DEF ToSet
  <2>7. QED
    BY <2>5, <2>6
<1>9. QED
  BY <1>3, <1>4, <1>7, <1>8 DEF Lists

----
\* What an invoice has read.

\* The records clients have sent: stored at some time, or about to be.
Sent == past.stored \cup {p.row : p \in pending}

\* The store as invoices see it: records have numbers of their own, which are
\* below the next one, and what was stored is there or was taken out.
StoredOK ==
    /\ past \in [stored : SUBSET Record, gone : SUBSET Record,
                 overlap : BOOLEAN, reset : BOOLEAN]
    /\ pending \subseteq [row : Record, slice : SUBSET Record]
    /\ \A p \in pending : p.slice \subseteq past.stored
    /\ IsFiniteSet(past.stored) /\ Distinct(Sent)
    /\ added \in Nat /\ \A u \in Sent : u.n < added
    /\ usage \subseteq past.stored
    /\ past.stored \subseteq usage \cup past.gone

\* The kinds a goroutine has listed when it is at a step.
Listed(step) ==
    CASE step = "data" -> {"voice"}
      [] step = "sms" -> {"voice", "data"}
      [] step \in {"rate", "gauge", "carrier"} -> Kind
      [] OTHER -> {}

\* What it has gathered by then: records of its period and of those kinds, each
\* once, among them all that its first read could see but those taken out.
ReadsOK(w) ==
    LET billed == ToSet(gathered[w])
        rows   == InPeriod(past.stored, period[w])
    IN  /\ Lists(gathered[w], billed)
        /\ billed \subseteq rows /\ floor[w] \subseteq rows
        /\ \A u \in billed : u.kind \in Listed(pc[w])
        /\ Listed(pc[w]) = {} => floor[w] = {}
        /\ \A u \in floor[w] : u.kind \in Listed(pc[w]) => u \in billed \cup past.gone

ReadsInv ==
    /\ pc \in [Workers -> Step]
    /\ DOMAIN period = Workers /\ DOMAIN gathered = Workers /\ DOMAIN floor = Workers
    /\ StoredOK
    /\ \A w \in Workers : ReadsOK(w)

\* The empty list, which is all a goroutine has gathered before it reads usage.
LEMMA NothingListed == Lists(<<>>, {}) /\ ToSet(<<>>) = {}
BY DEF Lists, ToSet

\* Each kind is listed once, voice first.
LEMMA StepsHaveSuccessors ==
    ASSUME NEW k \in Kind
    PROVE  /\ usageKinds[k] \in Step
           /\ k \notin Listed(k)
           /\ Listed(usageKinds[k]) = Listed(k) \cup {k}
           /\ Listed(k) = {} <=> k = "voice"
BY DEF Kind, usageKinds, Step, Listed

\* A record sent is given a number of its own.
LEMMA RecordSent ==
    ASSUME StoredOK, NEW r \in Reports
    PROVE  LET sent == Sent \cup {NewRecord(r)} IN
           /\ NewRecord(r) \in Record
           /\ Distinct(sent) /\ \A u \in sent : u.n < added + 1
<1>1. PICK u : u = NewRecord(r)
  OBVIOUS
<1>2. u \in Record /\ u.n = added
  BY <1>1, PlanAssumption DEF StoredOK, NewRecord, Report, Record
<1>3. \A x \in Sent : x.n \in Nat /\ x.n < added
  BY DEF StoredOK, Sent, Record
<1>4. added \in Nat /\ Distinct(Sent)
  BY DEF StoredOK
<1>5. QED
  BY <1>1, <1>2, <1>3, <1>4 DEF Distinct

\* What no step does: forget a record, one taken out, or an overlap.
Growing ==
    /\ past.stored \subseteq past'.stored
    /\ past.gone \subseteq past'.gone
    /\ past.overlap => past'.overlap

\* The INSERT of a record.
LEMMA AddStored ==
    ASSUME StoredOK, AddUsage
    PROVE  StoredOK' /\ Growing
<1>1. PICK r \in Reports :
          /\ usage' = usage \cup {NewRecord(r)}
          /\ past' = [past EXCEPT !.stored = past.stored \cup {NewRecord(r)}]
  BY DEF AddUsage
<1>2. PICK u : u = NewRecord(r) /\ u \in Record
  BY RecordSent
<1>3. /\ past' = [past EXCEPT !.stored = past.stored \cup {u}]
      /\ usage' = usage \cup {u} /\ added' = added + 1 /\ pending' = pending
  BY <1>1, <1>2 DEF AddUsage
<1>4. /\ past'.stored = past.stored \cup {u} /\ past'.gone = past.gone
      /\ past'.overlap = past.overlap
      /\ past' \in [stored : SUBSET Record, gone : SUBSET Record,
                    overlap : BOOLEAN, reset : BOOLEAN]
  BY <1>2, <1>3 DEF StoredOK
<1>5. Sent' = Sent \cup {u}
  BY <1>3, <1>4 DEF Sent
<1>6. Distinct(Sent') /\ added' \in Nat /\ \A x \in Sent' : x.n < added'
  BY <1>2, <1>3, <1>5, RecordSent DEF StoredOK
<1>7. IsFiniteSet(past'.stored)
  BY <1>4, FS_AddElement DEF StoredOK
<1>8. QED
  BY <1>3, <1>4, <1>6, <1>7 DEF StoredOK, Growing

\* The first half of an append in memory.
LEMMA LoadStored ==
    ASSUME StoredOK, LoadSlice
    PROVE  StoredOK' /\ Growing
<1>1. PICK r \in Reports : pending' = pending \cup {[row |-> NewRecord(r), slice |-> usage]}
  BY DEF LoadSlice
<1>2. PICK u : u = NewRecord(r) /\ u \in Record
  BY RecordSent
<1>3. /\ pending' = pending \cup {[row |-> u, slice |-> usage]}
      /\ UNCHANGED <<past, usage>> /\ added' = added + 1
  BY <1>1, <1>2 DEF LoadSlice
<1>4. PICK a : a = [row |-> u, slice |-> usage]
  OBVIOUS
<1>5. /\ a \in [row : Record, slice : SUBSET Record]
      /\ a.row = u /\ a.slice \subseteq past.stored
  BY <1>2, <1>4 DEF StoredOK
<1>6. pending' = pending \cup {a}
  BY <1>3, <1>4
<1>7. Sent' = Sent \cup {u}
  BY <1>3, <1>5, <1>6 DEF Sent
<1>8. Distinct(Sent') /\ added' \in Nat /\ \A x \in Sent' : x.n < added'
  BY <1>2, <1>3, <1>7, RecordSent DEF StoredOK
<1>9. QED
  BY <1>3, <1>5, <1>6, <1>8 DEF StoredOK, Growing

\* The second half, which may take records out.
LEMMA PutStored ==
    ASSUME StoredOK, PutBack
    PROVE  StoredOK' /\ Growing
<1>1. PICK p \in pending :
          /\ pending' = pending \ {p}
          /\ usage' = p.slice \cup {p.row}
          /\ past' = [past EXCEPT !.stored = past.stored \cup {p.row},
                                !.gone = past.gone \cup (usage \ usage')]
  BY DEF PutBack
<1>2. p.row \in Record /\ p.row \in Sent /\ p.slice \subseteq past.stored
  BY DEF StoredOK, Sent
<1>3. PICK lost : lost = usage \ usage'
  OBVIOUS
<1>4. lost \subseteq Record
  BY <1>3 DEF StoredOK
<1>5. past' = [past EXCEPT !.stored = past.stored \cup {p.row}, !.gone = past.gone \cup lost]
  BY <1>1, <1>3
<1>6. /\ past'.stored = past.stored \cup {p.row} /\ past'.gone = past.gone \cup lost
      /\ past'.overlap = past.overlap
      /\ past' \in [stored : SUBSET Record, gone : SUBSET Record,
                    overlap : BOOLEAN, reset : BOOLEAN]
  BY <1>2, <1>4, <1>5 DEF StoredOK
<1>7. Sent' \subseteq Sent
  BY <1>1, <1>2, <1>6 DEF Sent
<1>8. added' = added
  BY DEF PutBack
<1>9. Distinct(Sent') /\ \A x \in Sent' : x.n < added'
  BY <1>7, <1>8 DEF StoredOK, Distinct
<1>10. IsFiniteSet(past'.stored)
  BY <1>6, FS_AddElement DEF StoredOK
<1>11. usage' \subseteq past'.stored /\ past'.stored \subseteq usage' \cup past'.gone
  BY <1>1, <1>2, <1>3, <1>6 DEF StoredOK
<1>12. \A q \in pending' : q.slice \subseteq past'.stored
  BY <1>1, <1>6 DEF StoredOK
<1>13. pending' \subseteq [row : Record, slice : SUBSET Record] /\ added' \in Nat
  BY <1>1, <1>8 DEF StoredOK
<1>14. QED
  BY <1>6, <1>9, <1>10, <1>11, <1>12, <1>13 DEF StoredOK, Growing

\* A reset takes out what it wipes.
LEMMA WipeStored ==
    ASSUME StoredOK, ResetWipes
    PROVE  StoredOK' /\ Growing
<1>1. added' = added
  BY DEF ResetWipes
<1>2. CASE UNCHANGED <<usage, pending, past>>
  BY <1>1, <1>2 DEF StoredOK, Sent, Growing
<1>3. CASE usage' = {} /\ pending' = {} /\ past' = [past EXCEPT !.gone = past.gone \cup usage]
  <2>1. /\ past'.stored = past.stored /\ past'.gone = past.gone \cup usage
        /\ past'.overlap = past.overlap
        /\ past' \in [stored : SUBSET Record, gone : SUBSET Record,
                      overlap : BOOLEAN, reset : BOOLEAN]
    BY <1>3 DEF StoredOK
  <2>2. Sent' \subseteq Sent
    BY <1>3, <2>1 DEF Sent
  <2>3. Distinct(Sent') /\ \A x \in Sent' : x.n < added'
    BY <1>1, <2>2 DEF StoredOK, Distinct
  <2>4. QED
    BY <1>1, <1>3, <2>1, <2>3 DEF StoredOK, Growing
<1>4. QED
  BY <1>2, <1>3 DEF ResetWipes

\* Whatever happens, what was stored is there or was taken out.
LEMMA NextStored ==
    ASSUME StoredOK, [Next]_vars
    PROVE  StoredOK' /\ Growing
<1> USE DEF store
<1>1. ASSUME UNCHANGED <<usage, pending, added>>,
             past'.stored = past.stored, past'.gone = past.gone,
             past.overlap => past'.overlap,
             past' \in [stored : SUBSET Record, gone : SUBSET Record,
                        overlap : BOOLEAN, reset : BOOLEAN]
      PROVE  StoredOK' /\ Growing
  BY <1>1 DEF StoredOK, Sent, Growing
<1>2. CASE ResetBegins
  BY <1>1, <1>2 DEF ResetBegins, StoredOK
<1>3. ASSUME NEW w \in Workers, Ask(w)
      PROVE  StoredOK' /\ Growing
  <2>1. PICK more \in BOOLEAN : past' = [past EXCEPT !.overlap = past.overlap \/ more]
    BY <1>3 DEF Ask
  <2>2. /\ past'.stored = past.stored /\ past'.gone = past.gone
        /\ past.overlap => past'.overlap
        /\ past' \in [stored : SUBSET Record, gone : SUBSET Record,
                      overlap : BOOLEAN, reset : BOOLEAN]
    BY <2>1 DEF StoredOK
  <2>3. QED
    BY <1>1, <1>3, <2>2 DEF Ask
<1>4. ASSUME MonthEnds \/ UNCHANGED vars \/ (\E w \in Workers : Serve(w) \/ FailStatement(w))
      PROVE  UNCHANGED <<usage, pending, added, past>>
  BY <1>4 DEF MonthEnds, vars, Serve, GetSubscriber, GetPlan, ListUsage, RateUsage,
              SetBillingAmount, CarrierLookup, FailStatement
<1>5. ASSUME UNCHANGED <<usage, pending, added, past>>
      PROVE  StoredOK' /\ Growing
  BY <1>5 DEF StoredOK, Sent, Growing
<1>6. QED
  BY <1>2, <1>3, <1>4, <1>5, AddStored, LoadStored, PutStored, WipeStored DEF Next, Quiet

\* A goroutine whose locals stay goes on as before.
LEMMA ReadsStay ==
    ASSUME NEW w \in Workers, ReadsOK(w), Growing,
           gathered'[w] = gathered[w], period'[w] = period[w], floor'[w] = floor[w],
           Listed(pc'[w]) = Listed(pc[w])
    PROVE  ReadsOK(w)'
<1>1. InPeriod(past.stored, period[w]) \subseteq InPeriod(past'.stored, period'[w])
  BY DEF Growing, InPeriod
<1>2. QED
  BY <1>1 DEF ReadsOK, Growing

\* And one that has gathered nothing has nothing to account for.
LEMMA ReadsNothing ==
    ASSUME NEW w \in Workers, gathered'[w] = <<>>, floor'[w] = {}, Listed(pc'[w]) = {}
    PROVE  ReadsOK(w)'
BY NothingListed DEF ReadsOK

\* One more kind listed.
LEMMA ListReads ==
    ASSUME ReadsInv, NEW w \in Workers, ListUsage(w)
    PROVE  ReadsOK(w)'
<1>0. pc[w] \in Kind /\ ReadsOK(w) /\ StoredOK
  BY DEF ListUsage, ReadsInv
<1>1. PICK k \in Kind : k = pc[w]
  BY <1>0
<1>2. PICK rows, kept, list, billed :
          /\ rows = InPeriod(usage, period[w]) /\ kept = KeepKind(k, rows)
          /\ list = ByArrival(kept) /\ billed = ToSet(gathered[w])
  OBVIOUS
<1>3. /\ gathered'[w] = gathered[w] \o list
      /\ floor'[w] = (IF k = "voice" THEN rows ELSE floor[w])
      /\ pc'[w] = usageKinds[k]
      /\ UNCHANGED <<usage, past, period>>
  BY <1>1, <1>2 DEF ListUsage, ReadsInv, Goto, store
<1>4. kept \in SUBSET Record /\ IsFiniteSet(kept) /\ Distinct(kept)
  <2>1. kept \in SUBSET past.stored /\ past.stored \subseteq Sent
    BY <1>0, <1>2 DEF StoredOK, InPeriod, KeepKind, Sent
  <2>2. IsFiniteSet(kept)
    BY <1>0, <2>1, FS_Subset DEF StoredOK
  <2>3. QED
    BY <1>0, <2>1, <2>2 DEF StoredOK, Distinct
<1>5. Lists(list, kept)
  BY <1>2, <1>4, ArrivalLists
<1>6. billed \cap kept = {}
  BY <1>0, <1>1, <1>2, StepsHaveSuccessors DEF ReadsOK, KeepKind
<1>7. Lists(gathered'[w], billed \cup kept)
  BY <1>0, <1>2, <1>3, <1>5, <1>6, ListsJoin DEF ReadsOK
<1>8. ToSet(gathered'[w]) = billed \cup kept
  BY <1>7 DEF Lists
<1>9. rows \subseteq InPeriod(past.stored, period[w])
  BY <1>0, <1>2 DEF StoredOK, InPeriod
<1>10. billed \cup kept \subseteq InPeriod(past.stored, period[w])
  BY <1>0, <1>2, <1>9 DEF ReadsOK, KeepKind
<1>11. floor'[w] \subseteq InPeriod(past.stored, period[w])
  BY <1>0, <1>3, <1>9 DEF ReadsOK
<1>12. \A u \in billed \cup kept : u.kind \in Listed(k) \cup {k}
  BY <1>0, <1>1, <1>2 DEF ReadsOK, KeepKind
<1>13. \A u \in floor'[w] : u.kind \in Listed(k) \cup {k} => u \in billed \cup kept \cup past.gone
  <2>1. floor'[w] \subseteq rows \cup past.gone
    BY <1>0, <1>2, <1>3 DEF ReadsOK, StoredOK, InPeriod
  <2>2. \A u \in floor'[w] : u.kind \in Listed(k) => u \in billed \cup past.gone
    BY <1>0, <1>1, <1>2, <1>3, StepsHaveSuccessors DEF ReadsOK
  <2>3. QED
    BY <1>2, <2>1, <2>2 DEF KeepKind
<1>14. QED
  BY <1>3, <1>7, <1>8, <1>10, <1>11, <1>12, <1>13, StepsHaveSuccessors DEF ReadsOK

\* The reads of all goroutines go on, whatever any actor does.
LEMMA NextReads ==
    ASSUME ReadsInv, [Next]_vars
    PROVE  ReadsInv'
<1> USE DEF locals, store
<1>0. StoredOK' /\ Growing
  BY NextStored DEF ReadsInv
<1>1. /\ pc \in [Workers -> Step] /\ \A w \in Workers : ReadsOK(w)
      /\ DOMAIN period = Workers /\ DOMAIN gathered = Workers /\ DOMAIN floor = Workers
  BY DEF ReadsInv
<1>2. CASE AddUsage \/ LoadSlice \/ PutBack \/ MonthEnds \/ ResetBegins \/ ResetWipes \/ UNCHANGED vars
  <2>1. UNCHANGED <<pc, period, gathered, floor>>
    BY <1>2 DEF AddUsage, LoadSlice, PutBack, MonthEnds, ResetBegins, ResetWipes, vars
  <2>2. \A w \in Workers : ReadsOK(w)'
    BY <1>0, <1>1, <2>1, ReadsStay
  <2>3. QED
    BY <1>0, <1>1, <2>1, <2>2 DEF ReadsInv
<1>3. ASSUME NEW w \in Workers, Ask(w) \/ Serve(w) \/ FailStatement(w)
      PROVE  ReadsInv'
  <2>0. \A step \in {"idle", "subscriber", "plan", "voice"} : Listed(step) = {}
    BY DEF Listed
  <2>1. /\ pc' \in [Workers -> Step]
        /\ DOMAIN period' = Workers /\ DOMAIN gathered' = Workers /\ DOMAIN floor' = Workers
        /\ \A v \in Workers \ {w} :
              /\ pc'[v] = pc[v] /\ period'[v] = period[v]
              /\ gathered'[v] = gathered[v] /\ floor'[v] = floor[v]
    <3>1. ASSUME NEW code, Answer(w, code)
          PROVE  /\ pc' \in [Workers -> Step]
                 /\ DOMAIN period' = Workers /\ DOMAIN gathered' = Workers /\ DOMAIN floor' = Workers
                 /\ \A v \in Workers \ {w} :
                       /\ pc'[v] = pc[v] /\ period'[v] = period[v]
                       /\ gathered'[v] = gathered[v] /\ floor'[v] = floor[v]
      BY <1>1, <3>1 DEF Answer, Goto, Step
    <3>2. CASE Ask(w) \/ RateUsage(w) \/ SetBillingAmount(w) \/ ListUsage(w)
      BY <1>1, <3>2, StepsHaveSuccessors DEF Ask, RateUsage, SetBillingAmount, ListUsage, Goto, Step
    <3>3. CASE GetSubscriber(w) \/ GetPlan(w)
      BY <1>1, <3>1, <3>3 DEF GetSubscriber, GetPlan, Goto, Step, Kind
    <3>4. CASE CarrierLookup(w) \/ FailStatement(w)
      BY <3>1, <3>4 DEF CarrierLookup, FailStatement
    <3>5. QED
      BY <1>3, <3>2, <3>3, <3>4 DEF Serve
  <2>2. ASSUME NEW v \in Workers \ {w}
        PROVE  ReadsOK(v)'
    BY <1>0, <1>1, <2>1, ReadsStay
  <2>3. ASSUME NEW code, Answer(w, code)
        PROVE  ReadsOK(w)'
    <3>1. gathered'[w] = <<>> /\ floor'[w] = {} /\ pc'[w] = "idle"
      BY <1>1, <2>3 DEF Answer, Goto
    <3>2. Listed("idle") = {}
      BY DEF Listed
    <3>3. QED
      BY <3>1, <3>2, ReadsNothing
  <2>4. ASSUME Listed(pc[w]) = {}, gathered'[w] = gathered[w], floor'[w] = floor[w],
               Listed(pc'[w]) = {}
        PROVE  ReadsOK(w)'
    <3>1. gathered[w] = <<>>
      <4>1. ToSet(gathered[w]) = {} /\ gathered[w] \in Seq({})
        BY <1>1, <2>4 DEF ReadsOK, Lists
      <4>2. QED
        BY <4>1
    <3>2. floor[w] = {}
      BY <1>1, <2>4 DEF ReadsOK
    <3>3. QED
      BY <2>4, <3>1, <3>2, ReadsNothing
  <2>5. ASSUME Listed(pc[w]) = Kind, UNCHANGED <<gathered, floor, period>>, Listed(pc'[w]) = Kind
        PROVE  ReadsOK(w)'
    BY <1>0, <1>1, <2>5, ReadsStay
  <2>6. ASSUME Ask(w)
       PROVE  ReadsOK(w)'
    <3>1. pc[w] = "idle" /\ pc'[w] = "subscriber" /\ UNCHANGED <<gathered, floor>>
      BY <1>1, <2>6 DEF Ask, Goto
    <3>2. Listed(pc[w]) = {} /\ Listed(pc'[w]) = {}
      BY <3>1, <2>0
    <3>3. QED
      BY <2>4, <3>1, <3>2
  <2>7. ASSUME GetSubscriber(w) \/ GetPlan(w)
       PROVE  ReadsOK(w)'
    <3>1. CASE \E code : Answer(w, code)
      BY <2>3, <3>1
    <3>2. CASE ~ \E code : Answer(w, code)
      <4>1. /\ pc[w] \in {"subscriber", "plan"} /\ pc'[w] \in {"plan", "voice"}
            /\ UNCHANGED <<gathered, floor>>
        BY <1>1, <2>7, <3>2 DEF GetSubscriber, GetPlan, Goto
      <4>2. Listed(pc[w]) = {} /\ Listed(pc'[w]) = {}
        BY <4>1, <2>0
      <4>3. QED
        BY <2>4, <4>1, <4>2
    <3>3. QED
      BY <3>1, <3>2
  <2>9. ASSUME ListUsage(w)
       PROVE  ReadsOK(w)'
    BY <2>9, ListReads
  <2>10. ASSUME RateUsage(w) \/ SetBillingAmount(w)
        PROVE  ReadsOK(w)'
    <3>1. pc[w] \in {"rate", "gauge"} /\ pc'[w] \in {"gauge", "carrier"}
          /\ UNCHANGED <<gathered, floor, period>>
      BY <1>1, <2>10 DEF RateUsage, SetBillingAmount, Goto
    <3>2. Listed(pc[w]) = Kind /\ Listed(pc'[w]) = Kind
      BY <3>1 DEF Listed
    <3>3. QED
      BY <2>5, <3>1, <3>2
  <2>11. ASSUME CarrierLookup(w) \/ FailStatement(w)
        PROVE  ReadsOK(w)'
    BY <2>3, <2>11 DEF CarrierLookup, FailStatement
  <2>12. QED
    BY <1>0, <1>3, <2>1, <2>2, <2>6, <2>7, <2>9, <2>10, <2>11 DEF ReadsInv, Serve
<1>4. QED
  BY <1>2, <1>3 DEF Next, Quiet

\* So what a goroutine has gathered is always accounted for.
LEMMA ReadsInvariant == Spec => []ReadsInv
<1>1. Init => ReadsInv
  <2>1. Listed("idle") = {}
    BY DEF Listed
  <2>2. ASSUME Init
        PROVE  ReadsInv
    <3>1. \A w \in Workers : gathered[w] = <<>> /\ floor[w] = {} /\ pc[w] = "idle"
      BY <2>2 DEF Init
    <3>2. \A w \in Workers : ReadsOK(w)
      BY <2>1, <3>1, NothingListed DEF ReadsOK
    <3>3. StoredOK
      BY <2>2, FS_EmptySet DEF Init, StoredOK, Sent, Distinct
    <3>4. QED
      BY <2>2, <3>2, <3>3 DEF Init, ReadsInv, Step
  <2>3. QED
    BY <2>2
<1>2. QED
  BY <1>1, NextReads, PTL DEF Spec

\* The three reads of an invoice never bill a record twice, whatever arrives, is
\* reset or fails between them.
THEOREM RecordsBilledOnce == Spec => []BilledOnce
<1>1. ReadsInv => BilledOnce
  BY DEF ReadsInv, ReadsOK, Lists, BilledOnce
<1>2. QED
  BY <1>1, ReadsInvariant, PTL

\* An invoice bills every record of its period that was stored when it began to
\* read, unless a reset or the put-back of an older slice took the record out,
\* and only records of its period, with either backend.
THEOREM InvoicesMissNothing == Spec => []BilledBetween
<1>1. ASSUME ReadsInv
      PROVE  BilledBetween
  <2>1. ASSUME NEW w \in Workers, Rated(w)
        PROVE  /\ floor[w] \subseteq ToSet(gathered[w]) \cup past.gone
               /\ ToSet(gathered[w]) \subseteq InPeriod(past.stored, period[w])
    <3>1. Listed(pc[w]) = Kind /\ ReadsOK(w) /\ StoredOK
      BY <1>1, <2>1 DEF Rated, Listed, ReadsInv
    <3>2. \A u \in floor[w] : u.kind \in Kind
      BY <3>1 DEF ReadsOK, InPeriod, StoredOK, Record
    <3>3. QED
      BY <3>1, <3>2 DEF ReadsOK
  <2>2. QED
    BY <2>1 DEF BilledBetween
<1>2. QED
  BY <1>1, ReadsInvariant, PTL

----
\* Folds of finite sets.

\* Induction over the natural numbers, for a set of them.
LEMMA NatSets ==
    ASSUME NEW S, 0 \in S, \A n \in S : n \in Nat => n + 1 \in S
    PROVE  Nat \subseteq S
<1>0. SUFFICES ASSUME Nat \ S # {} PROVE FALSE
  OBVIOUS
<1>1. PICK m \in Nat \ S : \A y \in Nat \ S : ~ (<<y, m>> \in OpToRel(<, Nat))
  <2>1. IsWellFoundedOn(OpToRel(<, Nat), Nat)
    BY NatLessThanWellFounded
  <2>2. Nat \ S \subseteq Nat
    OBVIOUS
  <2> HIDE DEF OpToRel
  <2>3. QED
    BY <2>1, <2>2, <1>0, WFMin
<1>2. \A y \in Nat \ S : ~ (y < m)
  BY <1>1 DEF OpToRel
<1>3. m # 0 /\ m - 1 \in Nat /\ m - 1 \notin S
  OBVIOUS
<1>4. QED
  BY <1>2, <1>3

\* A function on the subsets of S that takes one element out, folds the rest and
\* adds what one step makes of the element.
Folds(it, S, pick, step) ==
    /\ it \in [SUBSET S -> Int]
    /\ \A s \in SUBSET S :
          it[s] = IF s = {} THEN 0 ELSE step[<<pick[s], it[s \ {pick[s]}]>>]

\* On a finite set there is one.
LEMMA FoldExists ==
    ASSUME NEW S, IsFiniteSet(S), NEW step \in [S \X Int -> Int],
           NEW pick, \A s \in SUBSET S : s # {} => pick[s] \in s
    PROVE  \E it : Folds(it, S, pick, step)
<1> DEFINE Value(it, s) == IF s = {} THEN 0 ELSE step[<<pick[s], it[s \ {pick[s]}]>>]
           Upto(it, n) == it \in [SUBSET S -> Int]
                            /\ \A s \in SUBSET S : Cardinality(s) <= n => it[s] = Value(it, s)
           Some == {n \in Nat : \E it : Upto(it, n)}
<1>1. ASSUME NEW s \in SUBSET S
      PROVE  /\ IsFiniteSet(s) /\ Cardinality(s) \in Nat
             /\ s = {} <=> Cardinality(s) = 0
             /\ s # {} => /\ s \ {pick[s]} \in SUBSET S
                          /\ Cardinality(s \ {pick[s]}) = Cardinality(s) - 1
  <2>1. IsFiniteSet(s)
    BY FS_Subset
  <2>2. Cardinality(s) \in Nat /\ (s = {} <=> Cardinality(s) = 0)
    BY <2>1, FS_CardinalityType, FS_EmptySet
  <2>3. ASSUME s # {}
        PROVE  Cardinality(s \ {pick[s]}) = Cardinality(s) - 1
    BY <2>1, <2>3, FS_RemoveElement
  <2>4. QED
    BY <2>1, <2>2, <2>3
<1>2. ASSUME NEW it \in [SUBSET S -> Int], NEW s \in SUBSET S
      PROVE  Value(it, s) \in Int
  <2>1. CASE s = {}
    BY <2>1
  <2>2. CASE s # {}
    <3>1. pick[s] \in S /\ it[s \ {pick[s]}] \in Int
      BY <1>1, <2>2
    <3>2. QED
      BY <2>2, <3>1
  <2>3. QED
    BY <2>1, <2>2
<1>3. 0 \in Some
  <2>1. PICK it : it = [s \in SUBSET S |-> 0]
    OBVIOUS
  <2>2. ASSUME NEW s \in SUBSET S, Cardinality(s) <= 0
        PROVE  s = {}
    <3>1. Cardinality(s) \in Nat /\ (s = {} <=> Cardinality(s) = 0)
      BY <1>1
    <3>2. QED
      BY <2>2, <3>1
  <2>3. Upto(it, 0)
    BY <2>1, <2>2
  <2>4. QED
    BY <2>3
<1>4. ASSUME NEW n \in Some, n \in Nat
      PROVE  n + 1 \in Some
  <2>1. PICK it : Upto(it, n)
    BY <1>4
  <2>2. PICK more : more = [s \in SUBSET S |-> IF Cardinality(s) <= n THEN it[s] ELSE Value(it, s)]
    OBVIOUS
  <2>3. more \in [SUBSET S -> Int]
    <3>1. \A s \in SUBSET S : Value(it, s) \in Int /\ it[s] \in Int
      BY <1>2, <2>1
    <3> HIDE DEF Value
    <3>2. QED
      BY <2>2, <3>1
  <2>4. ASSUME NEW s \in SUBSET S
        PROVE  more[s] = Value(it, s) \/ ~(Cardinality(s) <= n + 1)
    <3>1. CASE Cardinality(s) <= n
      <4>1. it[s] = Value(it, s)
        BY <2>1, <3>1
      <4> HIDE DEF Value
      <4>2. QED
        BY <2>2, <3>1, <4>1
    <3>2. CASE ~(Cardinality(s) <= n)
      <4> HIDE DEF Value
      <4>1. QED
        BY <2>2, <3>2
    <3>3. QED
      BY <3>1, <3>2
  <2>5. ASSUME NEW s \in SUBSET S, Cardinality(s) <= n + 1
        PROVE  Value(more, s) = Value(it, s)
    <3>1. CASE s # {}
      <4>1. s \ {pick[s]} \in SUBSET S /\ Cardinality(s \ {pick[s]}) <= n
        <5>1. /\ Cardinality(s) \in Nat /\ s \ {pick[s]} \in SUBSET S
              /\ Cardinality(s \ {pick[s]}) = Cardinality(s) - 1
          BY <1>1, <3>1
        <5>2. QED
          BY <1>4, <2>5, <5>1
      <4>2. more[s \ {pick[s]}] = it[s \ {pick[s]}]
        <5> HIDE DEF Value
        <5>1. QED
          BY <2>2, <4>1
      <4>3. QED
        BY <3>1, <4>2
    <3>2. QED
      BY <3>1
  <2>6. Upto(more, n + 1)
    <3>1. \A s \in SUBSET S : Cardinality(s) <= n + 1 => more[s] = Value(more, s)
      <4> HIDE DEF Value
      <4>1. QED
        BY <2>4, <2>5
    <3>2. QED
      BY <2>3, <3>1
  <2>7. n + 1 \in Nat /\ \E g : Upto(g, n + 1)
    <3> HIDE DEF Upto
    <3>1. QED
      BY <1>4, <2>6
  <2>8. QED
    BY <2>7
<1>5. Nat \subseteq Some
  <2> HIDE DEF Some
  <2>1. QED
    BY <1>3, <1>4, NatSets
<1>6. PICK it : Upto(it, Cardinality(S))
  BY <1>1, <1>5
<1>7. \A s \in SUBSET S : Cardinality(s) <= Cardinality(S)
  BY FS_Subset
<1>8. QED
  BY <1>6, <1>7 DEF Folds

\* A function known to be one only where the rest of a set is a number.
Unfolds(f, S, pick, step) ==
    \A s \in SUBSET S :
        /\ s = {} => f[s] = 0
        /\ s # {} /\ f[s \ {pick[s]}] \in Int =>
               f[s] = step[<<pick[s], f[s \ {pick[s]}]>>]

\* Every nonempty subset has its element to take out.
Picks(pick, S) == \A s \in SUBSET S : s # {} => pick[s] \in s

\* And only one.
LEMMA FoldUnique ==
    ASSUME NEW S, IsFiniteSet(S), NEW step, NEW pick, Picks(pick, S),
           NEW g, Folds(g, S, pick, step),
           NEW f, Unfolds(f, S, pick, step)
    PROVE  \A s \in SUBSET S : f[s] = g[s]
<1> DEFINE Same == {n \in Nat : \A s \in SUBSET S : Cardinality(s) <= n => f[s] = g[s]}
<1>1. ASSUME NEW s \in SUBSET S
      PROVE  /\ Cardinality(s) \in Nat
             /\ s = {} <=> Cardinality(s) = 0
             /\ s # {} => Cardinality(s \ {pick[s]}) = Cardinality(s) - 1
             /\ Cardinality(s) <= Cardinality(S)
  BY FS_Subset, FS_CardinalityType, FS_EmptySet, FS_RemoveElement DEF Picks
<1>2. 0 \in Same
  <2>1. ASSUME NEW s \in SUBSET S, Cardinality(s) <= 0
        PROVE  f[s] = g[s]
    <3>1. Cardinality(s) \in Nat /\ (s = {} <=> Cardinality(s) = 0)
      BY <1>1
    <3>2. s = {}
      BY <2>1, <3>1
    <3>3. QED
      BY <3>2 DEF Folds, Unfolds
  <2>2. QED
    BY <2>1
<1>3. ASSUME NEW n \in Same, n \in Nat
      PROVE  n + 1 \in Same
  <2>1. ASSUME NEW s \in SUBSET S, Cardinality(s) <= n + 1, s # {}
        PROVE  f[s] = g[s]
    <3>1. PICK less : less = s \ {pick[s]}
      OBVIOUS
    <3>2. Cardinality(s) \in Nat /\ Cardinality(less) = Cardinality(s) - 1 /\ less \in SUBSET S
      BY <1>1, <2>1, <3>1
    <3>3. Cardinality(less) <= n
      BY <1>3, <2>1, <3>2
    <3>4. f[less] = g[less] /\ g[less] \in Int
      BY <1>3, <3>2, <3>3 DEF Folds
    <3>5. f[s] = step[<<pick[s], f[less]>>]
      BY <2>1, <3>1, <3>4 DEF Unfolds
    <3>6. g[s] = step[<<pick[s], g[less]>>]
      BY <2>1, <3>1 DEF Folds
    <3>7. QED
      BY <3>4, <3>5, <3>6
  <2>2. f[{}] = g[{}]
    BY DEF Folds, Unfolds
  <2>3. \A s \in SUBSET S : Cardinality(s) <= n + 1 => f[s] = g[s]
    BY <2>1, <2>2
  <2>4. QED
    BY <1>3, <2>3
<1>4. Nat \subseteq Same
  <2> HIDE DEF Same
  <2>1. QED
    BY <1>2, <1>3, NatSets
<1>5. Cardinality(S) \in Same
  BY <1>1, <1>4
<1>6. QED
  BY <1>1, <1>5

\* A finite set of numbers that is not empty has a greatest.
LEMMA MaxInSet ==
    ASSUME NEW S \in SUBSET Nat, IsFiniteSet(S), S # {}
    PROVE  Max(S) \in S /\ \A y \in S : Max(S) >= y
<1> DEFINE Tops(t) == \E x \in t : \A y \in t : x >= y
           Good == {n \in Nat : \A t \in SUBSET S : t # {} /\ Cardinality(t) <= n => Tops(t)}
<1>1. ASSUME NEW t \in SUBSET S
      PROVE  /\ Cardinality(t) \in Nat
             /\ t = {} <=> Cardinality(t) = 0
             /\ \A x \in t : Cardinality(t \ {x}) = Cardinality(t) - 1
  BY FS_Subset, FS_CardinalityType, FS_EmptySet, FS_RemoveElement
<1>2. 0 \in Good
  <2>1. ASSUME NEW t \in SUBSET S, t # {}, Cardinality(t) <= 0
        PROVE  FALSE
    <3>1. Cardinality(t) \in Nat /\ Cardinality(t) # 0
      BY <1>1, <2>1
    <3>2. QED
      BY <2>1, <3>1
  <2>2. QED
    BY <2>1
<1>3. ASSUME NEW n \in Good, n \in Nat
      PROVE  n + 1 \in Good
  <2>1. ASSUME NEW t \in SUBSET S, t # {}, Cardinality(t) <= n + 1
        PROVE  Tops(t)
    <3>1. PICK x \in t : TRUE
      BY <2>1
    <3>2. PICK less : less = t \ {x}
      OBVIOUS
    <3>3. less \in SUBSET S /\ Cardinality(t) \in Nat /\ Cardinality(less) = Cardinality(t) - 1
      BY <1>1, <3>1, <3>2
    <3>4. Cardinality(less) <= n
      BY <1>3, <2>1, <3>3
    <3>5. CASE less = {}
      BY <3>1, <3>2, <3>5
    <3>6. CASE less # {}
      <4>1. PICK m \in less : \A y \in less : m >= y
        BY <1>3, <3>3, <3>4, <3>6
      <4>2. x \in Nat /\ m \in Nat /\ m \in t /\ \A y \in t : y = x \/ y \in less
        BY <3>1, <3>2, <4>1
      <4>3. CASE m >= x
        BY <4>1, <4>2, <4>3
      <4>4. CASE x >= m
        <5>1. \A y \in less : x >= y
          BY <3>2, <4>1, <4>2, <4>4
        <5>2. QED
          BY <3>1, <4>2, <5>1
      <4>5. QED
        BY <4>2, <4>3, <4>4
    <3>7. QED
      BY <3>5, <3>6
  <2> HIDE DEF Tops
  <2>2. QED
    BY <1>3, <2>1
<1>4. Nat \subseteq Good
  <2> HIDE DEF Good
  <2>1. QED
    BY <1>2, <1>3, NatSets
<1>5. Cardinality(S) \in Good
  BY <1>1, <1>4
<1>6. Tops(S)
  <2> HIDE DEF Tops
  <2>1. QED
    BY <1>1, <1>5
<1>7. QED
  BY <1>6 DEF Max

----
\* What records add up to, in an int64 and exactly.

\* A record never takes anything from its aggregate.
LEMMA CountsType ==
    ASSUME NEW u \in Record
    PROVE  Counts(u) \in Nat
BY WidthAssumption DEF Record, Counts, Int64

\* The aggregate of a kind, record by record.
Sums(sum, kind, records) ==
    /\ sum \in [0 .. Len(records) -> Int]
    /\ sum[0] = 0
    /\ \A i \in 1 .. Len(records) :
          sum[i] = IF records[i].kind = kind THEN Wrap(sum[i - 1] + Counts(records[i]))
                   ELSE sum[i - 1]

\* Aggregate is the last of them.
LEMMA AggregateSums ==
    ASSUME NEW kind, NEW records \in Seq(Record)
    PROVE  \E sum : Sums(sum, kind, records) /\ Aggregate(kind, records) = sum[Len(records)]
<1>0. PICK size \in Nat : size = Len(records) /\ DOMAIN records = 1 .. size
                            /\ \A i \in 1 .. size : records[i] \in Record
  OBVIOUS
<1> DEFINE Adds(i, v) == IF records[i].kind = kind THEN Wrap(v + Counts(records[i])) ELSE v
<1>1. IsFiniteSet(1 .. size)
  BY FS_Interval
<1>2. PICK pick : pick = [s \in SUBSET (1 .. size) |-> Max(s)]
  OBVIOUS
<1>3. ASSUME NEW s \in SUBSET (1 .. size), s # {}
      PROVE  pick[s] = Max(s) /\ Max(s) \in s
  <2>1. IsFiniteSet(s)
    BY <1>1, FS_Subset
  <2>2. s \in SUBSET Nat
    OBVIOUS
  <2>3. Max(s) \in s
    BY <1>3, <2>1, <2>2, MaxInSet
  <2>4. QED
    BY <1>2, <2>3
<1>4. PICK step : step = [p \in (1 .. size) \X Int |-> Adds(p[1], p[2])]
  OBVIOUS
<1>5. \A i \in 1 .. size, v \in Int : Adds(i, v) \in Int
  BY <1>0, CountsType, WrapType DEF Int64
<1>6. step \in [(1 .. size) \X Int -> Int]
  <2> HIDE DEF Adds
  <2>1. QED
    BY <1>4, <1>5
<1>7. \A i \in 1 .. size, v \in Int : step[<<i, v>>] = Adds(i, v)
  <2> HIDE DEF Adds
  <2>1. QED
    BY <1>4
<1>8. PICK g : Folds(g, 1 .. size, pick, step)
  BY <1>1, <1>3, <1>6, FoldExists
<1>9. PICK f : f = CHOOSE iter : iter = [s \in SUBSET (1 .. size) |->
                      IF s = {} THEN 0
                      ELSE Adds(Max(s), iter[s \ {Max(s)}])]
  OBVIOUS
<1>10. f = [s \in SUBSET (1 .. size) |-> IF s = {} THEN 0 ELSE Adds(Max(s), f[s \ {Max(s)}])]
  <2>1. g = [s \in SUBSET (1 .. size) |-> IF s = {} THEN 0 ELSE Adds(Max(s), g[s \ {Max(s)}])]
    <3> HIDE DEF Adds
    <3>1. \A s \in SUBSET (1 .. size) :
              g[s] = IF s = {} THEN 0 ELSE Adds(Max(s), g[s \ {Max(s)}])
      BY <1>3, <1>7, <1>8 DEF Folds
    <3>2. g = [s \in SUBSET (1 .. size) |-> g[s]]
      BY <1>8 DEF Folds
    <3>3. QED
      BY <3>1, <3>2
  <2> HIDE DEF Adds
  <2>2. QED
    BY <1>9, <2>1
<1>11. \A s \in SUBSET (1 .. size) : f[s] = g[s]
  <2> HIDE DEF Adds
  <2>1. ASSUME NEW s \in SUBSET (1 .. size)
        PROVE  /\ s = {} => f[s] = 0
               /\ s # {} /\ f[s \ {pick[s]}] \in Int =>
                      f[s] = step[<<pick[s], f[s \ {pick[s]}]>>]
    <3>1. f[s] = IF s = {} THEN 0 ELSE Adds(Max(s), f[s \ {Max(s)}])
      BY <1>10
    <3>2. CASE s = {}
      BY <3>1, <3>2
    <3>3. ASSUME s # {}, f[s \ {pick[s]}] \in Int
          PROVE  f[s] = step[<<pick[s], f[s \ {pick[s]}]>>]
      <4>1. pick[s] = Max(s) /\ Max(s) \in 1 .. size
        BY <1>3, <3>3
      <4>2. f[s] = Adds(Max(s), f[s \ {Max(s)}])
        BY <3>1, <3>3
      <4>3. step[<<Max(s), f[s \ {Max(s)}]>>] = Adds(Max(s), f[s \ {Max(s)}])
        BY <1>7, <3>3, <4>1
      <4>4. QED
        BY <4>1, <4>2, <4>3
    <3>4. QED
      BY <3>2, <3>3
  <2>2. \A s \in SUBSET (1 .. size) : s # {} => pick[s] \in s
    BY <1>3
  <2>3. Unfolds(f, 1 .. size, pick, step)
    BY <2>1 DEF Unfolds
  <2>4. QED
    <3>1. PICK dom : dom = 1 .. size
      OBVIOUS
    <3>2. IsFiniteSet(dom) /\ Folds(g, dom, pick, step) /\ Unfolds(f, dom, pick, step)
          /\ Picks(pick, dom)
      BY <1>1, <1>8, <2>2, <2>3, <3>1 DEF Picks
    <3>3. \A s \in SUBSET dom : f[s] = g[s]
      BY <3>2, FoldUnique
    <3>4. QED
      BY <3>1, <3>3
<1>12. Aggregate(kind, records) = f[1 .. size]
  BY <1>0, <1>9 DEF Aggregate, FoldLeft, MapThenFoldSet
<1>13. PICK sum : sum = [i \in 0 .. size |-> g[1 .. i]]
  OBVIOUS
<1>14. \A i \in 0 .. size : 1 .. i \in SUBSET (1 .. size)
  OBVIOUS
<1>15. sum \in [0 .. size -> Int] /\ sum[0] = 0
  <2>1. \A i \in 0 .. size : g[1 .. i] \in Int
    BY <1>8, <1>14 DEF Folds
  <2>2. 1 .. 0 = {} /\ 0 \in 0 .. size
    OBVIOUS
  <2>3. g[{}] = 0
    BY <1>8 DEF Folds
  <2>4. QED
    BY <1>13, <2>1, <2>2, <2>3
<1>16. ASSUME NEW i \in 1 .. size
       PROVE  sum[i] = Adds(i, sum[i - 1])
  <2>9. i \in Nat /\ i >= 1
    OBVIOUS
  <2>10. i \in 1 .. i
    BY <2>9
  <2>11. 1 .. i \in SUBSET Nat
    BY <2>9
  <2>0. 1 .. i \in SUBSET Nat /\ i \in 1 .. i /\ 1 .. i # {} /\ i \in Int
    <3>1. 1 .. i # {}
      BY <2>10, Zenon
    <3>2. QED
      BY <2>9, <2>10, <2>11, <3>1
  <2>1. IsFiniteSet(1 .. i)
    BY <2>0, FS_Interval
  <2>2. Max(1 .. i) = i
    <3>1. Max(1 .. i) \in 1 .. i /\ Max(1 .. i) >= i
      BY <2>0, <2>1, MaxInSet
    <3>2. QED
      BY <3>1
  <2>3. (1 .. i) \ {i} = 1 .. (i - 1)
    OBVIOUS
  <2>4. 1 .. i \in SUBSET (1 .. size) /\ 1 .. (i - 1) \in SUBSET (1 .. size)
        /\ i \in 0 .. size /\ i - 1 \in 0 .. size
    OBVIOUS
  <2>5. pick[1 .. i] = i
    BY <1>3, <2>0, <2>2, <2>4
  <2>6. g[1 .. i] = step[<<i, g[1 .. (i - 1)]>>]
    BY <1>8, <2>0, <2>3, <2>4, <2>5 DEF Folds
  <2>7. g[1 .. (i - 1)] \in Int
    BY <1>8, <2>4 DEF Folds
  <2> HIDE DEF Adds
  <2>8. QED
    BY <1>7, <1>13, <2>4, <2>6, <2>7
<1>17. Aggregate(kind, records) = sum[size]
  BY <1>11, <1>12, <1>13
<1>18. QED
  BY <1>0, <1>15, <1>16, <1>17 DEF Sums

\* An aggregate is an int64, whatever is added to it.
LEMMA AggregateType ==
    ASSUME NEW kind, NEW records \in Seq(Record)
    PROVE  Aggregate(kind, records) \in Int64
<1>1. PICK sum : Sums(sum, kind, records) /\ Aggregate(kind, records) = sum[Len(records)]
  BY AggregateSums
<1>2. PICK size \in Nat : size = Len(records) /\ \A i \in 1 .. size : records[i] \in Record
  OBVIOUS
<1> DEFINE Good == {i \in Nat : i <= size => sum[i] \in Int64}
<1>3. 0 \in Good
  BY <1>1, ZeroFits DEF Sums
<1>4. ASSUME NEW i \in Good, i \in Nat
      PROVE  i + 1 \in Good
  <2>1. ASSUME i + 1 <= size
        PROVE  sum[i + 1] \in Int64
    <3>1. PICK j \in 1 .. size : j = i + 1 /\ j - 1 = i
      BY <1>4, <2>1
    <3>2. sum[i] \in Int64 /\ sum[i] \in Int
      BY <1>4, <2>1 DEF Int64
    <3>3. sum[j] = IF records[j].kind = kind THEN Wrap(sum[i] + Counts(records[j])) ELSE sum[i]
      BY <1>1, <1>2, <3>1 DEF Sums
    <3>4. PICK c \in Int : c = Counts(records[j])
      BY <1>2, CountsType
    <3>5. Wrap(sum[i] + c) \in Int64
      BY <3>2, WrapType
    <3>6. QED
      BY <3>1, <3>2, <3>3, <3>4, <3>5
  <2>2. QED
    BY <1>4, <2>1
<1>5. Nat \subseteq Good
  <2> HIDE DEF Good
  <2>1. QED
    BY <1>3, <1>4, NatSets
<1>6. size \in Good
  BY <1>5
<1>7. QED
  BY <1>1, <1>2, <1>6

\* The exact price of usage adds up what each record counts for.
SumOf(rows) == MapThenSumSet(Counts, rows)

\* The sums of all subsets of some rows, taken apart in the order of CHOOSE.
SumFold(g, rows) ==
    /\ g \in [SUBSET rows -> Int]
    /\ g[{}] = 0
    /\ \A s \in SUBSET rows :
          s # {} => LET p == CHOOSE x \in s : TRUE IN g[s] = Counts(p) + g[s \ {p}]
    /\ \A s \in SUBSET rows : SumOf(s) = g[s]

\* There is such a function: the sums do not depend on the set they began with.
LEMMA SumFolds ==
    ASSUME NEW rows \in SUBSET Record, IsFiniteSet(rows)
    PROVE  \E g : SumFold(g, rows)
<1>1. PICK pick : pick = [s \in SUBSET rows |-> CHOOSE x \in s : TRUE]
  OBVIOUS
<1>2. \A s \in SUBSET rows : s # {} => pick[s] = (CHOOSE x \in s : TRUE) /\ pick[s] \in s
  BY <1>1
<1>3. PICK step : step = [p \in rows \X Int |-> Counts(p[1]) + p[2]]
  OBVIOUS
<1>4. \A u \in rows : Counts(u) \in Nat
  BY CountsType
<1>5. step \in [rows \X Int -> Int] /\ \A u \in rows, v \in Int : step[<<u, v>>] = Counts(u) + v
  BY <1>3, <1>4
<1>6. PICK g : Folds(g, rows, pick, step)
  BY <1>2, <1>5, FoldExists
<1>7. ASSUME NEW s \in SUBSET rows, s # {}
      PROVE  LET p == CHOOSE x \in s : TRUE IN g[s] = Counts(p) + g[s \ {p}]
  <2>1. PICK p \in s : p = pick[s] /\ p = CHOOSE x \in s : TRUE
    BY <1>2, <1>7
  <2>2. g[s] = step[<<p, g[s \ {p}]>>] /\ g[s \ {p}] \in Int
    BY <1>6, <1>7, <2>1 DEF Folds
  <2>3. QED
    BY <1>5, <2>1, <2>2
<1>8. ASSUME NEW s \in SUBSET rows
      PROVE  SumOf(s) = g[s]
  <2> DEFINE Value(it, t) == IF t = {} THEN 0
                             ELSE Counts(CHOOSE x \in t : TRUE) + it[t \ {CHOOSE x \in t : TRUE}]
  <2>1. PICK f : f = CHOOSE iter : iter = [t \in SUBSET s |-> Value(iter, t)]
    OBVIOUS
  <2>2. PICK h : h = [t \in SUBSET s |-> g[t]]
    OBVIOUS
  <2>3. \A t \in SUBSET s : h[t] = Value(h, t)
    BY <1>6, <1>7, <2>2 DEF Folds
  <2>4. h = [t \in SUBSET s |-> Value(h, t)]
    <3> HIDE DEF Value
    <3>1. QED
      BY <2>2, <2>3
  <2>5. f = [t \in SUBSET s |-> Value(f, t)]
    <3> HIDE DEF Value
    <3>1. QED
      BY <2>1, <2>4
  <2>6. Unfolds(f, s, pick, step)
    <3>1. ASSUME NEW t \in SUBSET s
          PROVE  /\ t = {} => f[t] = 0
                 /\ t # {} /\ f[t \ {pick[t]}] \in Int =>
                        f[t] = step[<<pick[t], f[t \ {pick[t]}]>>]
      <4>1. CASE t = {}
        BY <2>5, <4>1
      <4>2. ASSUME t # {}, f[t \ {pick[t]}] \in Int
            PROVE  f[t] = step[<<pick[t], f[t \ {pick[t]}]>>]
        <5>1. PICK p \in t : p = pick[t] /\ p = CHOOSE x \in t : TRUE
          BY <1>2, <4>2
        <5>2. f[t] = Counts(p) + f[t \ {p}]
          BY <2>5, <4>2, <5>1
        <5>3. QED
          BY <1>5, <4>2, <5>1, <5>2
      <4>3. QED
        BY <4>1, <4>2
    <3>2. QED
      BY <3>1 DEF Unfolds
  <2>7. Folds(h, s, pick, step)
    <3>1. h \in [SUBSET s -> Int] /\ \A t \in SUBSET s : h[t] = g[t]
      BY <1>6, <2>2 DEF Folds
    <3>2. ASSUME NEW t \in SUBSET s
          PROVE  h[t] = IF t = {} THEN 0 ELSE step[<<pick[t], h[t \ {pick[t]}]>>]
      BY <1>6, <3>1 DEF Folds
    <3>3. QED
      BY <3>1, <3>2 DEF Folds
  <2>8. IsFiniteSet(s) /\ Picks(pick, s)
    BY <1>2, FS_Subset DEF Picks
  <2>9. \A t \in SUBSET s : f[t] = h[t]
    BY <2>6, <2>7, <2>8, FoldUnique
  <2>10. SumOf(s) = f[s]
    BY <2>1 DEF SumOf, MapThenSumSet, MapThenFoldSet
  <2>11. QED
    BY <2>2, <2>9, <2>10
<1>9. QED
  BY <1>6, <1>7, <1>8 DEF SumFold, Folds

\* Any record may be taken out first.
LEMMA SumTakes ==
    ASSUME NEW rows \in SUBSET Record, IsFiniteSet(rows), NEW g, SumFold(g, rows)
    PROVE  \A s \in SUBSET rows : \A r \in s : g[s] = Counts(r) + g[s \ {r}]
<1> DEFINE Good == {n \in Nat : \A s \in SUBSET rows : Cardinality(s) <= n =>
                        \A r \in s : g[s] = Counts(r) + g[s \ {r}]}
<1>1. ASSUME NEW s \in SUBSET rows
      PROVE  /\ Cardinality(s) \in Nat
             /\ s = {} <=> Cardinality(s) = 0
             /\ \A x \in s : Cardinality(s \ {x}) = Cardinality(s) - 1
  BY FS_Subset, FS_CardinalityType, FS_EmptySet, FS_RemoveElement
<1>2. 0 \in Good
  <2>1. ASSUME NEW s \in SUBSET rows, Cardinality(s) <= 0, NEW r \in s
        PROVE  FALSE
    <3>1. Cardinality(s) \in Nat /\ Cardinality(s) # 0
      BY <1>1
    <3>2. QED
      BY <2>1, <3>1
  <2>2. QED
    BY <2>1
<1>3. ASSUME NEW n \in Good, n \in Nat
      PROVE  n + 1 \in Good
  <2>1. ASSUME NEW s \in SUBSET rows, Cardinality(s) <= n + 1, NEW r \in s
        PROVE  g[s] = Counts(r) + g[s \ {r}]
    <3>1. PICK p \in s : g[s] = Counts(p) + g[s \ {p}]
      BY DEF SumFold
    <3>2. CASE p = r
      BY <3>1, <3>2
    <3>3. CASE p # r
      <4>1. PICK noP, noR, less : noP = s \ {p} /\ noR = s \ {r} /\ less = (s \ {p}) \ {r}
        OBVIOUS
      <4>2. noP \in SUBSET rows /\ noR \in SUBSET rows /\ r \in noP /\ p \in noR
            /\ less = noP \ {r} /\ less = noR \ {p} /\ less \in SUBSET rows
        BY <3>3, <4>1
      <4>3. Cardinality(noP) <= n /\ Cardinality(noR) <= n
        <5>1. Cardinality(s) \in Nat /\ Cardinality(noP) = Cardinality(s) - 1
              /\ Cardinality(noR) = Cardinality(s) - 1
          BY <1>1, <4>1
        <5>2. QED
          BY <1>3, <2>1, <5>1
      <4>4. g[noP] = Counts(r) + g[less] /\ g[noR] = Counts(p) + g[less]
        BY <1>3, <4>2, <4>3
      <4>5. Counts(p) \in Int /\ Counts(r) \in Int /\ g[less] \in Int
        <5>1. p \in Record /\ r \in Record
          OBVIOUS
        <5>2. QED
          BY <4>2, <5>1, CountsType DEF SumFold
      <4>6. g[s] = Counts(p) + (Counts(r) + g[less])
        BY <3>1, <4>1, <4>4
      <4>7. g[noR] = Counts(p) + g[less]
        BY <4>4
      <4>8. QED
        BY <4>1, <4>5, <4>6, <4>7
    <3>4. QED
      BY <3>2, <3>3
  <2>2. QED
    BY <1>3, <2>1
<1>4. Nat \subseteq Good
  <2> HIDE DEF Good
  <2>1. QED
    BY <1>2, <1>3, NatSets
<1>5. ASSUME NEW s \in SUBSET rows, NEW r \in s
      PROVE  g[s] = Counts(r) + g[s \ {r}]
  <2>1. PICK n \in Nat : n = Cardinality(s)
    BY <1>1
  <2>2. n \in Good /\ Cardinality(s) <= n
    BY <1>4, <2>1
  <2>3. QED
    BY <2>2
<1>6. QED
  BY <1>5

\* A record more adds what it counts for.
LEMMA SumAdds ==
    ASSUME NEW rows \in SUBSET Record, IsFiniteSet(rows), NEW r \in Record, r \notin rows
    PROVE  SumOf(rows \cup {r}) = SumOf(rows) + Counts(r)
<1>1. PICK all : all = rows \cup {r}
  OBVIOUS
<1>2. all \in SUBSET Record /\ IsFiniteSet(all) /\ rows \in SUBSET all /\ r \in all
      /\ all \ {r} = rows /\ all \in SUBSET all
  BY <1>1, FS_AddElement
<1>3. PICK g : SumFold(g, all)
  BY <1>2, SumFolds
<1>4. g[all] = Counts(r) + g[all \ {r}]
  BY <1>2, <1>3, SumTakes
<1>5. SumOf(all) = g[all] /\ SumOf(rows) = g[rows] /\ g[rows] \in Int
  BY <1>2, <1>3 DEF SumFold
<1>6. Counts(r) \in Int
  BY CountsType
<1>7. PICK c \in Int, v \in Int : c = Counts(r) /\ v = g[rows]
  BY <1>5, <1>6
<1>8. SumOf(all) = c + v /\ SumOf(rows) = v
  BY <1>2, <1>4, <1>5, <1>7
<1>9. SumOf(all) = SumOf(rows) + Counts(r)
  BY <1>7, <1>8
<1>10. QED
  BY <1>1, <1>9

\* Without records there is nothing to pay for.
LEMMA SumOfNone == SumOf({}) = 0
<1>1. {} \in SUBSET Record /\ IsFiniteSet({})
  BY FS_EmptySet
<1>2. PICK g : SumFold(g, {})
  BY <1>1, SumFolds
<1>3. QED
  BY <1>2 DEF SumFold

\* A sum of usage is a number, and grows with the rows.
LEMMA SumGrows ==
    ASSUME NEW rows \in SUBSET Record, IsFiniteSet(rows), NEW some \in SUBSET rows
    PROVE  SumOf(some) \in Nat /\ SumOf(rows) \in Nat /\ SumOf(some) <= SumOf(rows)
<1> DEFINE Good == {n \in Nat : \A s \in SUBSET rows : Cardinality(s) <= n =>
                        SumOf(s) \in Nat /\ \A t \in SUBSET s : SumOf(t) \in Nat /\ SumOf(t) <= SumOf(s)}
<1>1. ASSUME NEW s \in SUBSET rows
      PROVE  /\ Cardinality(s) \in Nat /\ IsFiniteSet(s)
             /\ s = {} <=> Cardinality(s) = 0
             /\ \A x \in s : Cardinality(s \ {x}) = Cardinality(s) - 1
  BY FS_Subset, FS_CardinalityType, FS_EmptySet, FS_RemoveElement
<1>2. 0 \in Good
  <2>1. ASSUME NEW s \in SUBSET rows, Cardinality(s) <= 0
        PROVE  s = {}
    <3>1. Cardinality(s) \in Nat /\ (s = {} <=> Cardinality(s) = 0)
      BY <1>1
    <3>2. QED
      BY <2>1, <3>1
  <2>2. QED
    BY <2>1, SumOfNone
<1>3. ASSUME NEW n \in Good, n \in Nat
      PROVE  n + 1 \in Good
  <2>1. ASSUME NEW s \in SUBSET rows, Cardinality(s) <= n + 1
        PROVE  SumOf(s) \in Nat /\ \A t \in SUBSET s : SumOf(t) \in Nat /\ SumOf(t) <= SumOf(s)
    <3>1. ASSUME NEW r \in s
          PROVE  /\ s \ {r} \in SUBSET rows /\ Cardinality(s \ {r}) <= n
                 /\ SumOf(s \ {r}) \in Nat /\ Counts(r) \in Nat
                 /\ SumOf(s) = SumOf(s \ {r}) + Counts(r)
      <4>1. PICK less : less = s \ {r}
        OBVIOUS
      <4>2. less \in SUBSET rows /\ r \notin less /\ less \cup {r} = s /\ r \in Record
            /\ less \in SUBSET Record
        BY <4>1
      <4>3. Cardinality(less) <= n
        <5>1. Cardinality(s) \in Nat /\ Cardinality(less) = Cardinality(s) - 1
          BY <1>1, <4>1
        <5>2. QED
          BY <1>3, <2>1, <5>1
      <4>4. SumOf(less) \in Nat
        BY <1>3, <4>2, <4>3
      <4>5. SumOf(s) = SumOf(less) + Counts(r)
        BY <1>1, <4>2, SumAdds
      <4>6. QED
        BY <4>1, <4>2, <4>3, <4>4, <4>5, CountsType
    <3>2. SumOf(s) \in Nat
      <4>1. CASE s = {}
        BY <4>1, SumOfNone
      <4>2. CASE s # {}
        <5>1. PICK r \in s : TRUE
          BY <4>2
        <5>2. PICK c \in Nat, v \in Nat : SumOf(s) = v + c
          BY <3>1, <5>1
        <5>3. QED
          BY <5>2
      <4>3. QED
        BY <4>1, <4>2
    <3>3. ASSUME NEW t \in SUBSET s
          PROVE  SumOf(t) \in Nat /\ SumOf(t) <= SumOf(s)
      <4>1. CASE t = s
        BY <3>2, <4>1
      <4>2. CASE t # s
        <5>1. PICK r \in s : r \notin t
          BY <4>2
        <5>2. PICK less : less = s \ {r}
          OBVIOUS
        <5>3. less \in SUBSET rows /\ Cardinality(less) <= n /\ t \in SUBSET less
              /\ SumOf(less) \in Nat /\ Counts(r) \in Nat /\ SumOf(s) = SumOf(less) + Counts(r)
          BY <3>1, <5>1, <5>2
        <5>4. SumOf(t) \in Nat /\ SumOf(t) <= SumOf(less)
          BY <1>3, <5>3
        <5>5. QED
          BY <5>3, <5>4
      <4>3. QED
        BY <4>1, <4>2
    <3>4. QED
      BY <3>2, <3>3
  <2>2. QED
    BY <1>3, <2>1
<1>4. Nat \subseteq Good
  <2> HIDE DEF Good
  <2>1. QED
    BY <1>2, <1>3, NatSets
<1>5. PICK n \in Nat : n = Cardinality(rows)
  BY FS_CardinalityType
<1>6. n \in Good /\ Cardinality(rows) <= n /\ rows \in SUBSET rows
  BY <1>4, <1>5
<1>7. QED
  BY <1>6

\* Of rows listed once each, it is their sum, wrapped.
LEMMA AggregateAdds ==
    ASSUME NEW rows \in SUBSET Record, IsFiniteSet(rows), NEW list, Lists(list, rows), NEW kind
    PROVE  Aggregate(kind, list) = Wrap(SumOf({u \in rows : u.kind = kind}))
<1>0. list \in Seq(Record) /\ list \in Seq(rows)
  BY DEF Lists
<1>1. PICK sum : Sums(sum, kind, list) /\ Aggregate(kind, list) = sum[Len(list)]
  BY <1>0, AggregateSums
<1>2. PICK size \in Nat : /\ size = Len(list) /\ DOMAIN list = 1 .. size
                          /\ \A i \in 1 .. size : list[i] \in rows
  BY <1>0
<1>3. \A i, j \in 1 .. size : i # j => list[i] # list[j]
  BY <1>2 DEF Lists
<1> DEFINE First(i) == {u \in rows : u.kind = kind /\ \E j \in 1 .. i : list[j] = u}
           Good == {i \in Nat : i <= size => sum[i] = Wrap(SumOf(First(i)))}
<1>4. 0 \in Good
  <2>1. First(0) = {} /\ sum[0] = 0
    BY <1>1 DEF Sums
  <2>2. QED
    BY <2>1, SumOfNone, ZeroFits
<1>5. ASSUME NEW i \in Good, i \in Nat
      PROVE  i + 1 \in Good
  <2>1. ASSUME i + 1 <= size
        PROVE  sum[i + 1] = Wrap(SumOf(First(i + 1)))
    <3>1. PICK j \in 1 .. size : j = i + 1 /\ j - 1 = i
      BY <1>5, <2>1
    <3>2. PICK r \in rows : r = list[j]
      BY <1>2
    <3>3. PICK before : before = First(i)
      OBVIOUS
    <3>4. sum[i] = Wrap(SumOf(before))
      BY <1>5, <2>1, <3>3
    <3>5. sum[j] = IF r.kind = kind THEN Wrap(sum[i] + Counts(r)) ELSE sum[i]
      BY <1>1, <1>2, <3>1, <3>2 DEF Sums
    <3>6. \A k \in 1 .. j : k = j \/ k \in 1 .. i
      BY <1>5, <3>1
    <3>7. 1 .. i \subseteq 1 .. j /\ j \in 1 .. j /\ 1 .. j \subseteq 1 .. size
      BY <1>5, <3>1
    <3>8. CASE r.kind = kind
      <4>1. First(j) = before \cup {r}
        BY <3>2, <3>3, <3>6, <3>7, <3>8
      <4>2. r \notin before
        <5>1. \A k \in 1 .. i : k \in 1 .. size /\ k # j
          BY <1>5, <3>1
        <5>2. QED
          BY <1>3, <3>2, <3>3, <5>1
      <4>3. before \in SUBSET rows /\ before \in SUBSET Record /\ IsFiniteSet(before)
        <5>1. before \in SUBSET rows
          BY <3>3
        <5>2. QED
          BY <5>1, FS_Subset
      <4>4. SumOf(First(j)) = SumOf(before) + Counts(r)
        BY <4>1, <4>2, <4>3, SumAdds
      <4>5. PICK c \in Int, v \in Int : c = Counts(r) /\ v = SumOf(before)
        BY <4>3, SumGrows, CountsType
      <4>6. sum[j] = Wrap(Wrap(v) + c)
        BY <3>4, <3>5, <3>8, <4>5
      <4>7. Wrap(Wrap(v) + c) = Wrap(v + c)
        BY WrapAdds
      <4>8. QED
        BY <3>1, <4>4, <4>5, <4>6, <4>7
    <3>9. CASE r.kind # kind
      <4>1. First(j) = before
        BY <3>2, <3>3, <3>6, <3>7, <3>9
      <4>2. QED
        BY <3>1, <3>4, <3>5, <3>9, <4>1
    <3>10. QED
      BY <3>8, <3>9
  <2> HIDE DEF First
  <2>2. QED
    BY <1>5, <2>1
<1>6. Nat \subseteq Good
  <2> HIDE DEF Good
  <2>1. QED
    BY <1>4, <1>5, NatSets
<1>7. size \in Good
  BY <1>6
<1>8. First(size) = {u \in rows : u.kind = kind}
  <2>1. \A u \in rows : \E j \in 1 .. size : list[j] = u
    <3>1. ToSet(list) = rows
      BY DEF Lists
    <3>2. QED
      BY <1>2, <3>1 DEF ToSet
  <2>2. QED
    BY <2>1
<1>9. QED
  <2> HIDE DEF First
  <2>1. sum[size] = Wrap(SumOf(First(size)))
    BY <1>7
  <2>2. QED
    BY <1>1, <1>2, <1>8, <2>1

----
\* Types.

\* What Rate makes of records, whatever they are, fits.
LEMMA RateType ==
    ASSUME NEW records \in Seq(Record)
    PROVE  LET i == Rate(ThePlan, records) IN
           i.base \in Int64 /\ i.total \in Int64 /\ i.lines \in [Kind -> Int64]
<1>1. ThePlan.price \in Int64 /\ ThePlan.included \in [Kind -> Int64]
      /\ ThePlan.overage \in [Kind -> Int64]
  BY PlanAssumption DEF Plan
<1>3. Int64 \subseteq Int
  BY WidthAssumption DEF Int64
<1>4. \A a \in Int : Wrap(a) \in Int64 /\ Wrap(a) \in Int
  BY <1>3, WrapType
<1>5. ASSUME NEW total \in Int64, NEW included \in Int64, NEW cents \in Int64
      PROVE  Overage(total, included, cents) \in Int64
  <2>1. PICK d \in Int : d = total - included
    BY <1>3
  <2>2. PICK e \in Int : e = Wrap(d)
    BY <1>4
  <2>3. e * cents \in Int
    BY <1>3
  <2>4. Wrap(e * cents) \in Int64
    BY <1>4, <2>3
  <2>5. QED
    BY <2>1, <2>2, <2>4, ZeroFits DEF Overage
<1>6. PICK line : line = [k \in Kind |-> Overage(Aggregate(k, records), ThePlan.included[k], ThePlan.overage[k])]
  OBVIOUS
<1>7. line \in [Kind -> Int64]
  BY <1>1, <1>5, <1>6, AggregateType
<1>8. line["voice"] \in Int /\ line["data"] \in Int /\ line["sms"] \in Int /\ ThePlan.price \in Int
  BY <1>1, <1>3, <1>7 DEF Kind
<1>9. Total(ThePlan.price, line["voice"], line["data"], line["sms"]) \in Int64
  <2>1. PICK a \in Int : a = Wrap(ThePlan.price + line["voice"])
    <3>1. ThePlan.price + line["voice"] \in Int
      BY <1>8
    <3>2. QED
      BY <1>3, <3>1, WrapType
  <2>2. PICK b \in Int : b = Wrap(a + line["data"])
    <3>1. a + line["data"] \in Int
      BY <1>8
    <3>2. QED
      BY <1>3, <3>1, WrapType
  <2>3. Wrap(b + line["sms"]) \in Int64
    <3>1. b + line["sms"] \in Int
      BY <1>8
    <3>2. QED
      BY <3>1, WrapType
  <2>4. QED
    BY <2>1, <2>2, <2>3 DEF Total
<1>10. PICK i : i = Rate(ThePlan, records)
  OBVIOUS
<1>11. i.base = ThePlan.price /\ i.lines = line
       /\ i.total = Total(ThePlan.price, line["voice"], line["data"], line["sms"])
  BY <1>6, <1>10 DEF Rate, RateLines
<1>12. QED
  BY <1>1, <1>7, <1>9, <1>10, <1>11

\* The types that the reads of an invoice say nothing of.
InvoiceType == [base : Int64, lines : [Kind -> Int64], total : Int64]

AmountsOK ==
    /\ now \in 1 .. MaxMonth
    /\ known \subseteq {"subscribers", "plans"}
    /\ added \in 0 .. MaxRecords /\ asked \in 0 .. MaxInvoices
    /\ period \in [Workers -> 0 .. MaxMonth]
    /\ invoice \in [Workers -> InvoiceType]
    /\ gauge \in Int64 /\ runs \in Nat /\ errors \in Nat

\* What a goroutine has gathered, and could have, are records.
LEMMA GatheredType ==
    ASSUME ReadsInv, NEW w \in Workers
    PROVE  gathered[w] \in Seq(Record) /\ floor[w] \subseteq Record
<1>1. Lists(gathered[w], ToSet(gathered[w]))
      /\ ToSet(gathered[w]) \subseteq InPeriod(past.stored, period[w])
      /\ floor[w] \subseteq InPeriod(past.stored, period[w])
  BY DEF ReadsInv, ReadsOK
<1>2. InPeriod(past.stored, period[w]) \subseteq Record
  BY DEF InPeriod, ReadsInv, StoredOK
<1>3. PICK list : list = gathered[w]
  OBVIOUS
<1>4. list \in Seq(ToSet(list)) /\ ToSet(list) \subseteq Record
  BY <1>1, <1>2, <1>3 DEF Lists
<1>5. list \in Seq(Record)
  BY <1>4
<1>6. QED
  BY <1>1, <1>2, <1>3, <1>5

\* So what Rate returns has the type of an invoice.
LEMMA RateInvoice ==
    ASSUME NEW records \in Seq(Record)
    PROVE  Rate(ThePlan, records) \in InvoiceType
<1>1. PICK base, line, total :
          Rate(ThePlan, records) = [base |-> base, lines |-> line, total |-> total]
  BY DEF Rate, RateLines
<1>2. base \in Int64 /\ total \in Int64 /\ line \in [Kind -> Int64]
  BY <1>1, RateType
<1>3. QED
  BY <1>1, <1>2 DEF InvoiceType

\* And so has what a goroutine holds before.
LEMMA NoInvoiceType == NoInvoice \in InvoiceType
BY ZeroFits DEF NoInvoice, InvoiceType

\* Every step keeps these types.
LEMMA NextAmounts ==
    ASSUME ReadsInv, AmountsOK, [Next]_vars
    PROVE  AmountsOK'
<1> USE DEF locals, store, counts
<1>1. CASE AddUsage \/ LoadSlice \/ PutBack
  <2>1. /\ UNCHANGED <<now, known, asked, period, invoice, gauge, runs, errors>>
        /\ added' = added \/ (added < MaxRecords /\ added' = added + 1)
    BY <1>1 DEF AddUsage, LoadSlice, PutBack
  <2>2. QED
    BY <2>1, LimitAssumption DEF AmountsOK
<1>2. CASE MonthEnds
  BY <1>2, LimitAssumption DEF MonthEnds, AmountsOK
<1>3. CASE ResetBegins \/ ResetWipes \/ UNCHANGED vars
  <2>1. known' \subseteq known
        /\ UNCHANGED <<now, added, asked, period, invoice, gauge, runs, errors>>
    BY <1>3 DEF ResetBegins, ResetWipes, vars
  <2>2. QED
    BY <2>1 DEF AmountsOK
<1>4. ASSUME NEW w \in Workers, NEW code, Answer(w, code)
      PROVE  period' \in [Workers -> 0 .. MaxMonth] /\ invoice' \in [Workers -> InvoiceType]
  BY <1>4, NoInvoiceType, LimitAssumption DEF Answer, AmountsOK
<1>5. ASSUME NEW w \in Workers, Ask(w)
      PROVE  AmountsOK'
  BY <1>5, LimitAssumption DEF Ask, AmountsOK
<1>6. ASSUME NEW w \in Workers, GetSubscriber(w) \/ GetPlan(w) \/ FailStatement(w)
      PROVE  AmountsOK'
  <2>1. UNCHANGED <<now, known, added, asked, gauge, runs, errors>>
    BY <1>6 DEF GetSubscriber, GetPlan, FailStatement
  <2>2. CASE \E code : Answer(w, code)
    BY <1>4, <2>1, <2>2 DEF AmountsOK
  <2>3. CASE ~ \E code : Answer(w, code)
    <3>1. invoice' = invoice /\ (period' = period \/ period' = [period EXCEPT ![w] = now])
      BY <1>6, <2>3 DEF GetSubscriber, GetPlan, FailStatement
    <3>2. now \in 0 .. MaxMonth
      BY LimitAssumption DEF AmountsOK
    <3>3. period' \in [Workers -> 0 .. MaxMonth]
      BY <3>1, <3>2 DEF AmountsOK
    <3>4. QED
      BY <2>1, <3>1, <3>3 DEF AmountsOK
  <2>4. QED
    BY <2>2, <2>3
<1>7. ASSUME NEW w \in Workers, ListUsage(w)
      PROVE  AmountsOK'
  BY <1>7 DEF ListUsage, AmountsOK
<1>8. ASSUME NEW w \in Workers, RateUsage(w)
      PROVE  AmountsOK'
  <2>1. invoice' \in [Workers -> InvoiceType]
    BY <1>8, GatheredType, RateInvoice DEF RateUsage, AmountsOK
  <2>2. QED
    BY <1>8, <2>1 DEF RateUsage, AmountsOK
<1>9. ASSUME NEW w \in Workers, SetBillingAmount(w)
      PROVE  AmountsOK'
  <2>1. invoice[w].total \in Int64
    BY DEF AmountsOK, InvoiceType
  <2>2. QED
    BY <1>9, <2>1 DEF SetBillingAmount, AmountsOK
<1>10. ASSUME NEW w \in Workers, CarrierLookup(w)
      PROVE  AmountsOK'
  <2>1. errors' \in Nat
    BY <1>10 DEF CarrierLookup, AmountsOK
  <2>2. period' \in [Workers -> 0 .. MaxMonth] /\ invoice' \in [Workers -> InvoiceType]
    BY <1>4, <1>10 DEF CarrierLookup
  <2>3. QED
    BY <1>10, <2>1, <2>2 DEF CarrierLookup, AmountsOK
<1>11. QED
  BY <1>1, <1>2, <1>3, <1>5, <1>6, <1>7, <1>8, <1>9, <1>10 DEF Next, Serve, Quiet

\* So they always hold.
LEMMA AmountsInvariant == Spec => []AmountsOK
<1>1. Init => AmountsOK
  BY NoInvoiceType, ZeroFits, LimitAssumption DEF Init, AmountsOK
<1>2. QED
  BY <1>1, NextAmounts, ReadsInvariant, PTL DEF Spec

\* Every variable keeps its type, whatever the usage, the plan and the width.
THEOREM TypeCorrect == Spec => []TypeOK
<1>1. ASSUME ReadsInv, AmountsOK, backend \in Backends
      PROVE  TypeOK
  <2>1. /\ usage \subseteq Record /\ pc \in [Workers -> Step]
        /\ pending \subseteq [row : Record, slice : SUBSET Record]
    BY <1>1 DEF ReadsInv, StoredOK
  <2>2. ASSUME NEW w \in Workers
        PROVE  /\ \A i \in 1 .. Len(gathered[w]) : gathered[w][i] \in Record
               /\ invoice[w].base \in Int64 /\ invoice[w].total \in Int64
               /\ invoice[w].lines \in [Kind -> Int64]
               /\ floor[w] \subseteq Record
    <3>1. gathered[w] \in Seq(Record) /\ floor[w] \subseteq Record
      BY <1>1, GatheredType
    <3>2. PICK list : list = gathered[w]
      OBVIOUS
    <3>3. \A i \in 1 .. Len(list) : list[i] \in Record
      BY <3>1, <3>2
    <3>4. invoice[w] \in InvoiceType
      BY <1>1 DEF AmountsOK
    <3>5. QED
      BY <3>1, <3>2, <3>3, <3>4 DEF InvoiceType
  <2>3. QED
    BY <1>1, <2>1, <2>2 DEF AmountsOK, TypeOK
<1>2. Init => backend \in Backends
  BY DEF Init
<1>3. backend \in Backends /\ [Next]_vars => (backend \in Backends)'
  BY DEF Next, vars, store, AddUsage, LoadSlice, PutBack, MonthEnds, ResetBegins, ResetWipes,
         Ask, Serve, GetSubscriber, GetPlan, ListUsage, RateUsage, SetBillingAmount,
         CarrierLookup, FailStatement, Quiet
<1>4. Spec => [](backend \in Backends)
  BY <1>2, <1>3, PTL DEF Spec
<1>5. QED
  BY <1>1, <1>4, ReadsInvariant, AmountsInvariant, PTL

----
\* What an invoice says.

\* A rated invoice is what Rate made of what the goroutine gathered.
RatedOK ==
    /\ DOMAIN invoice = Workers
    /\ \A w \in Workers :
          pc[w] \in {"gauge", "carrier"} => invoice[w] = Rate(ThePlan, gathered[w])

\* It stays that until the invoice is answered.
LEMMA NextRated ==
    ASSUME ReadsInv, RatedOK, [Next]_vars
    PROVE  RatedOK'
<1> USE DEF locals, ReadsInv
<1>1. ASSUME NEW w \in Workers, NEW code, Answer(w, code)
      PROVE  RatedOK'
  BY <1>1 DEF RatedOK, Answer, Goto
<1>2. ASSUME NEW w \in Workers, NEW step, Goto(w, step), UNCHANGED invoice,
             \A v \in Workers \ {w} : gathered'[v] = gathered[v],
             step \notin {"gauge", "carrier"} \/ (pc[w] = "gauge" /\ gathered'[w] = gathered[w])
      PROVE  RatedOK'
  BY <1>2 DEF RatedOK, Goto
<1>3. ASSUME NEW w \in Workers, Ask(w) \/ SetBillingAmount(w)
      PROVE  RatedOK'
  BY <1>2, <1>3 DEF Ask, SetBillingAmount
<1>4. ASSUME NEW w \in Workers, GetSubscriber(w) \/ GetPlan(w)
      PROVE  RatedOK'
  BY <1>1, <1>2, <1>4 DEF GetSubscriber, GetPlan
<1>5. ASSUME NEW w \in Workers, ListUsage(w)
      PROVE  RatedOK'
  <2>1. PICK step : step = usageKinds[pc[w]] /\ step \notin {"gauge", "carrier"}
    BY <1>5 DEF ListUsage, usageKinds, Kind
  <2>2. \A v \in Workers \ {w} : gathered'[v] = gathered[v]
    BY <1>5 DEF ListUsage
  <2>3. Goto(w, step) /\ UNCHANGED invoice
    BY <1>5, <2>1 DEF ListUsage
  <2>4. QED
    BY <2>1, <2>2, <2>3 DEF RatedOK, Goto
<1>6. ASSUME NEW w \in Workers, FailStatement(w) \/ CarrierLookup(w)
      PROVE  RatedOK'
  BY <1>1, <1>6 DEF FailStatement, CarrierLookup
<1>7. ASSUME NEW w \in Workers, RateUsage(w)
      PROVE  RatedOK'
  <2>1. PICK i : i = Rate(ThePlan, gathered[w])
    OBVIOUS
  <2>2. /\ invoice' = [invoice EXCEPT ![w] = i] /\ pc' = [pc EXCEPT ![w] = "gauge"]
        /\ gathered' = gathered
    BY <1>7, <2>1 DEF RateUsage, Goto
  <2>3. QED
    BY <2>1, <2>2 DEF RatedOK
<1>8. CASE AddUsage \/ LoadSlice \/ PutBack \/ MonthEnds \/ ResetBegins \/ ResetWipes \/ UNCHANGED vars
  BY <1>8 DEF AddUsage, LoadSlice, PutBack, MonthEnds, ResetBegins, ResetWipes, vars, RatedOK
<1>9. QED
  BY <1>3, <1>4, <1>5, <1>6, <1>7, <1>8 DEF Next, Serve, Quiet

\* So it always is.
LEMMA RatedInvariant == Spec => []RatedOK
<1>1. Init => RatedOK
  BY DEF Init, RatedOK
<1>2. QED
  BY <1>1, NextRated, ReadsInvariant, PTL DEF Spec

\* A rated invoice holds a base price that fits, and the running total of its
\* lines.
Consistent(i) ==
    /\ i.base \in Int64
    /\ i.total = Total(i.base, i.lines["voice"], i.lines["data"], i.lines["sms"])

\* The base price is the plan's, which fits.
LEMMA RateConsistent ==
    ASSUME NEW records
    PROVE  Consistent(Rate(ThePlan, records))
<1>1. ThePlan.price \in Int64
  BY PlanAssumption DEF Plan
<1>2. QED
  BY <1>1 DEF Rate, RateLines, Consistent

\* The lines of an invoice add up to its total, whether or not the int64
\* arithmetic of the lines or of the total overflowed.
THEOREM InvoiceAddsUp == Spec => []LinesAddUp
<1>1. RatedOK => LinesAddUp
  BY RateConsistent, WrapFits DEF RatedOK, Consistent, LinesAddUp, SumOfLines, Total, Int64
<1>2. QED
  BY <1>1, RatedInvariant, PTL

----
\* What an invoice comes to.

\* No line of the plan gives money back.
Charges == \A k \in Kind : ThePlan.overage[k] >= 0

\* The exact price of a sum of usage over the allowance.
Over(k, n) == IF n > ThePlan.included[k] THEN (n - ThePlan.included[k]) * ThePlan.overage[k] ELSE 0

Exact(rows) == ExactTotal(ThePlan, SumsOf(rows))

\* The plan's numbers are int64, so integers.
LEMMA PlanType == \A k \in Kind : ThePlan.included[k] \in Int /\ ThePlan.overage[k] \in Int
                                  /\ ThePlan.price \in Int /\ ThePlan.price \in Int64
BY PlanAssumption, WidthAssumption DEF Plan, Int64

\* More of a kind never costs less.
LEMMA OverGrows ==
    ASSUME Charges, NEW k \in Kind, NEW m \in Int, NEW n \in Int, m <= n
    PROVE  Over(k, m) \in Int /\ Over(k, n) \in Int /\ 0 <= Over(k, m) /\ Over(k, m) <= Over(k, n)
<1>1. PICK c \in Nat, i \in Int : c = ThePlan.overage[k] /\ i = ThePlan.included[k]
  BY PlanType DEF Charges
<1>2. \A a, b \in Int : a <= b /\ a >= 0 => a * c \in Int /\ b * c \in Int /\ 0 <= a * c /\ a * c <= b * c
  OBVIOUS
<1>3. Over(k, m) = (IF m > i THEN (m - i) * c ELSE 0) /\ Over(k, n) = (IF n > i THEN (n - i) * c ELSE 0)
  BY <1>1 DEF Over
<1>4. CASE n > i
  <2>1. CASE m > i
    <3>1. m - i \in Int /\ n - i \in Int /\ m - i <= n - i /\ m - i >= 0
      BY <2>1
    <3>2. QED
      BY <1>2, <1>3, <1>4, <2>1, <3>1
  <2>2. CASE ~(m > i)
    <3>1. n - i \in Int /\ n - i >= 0 /\ n - i <= n - i
      BY <1>4
    <3>2. QED
      BY <1>2, <1>3, <1>4, <2>2, <3>1
  <2>3. QED
    BY <2>1, <2>2
<1>5. CASE ~(n > i)
  BY <1>3, <1>5
<1>6. QED
  BY <1>4, <1>5

\* The exact price, kind by kind.
LEMMA ExactOver ==
    ASSUME NEW rows
    PROVE  Exact(rows) = ThePlan.price + Over("voice", SumOf(KeepKind("voice", rows)))
                           + Over("data", SumOf(KeepKind("data", rows)))
                           + Over("sms", SumOf(KeepKind("sms", rows)))
<1>1. PICK sums : sums = SumsOf(rows)
  OBVIOUS
<1>2. \A k \in Kind : sums[k] = SumOf(KeepKind(k, rows))
  BY <1>1 DEF SumsOf, SumOf, KeepKind
<1>3. "voice" \in Kind /\ "data" \in Kind /\ "sms" \in Kind
  BY DEF Kind
<1>4. sums["voice"] = SumOf(KeepKind("voice", rows)) /\ sums["data"] = SumOf(KeepKind("data", rows))
      /\ sums["sms"] = SumOf(KeepKind("sms", rows))
  BY <1>2, <1>3
<1>5. Exact(rows) = ThePlan.price + Over("voice", sums["voice"]) + Over("data", sums["data"])
                      + Over("sms", sums["sms"])
  BY <1>1 DEF Exact, ExactTotal, Over
<1>6. QED
  BY <1>4, <1>5

\* More usage never costs less.
LEMMA ExactGrows ==
    ASSUME Charges, NEW rows \in SUBSET Record, IsFiniteSet(rows), NEW some \in SUBSET rows
    PROVE  /\ Exact(some) \in Int /\ Exact(rows) \in Int
           /\ ThePlan.price <= Exact(some) /\ Exact(some) <= Exact(rows)
<1>1. ASSUME NEW k \in Kind
      PROVE  /\ SumOf(KeepKind(k, some)) \in Nat /\ SumOf(KeepKind(k, rows)) \in Nat
             /\ SumOf(KeepKind(k, some)) <= SumOf(KeepKind(k, rows))
  <2>1. PICK more, less : more = KeepKind(k, rows) /\ less = KeepKind(k, some)
    OBVIOUS
  <2>2. less \in SUBSET more /\ more \in SUBSET rows
    BY <2>1 DEF KeepKind
  <2>3. more \in SUBSET Record /\ IsFiniteSet(more)
    BY <2>2, FS_Subset
  <2>4. QED
    BY <2>1, <2>2, <2>3, SumGrows
<1>2. ASSUME NEW k \in Kind
      PROVE  \E a, b \in Int : /\ a = Over(k, SumOf(KeepKind(k, some)))
                               /\ b = Over(k, SumOf(KeepKind(k, rows)))
                               /\ 0 <= a /\ a <= b
  <2>1. PICK m \in Int, n \in Int : m = SumOf(KeepKind(k, some)) /\ n = SumOf(KeepKind(k, rows)) /\ m <= n
    BY <1>1
  <2>2. QED
    BY <2>1, OverGrows
<1>3. "voice" \in Kind /\ "data" \in Kind /\ "sms" \in Kind
  BY DEF Kind
<1>4. PICK v1, v2 \in Int : /\ v1 = Over("voice", SumOf(KeepKind("voice", some)))
                            /\ v2 = Over("voice", SumOf(KeepKind("voice", rows)))
                            /\ 0 <= v1 /\ v1 <= v2
  BY <1>2, <1>3
<1>5. PICK d1, d2 \in Int : /\ d1 = Over("data", SumOf(KeepKind("data", some)))
                            /\ d2 = Over("data", SumOf(KeepKind("data", rows)))
                            /\ 0 <= d1 /\ d1 <= d2
  BY <1>2, <1>3
<1>6. PICK s1, s2 \in Int : /\ s1 = Over("sms", SumOf(KeepKind("sms", some)))
                            /\ s2 = Over("sms", SumOf(KeepKind("sms", rows)))
                            /\ 0 <= s1 /\ s1 <= s2
  BY <1>2, <1>3
<1>7. PICK p \in Int : p = ThePlan.price
  BY <1>3, PlanType
<1>8. Exact(some) = p + v1 + d1 + s1 /\ Exact(rows) = p + v2 + d2 + s2
  BY <1>4, <1>5, <1>6, <1>7, ExactOver
<1>9. QED
  BY <1>4, <1>5, <1>6, <1>7, <1>8

\* A line is its exact price, wrapped once.
LEMMA OverageWraps ==
    ASSUME NEW k \in Kind, NEW n \in Int
    PROVE  Overage(n, ThePlan.included[k], ThePlan.overage[k]) = Wrap(Over(k, n)) /\ Over(k, n) \in Int
<1>1. PICK c \in Int, i \in Int : c = ThePlan.overage[k] /\ i = ThePlan.included[k]
  BY PlanType
<1>2. n - i \in Int /\ (n - i) * c \in Int /\ Wrap(Wrap(n - i) * c) = Wrap((n - i) * c)
  <2>1. PICK d \in Int : d = n - i
    OBVIOUS
  <2>2. Wrap(Wrap(d) * c) = Wrap(d * c) /\ d * c \in Int
    BY WrapMultiplies
  <2>3. QED
    BY <2>1, <2>2
<1>3. Overage(n, i, c) = IF n > i THEN Wrap(Wrap(n - i) * c) ELSE 0
  BY DEF Overage
<1>4. Over(k, n) = IF n > i THEN (n - i) * c ELSE 0
  BY <1>1 DEF Over
<1>5. QED
  BY <1>1, <1>2, <1>3, <1>4, ZeroFits

\* And so is the total.
LEMMA TotalWraps ==
    ASSUME NEW p \in Int, NEW v \in Int, NEW d \in Int, NEW s \in Int
    PROVE  Total(p, Wrap(v), Wrap(d), Wrap(s)) = Wrap(p + v + d + s)
<1>1. ASSUME NEW a \in Int, NEW b \in Int
      PROVE  Wrap(a + Wrap(b)) = Wrap(a + b)
  <2>1. PICK w \in Int : w = Wrap(b)
    BY WrapType DEF Int64
  <2>2. a + w = w + a /\ a + b = b + a
    OBVIOUS
  <2>3. Wrap(w + a) = Wrap(b + a)
    BY <2>1, WrapAdds
  <2>4. QED
    BY <2>1, <2>2, <2>3
<1>2. ASSUME NEW a \in Int, NEW b \in Int
      PROVE  Wrap(Wrap(a) + Wrap(b)) = Wrap(a + b)
  <2>1. PICK w \in Int : w = Wrap(b)
    BY WrapType DEF Int64
  <2>2. Wrap(Wrap(a) + w) = Wrap(a + w)
    BY WrapAdds
  <2>3. Wrap(a + w) = Wrap(a + b)
    BY <1>1, <2>1
  <2>4. QED
    BY <2>1, <2>2, <2>3
<1>3. PICK pv \in Int : pv = p + v
  OBVIOUS
<1>4. PICK pvd \in Int : pvd = pv + d
  OBVIOUS
<1>5. Wrap(p + Wrap(v)) = Wrap(pv)
  BY <1>1, <1>3
<1>6. Wrap(Wrap(pv) + Wrap(d)) = Wrap(pvd)
  BY <1>2, <1>4
<1>7. Wrap(Wrap(pvd) + Wrap(s)) = Wrap(pvd + s)
  BY <1>2
<1>8. QED
  BY <1>3, <1>4, <1>5, <1>6, <1>7 DEF Total

\* What rows that fit come to is what rating any list of some of them says.
LEMMA RateExact ==
    ASSUME Charges, NEW rows \in SUBSET Record, IsFiniteSet(rows), Fits(rows),
           NEW some \in SUBSET rows, NEW list, Lists(list, some)
    PROVE  Rate(ThePlan, list).total = Exact(some)
<1>1. some \in SUBSET Record /\ IsFiniteSet(some)
  BY FS_Subset
<1>2. ASSUME NEW k \in Kind
      PROVE  \E n \in Int : n = SumOf(KeepKind(k, some)) /\ Aggregate(k, list) = n
  <2>1. PICK more, less : more = KeepKind(k, rows) /\ less = KeepKind(k, some)
    OBVIOUS
  <2>2. less \in SUBSET more /\ more \in SUBSET rows
    BY <2>1 DEF KeepKind
  <2>3. more \in SUBSET Record /\ IsFiniteSet(more)
    BY <2>2, FS_Subset
  <2>4. PICK m \in Nat, n \in Nat : m = SumOf(less) /\ n = SumOf(more) /\ m <= n
    BY <2>2, <2>3, SumGrows
  <2>5. n \in Int64
    BY <2>1, <2>4 DEF Fits, SumsOf, SumOf, KeepKind
  <2>6. m \in Int64
    BY <2>4, <2>5, WidthAssumption DEF Int64
  <2>7. Aggregate(k, list) = Wrap(SumOf(less))
    BY <1>1, <2>1, AggregateAdds DEF KeepKind
  <2>8. QED
    BY <2>1, <2>4, <2>6, <2>7, WrapFits
<1>3. ASSUME NEW k \in Kind
      PROVE  \E o \in Int : /\ o = Over(k, SumOf(KeepKind(k, some)))
                            /\ Overage(Aggregate(k, list), ThePlan.included[k], ThePlan.overage[k]) = Wrap(o)
  BY <1>2, OverageWraps
<1>4. PICK line : line = [k \in Kind |-> Overage(Aggregate(k, list), ThePlan.included[k], ThePlan.overage[k])]
  OBVIOUS
<1>5. "voice" \in Kind /\ "data" \in Kind /\ "sms" \in Kind
  BY DEF Kind
<1>6. PICK v \in Int : v = Over("voice", SumOf(KeepKind("voice", some))) /\ line["voice"] = Wrap(v)
  BY <1>3, <1>4, <1>5
<1>7. PICK d \in Int : d = Over("data", SumOf(KeepKind("data", some))) /\ line["data"] = Wrap(d)
  BY <1>3, <1>4, <1>5
<1>8. PICK s \in Int : s = Over("sms", SumOf(KeepKind("sms", some))) /\ line["sms"] = Wrap(s)
  BY <1>3, <1>4, <1>5
<1>9. PICK p \in Int : p = ThePlan.price
  BY <1>5, PlanType
<1>10. Exact(some) = p + v + d + s
  BY <1>6, <1>7, <1>8, <1>9, ExactOver
<1>11. Rate(ThePlan, list).total = Total(p, line["voice"], line["data"], line["sms"])
  BY <1>4, <1>9 DEF Rate, RateLines
<1>12. Rate(ThePlan, list).total = Wrap(Exact(some))
  <2>1. Total(p, Wrap(v), Wrap(d), Wrap(s)) = Wrap(p + v + d + s)
    BY TotalWraps
  <2>2. QED
    BY <1>6, <1>7, <1>8, <1>10, <1>11, <2>1
<1>13. Exact(some) \in Int64
  <2>1. PICK e \in Int : e = Exact(some) /\ ThePlan.price <= e /\ e <= Exact(rows)
    BY ExactGrows
  <2>2. ThePlan.price \in Int64 /\ Exact(rows) \in Int64
    BY <1>5, PlanType DEF Fits, Exact
  <2>3. QED
    BY <2>1, <2>2, WidthAssumption DEF Int64
<1>14. QED
  BY <1>12, <1>13, WrapFits

\* When the usage of a period is small enough for an int64, so is every list an
\* invoice gathers of it, and its total is exact.
LEMMA RatedExactly ==
    ASSUME ReadsInv, RatedOK, Charges, NEW w \in Workers,
           pc[w] \in {"gauge", "carrier"},
           Fits(InPeriod(past.stored, period[w]))
    PROVE  LET rows == InPeriod(past.stored, period[w]) IN
           /\ invoice[w].total \in Int
           /\ ThePlan.price <= Exact(floor[w] \ past.gone) /\ Exact(floor[w] \ past.gone) \in Int
           /\ Exact(rows) \in Int
           /\ Exact(floor[w] \ past.gone) <= invoice[w].total
           /\ invoice[w].total <= Exact(rows)
<1>1. PICK rows : rows = InPeriod(past.stored, period[w])
  OBVIOUS
<1>2. PICK billed : billed = ToSet(gathered[w])
  OBVIOUS
<1>0. PICK least : least = floor[w] \ past.gone
  OBVIOUS
<1>3. rows \in SUBSET Record /\ IsFiniteSet(rows)
  <2>1. rows \in SUBSET past.stored
    BY <1>1 DEF InPeriod
  <2>2. QED
    BY <2>1, FS_Subset DEF ReadsInv, StoredOK
<1>4. Lists(gathered[w], billed) /\ billed \in SUBSET rows /\ least \in SUBSET billed
  <2>1. ReadsOK(w) /\ Listed(pc[w]) = Kind
    BY DEF ReadsInv, Listed
  <2>2. \A u \in floor[w] : u.kind \in Kind
    BY <1>1, <1>3, <2>1 DEF ReadsOK, Record
  <2>3. QED
    BY <1>0, <1>1, <1>2, <2>1, <2>2 DEF ReadsOK
<1>5. invoice[w].total = Exact(billed)
  BY <1>1, <1>3, <1>4, RateExact DEF RatedOK
<1>6. IsFiniteSet(billed) /\ billed \in SUBSET Record
  BY <1>3, <1>4, FS_Subset
<1>7. /\ Exact(billed) \in Int /\ Exact(rows) \in Int
      /\ Exact(billed) <= Exact(rows)
  BY <1>3, <1>4, ExactGrows
<1>8. /\ Exact(least) \in Int /\ ThePlan.price <= Exact(least)
      /\ Exact(least) <= Exact(billed)
  BY <1>4, <1>6, ExactGrows
<1>9. QED
  BY <1>0, <1>1, <1>5, <1>7, <1>8

\* With either backend the total of an invoice lies between the exact prices of
\* what its first read could see, without what was taken out, and of what has
\* been stored, when no line of the plan gives money back and the usage of the
\* period fits.
THEOREM TotalsAreExact ==
    ASSUME Charges
    PROVE  Spec => []TotalBetween
<1>1. ASSUME ReadsInv, RatedOK
      PROVE  TotalBetween
  <2>1. ASSUME NEW w \in Workers, pc[w] \in {"gauge", "carrier"},
               Fits(InPeriod(past.stored, period[w]))
        PROVE  /\ Exact(floor[w] \ past.gone) <= invoice[w].total
               /\ invoice[w].total <= Exact(InPeriod(past.stored, period[w]))
    BY <1>1, <2>1, RatedExactly
  <2>2. QED
    BY <2>1 DEF TotalBetween, Exact
<1>2. QED
  BY <1>1, ReadsInvariant, RatedInvariant, PTL

----
\* The gauge from one invoice to the next.

\* The runs in which a later invoice can be held against an earlier one.
Serial ==
    /\ past.gone = {} /\ ~past.overlap /\ now = 1
    /\ Fits(InPeriod(past.stored, 1))

\* A goroutine that has read usage and not yet set the gauge.
Reading(w) == pc[w] \in {"data", "sms", "rate", "gauge"}

\* Until invoices overlap one goroutine is at work, and a period read is one that
\* has begun.
OneByOne ==
    /\ ~past.overlap => \A v, w \in Workers : v # w => pc[v] = "idle" \/ pc[w] = "idle"
    /\ \A w \in Workers : pc[w] \notin {"idle", "subscriber", "plan"} => period[w] \in 1 .. now

\* The gauge is never above what is stored, nor above what an invoice under way
\* is bound to bill.
GaugeOK ==
    Serial => /\ gauge <= Exact(InPeriod(past.stored, 1))
              /\ \A w \in Workers : Reading(w) => gauge <= Exact(floor[w])

\* Rows fit when more rows do.
LEMMA FitsLess ==
    ASSUME Charges, NEW rows \in SUBSET Record, IsFiniteSet(rows), Fits(rows),
           NEW some \in SUBSET rows
    PROVE  Fits(some)
<1>1. ASSUME NEW k \in Kind
      PROVE  SumsOf(some)[k] \in Int64
  <2>1. PICK more, less : more = KeepKind(k, rows) /\ less = KeepKind(k, some)
    OBVIOUS
  <2>2. less \in SUBSET more /\ more \in SUBSET rows
    BY <2>1 DEF KeepKind
  <2>3. more \in SUBSET Record /\ IsFiniteSet(more)
    BY <2>2, FS_Subset
  <2>4. PICK m \in Nat, n \in Nat : m = SumOf(less) /\ n = SumOf(more) /\ m <= n
    BY <2>2, <2>3, SumGrows
  <2>5. n \in Int64
    BY <2>1, <2>4 DEF Fits, SumsOf, SumOf, KeepKind
  <2>6. m \in Int64
    BY <2>4, <2>5, WidthAssumption DEF Int64
  <2>7. QED
    BY <2>1, <2>4, <2>6 DEF SumsOf, SumOf, KeepKind
<1>2. Exact(some) \in Int64
  <2>1. PICK e \in Int : e = Exact(some) /\ ThePlan.price <= e /\ e <= Exact(rows)
    BY ExactGrows
  <2>2. ThePlan.price \in Int64 /\ Exact(rows) \in Int64
    BY PlanType DEF Fits, Exact, Kind
  <2>3. QED
    BY <2>1, <2>2, WidthAssumption DEF Int64
<1>3. QED
  BY <1>1, <1>2 DEF Fits, Exact

\* So what comes before a serial run is one.
LEMMA SerialBefore ==
    ASSUME Charges, ReadsInv, ReadsInv', AmountsOK, AmountsOK', [Next]_vars, Serial'
    PROVE  /\ Serial
           /\ InPeriod(past.stored, 1) \in SUBSET InPeriod(past'.stored, 1)
<1>0. Growing
  BY NextStored DEF ReadsInv
<1>1. InPeriod(past.stored, 1) \in SUBSET InPeriod(past'.stored, 1)
  BY <1>0 DEF InPeriod, Growing
<1>2. InPeriod(past'.stored, 1) \in SUBSET Record /\ IsFiniteSet(InPeriod(past'.stored, 1))
  <2>1. InPeriod(past'.stored, 1) \in SUBSET past'.stored
    BY DEF InPeriod
  <2>2. past'.stored \in SUBSET Record /\ IsFiniteSet(past'.stored)
    BY DEF ReadsInv, StoredOK
  <2>3. QED
    BY <2>1, <2>2, FS_Subset
<1>3. Fits(InPeriod(past'.stored, 1))
  BY DEF Serial
<1>4. Fits(InPeriod(past.stored, 1))
  BY <1>1, <1>2, <1>3, FitsLess
<1>5. now = 1
  <2>1. now' = now \/ now' = now + 1
    BY DEF Next, AddUsage, LoadSlice, PutBack, MonthEnds, ResetBegins, ResetWipes,
           Ask, Serve, GetSubscriber, GetPlan,
           ListUsage, RateUsage, SetBillingAmount, CarrierLookup, FailStatement, Quiet, vars
  <2>2. now \in Nat /\ now >= 1 /\ now' = 1
    BY LimitAssumption DEF AmountsOK, Serial
  <2>3. QED
    BY <2>1, <2>2
<1>6. past.gone = {} /\ ~past.overlap
  BY <1>0 DEF Serial, Growing
<1>7. QED
  BY <1>1, <1>4, <1>5, <1>6 DEF Serial

\* Every step keeps that.
LEMMA NextOneByOne ==
    ASSUME ReadsInv, AmountsOK, OneByOne, [Next]_vars
    PROVE  OneByOne'
<1> USE DEF locals, store
<1>0. /\ pc \in [Workers -> Step] /\ period \in [Workers -> 0 .. MaxMonth] /\ now \in Nat /\ now >= 1
      /\ past.overlap \in BOOLEAN /\ Growing
      /\ past \in [stored : SUBSET Record, gone : SUBSET Record,
                   overlap : BOOLEAN, reset : BOOLEAN]
  BY LimitAssumption, NextStored DEF ReadsInv, StoredOK, AmountsOK
<1>2. CASE AddUsage \/ LoadSlice \/ PutBack \/ MonthEnds \/ ResetBegins \/ ResetWipes \/ UNCHANGED vars
  <2>1. UNCHANGED <<pc, period>> /\ (now' = now \/ now' = now + 1)
    BY <1>2 DEF AddUsage, LoadSlice, PutBack, MonthEnds, ResetBegins, ResetWipes, vars
  <2>2. past.overlap => past'.overlap
    BY <1>0 DEF Growing
  <2>3. 1 .. now \subseteq 1 .. now'
    BY <1>0, <2>1
  <2>4. QED
    BY <2>1, <2>2, <2>3 DEF OneByOne
<1>3. ASSUME NEW w \in Workers, Ask(w)
      PROVE  OneByOne'
  <2>1. /\ pc' = [pc EXCEPT ![w] = "subscriber"] /\ UNCHANGED <<period, now>>
        /\ past' = [past EXCEPT !.overlap = past.overlap \/ \E v \in Workers \ {w} : pc[v] # "idle"]
    BY <1>3 DEF Ask, Goto
  <2>2. ASSUME ~past'.overlap
        PROVE  \A v \in Workers \ {w} : pc'[v] = "idle"
    BY <1>0, <2>1, <2>2
  <2>3. \A v \in Workers : pc'[v] \notin {"idle", "subscriber", "plan"} => period'[v] \in 1 .. now'
    BY <1>0, <2>1 DEF OneByOne
  <2>4. QED
    BY <2>2, <2>3 DEF OneByOne
<1>4. ASSUME NEW w \in Workers, Serve(w) \/ FailStatement(w)
      PROVE  OneByOne'
  <2>1. pc[w] # "idle" /\ past' = past /\ now' = now
    BY <1>4 DEF Serve, GetSubscriber, GetPlan, ListUsage, RateUsage, SetBillingAmount,
                CarrierLookup, FailStatement, Kind
  <2>2. \A v \in Workers \ {w} : pc'[v] = pc[v] /\ period'[v] = period[v]
    BY <1>0, <1>4 DEF Serve, GetSubscriber, GetPlan, ListUsage, RateUsage, SetBillingAmount,
                CarrierLookup, FailStatement, Answer, Goto
  <2>3. ASSUME NEW code, Answer(w, code)
        PROVE  pc'[w] = "idle"
    BY <1>0, <2>3 DEF Answer, Goto
  <2>4. pc'[w] \notin {"idle", "subscriber", "plan"} => period'[w] \in 1 .. now
    <3>1. CASE GetSubscriber(w)
      BY <1>0, <2>3, <3>1 DEF GetSubscriber, Goto
    <3>2. CASE GetPlan(w)
      <4>1. now \in 1 .. now
        BY <1>0
      <4>2. QED
        BY <1>0, <2>3, <3>2, <4>1 DEF GetPlan, Goto
    <3>3. CASE ListUsage(w) \/ RateUsage(w) \/ SetBillingAmount(w)
      <4>1. period' = period /\ pc[w] \notin {"idle", "subscriber", "plan"}
        BY <3>3 DEF ListUsage, RateUsage, SetBillingAmount, Kind
      <4>2. QED
        BY <4>1 DEF OneByOne
    <3>4. CASE CarrierLookup(w) \/ FailStatement(w)
      BY <2>3, <3>4 DEF CarrierLookup, FailStatement
    <3>5. QED
      BY <1>4, <3>1, <3>2, <3>3, <3>4 DEF Serve
  <2>5. \A v, u \in Workers : ~past.overlap /\ v # u => pc'[v] = "idle" \/ pc'[u] = "idle"
    BY <2>1, <2>2 DEF OneByOne
  <2>6. \A v \in Workers : pc'[v] \notin {"idle", "subscriber", "plan"} => period'[v] \in 1 .. now'
    BY <2>1, <2>2, <2>4 DEF OneByOne
  <2>7. QED
    BY <2>1, <2>5, <2>6 DEF OneByOne
<1>5. QED
  BY <1>2, <1>3, <1>4 DEF Next, Quiet

\* A goroutine that sets the gauge in a serial run raises it, if at all.
LEMMA GaugeRises ==
    ASSUME Charges, ReadsInv, AmountsOK, RatedOK, OneByOne, GaugeOK, Serial,
           NEW w \in Workers, SetBillingAmount(w)
    PROVE  gauge' >= gauge /\ gauge' <= Exact(InPeriod(past.stored, 1))
<1>1. pc[w] = "gauge" /\ gauge' = invoice[w].total
  BY DEF SetBillingAmount
<1>2. period[w] = 1
  BY <1>1 DEF OneByOne, Serial
<1>3. /\ invoice[w].total \in Int /\ Exact(floor[w]) \in Int
      /\ Exact(floor[w]) <= invoice[w].total
      /\ invoice[w].total <= Exact(InPeriod(past.stored, 1))
  <2>1. floor[w] \ past.gone = floor[w]
    BY DEF Serial
  <2>2. QED
    BY <1>1, <1>2, <2>1, RatedExactly DEF Serial
<1>4. gauge <= Exact(floor[w]) /\ gauge \in Int
  BY <1>1, WidthAssumption DEF GaugeOK, Reading, AmountsOK, Int64
<1>5. QED
  BY <1>1, <1>3, <1>4

\* Every step keeps the gauge below.
LEMMA NextGauge ==
    ASSUME Charges, ReadsInv, ReadsInv', AmountsOK, AmountsOK', RatedOK, OneByOne, GaugeOK,
           [Next]_vars
    PROVE  GaugeOK'
<1> USE DEF locals, store
<1> SUFFICES ASSUME Serial'
             PROVE  /\ gauge' <= Exact(InPeriod(past'.stored, 1))
                    /\ \A w \in Workers : Reading(w)' => gauge' <= Exact(floor'[w])
  BY DEF GaugeOK
<1>1. Serial /\ InPeriod(past.stored, 1) \in SUBSET InPeriod(past'.stored, 1)
  BY SerialBefore
<1>2. /\ gauge <= Exact(InPeriod(past.stored, 1)) /\ gauge \in Int
      /\ \A w \in Workers : Reading(w) => gauge <= Exact(floor[w])
  BY <1>1, WidthAssumption DEF GaugeOK, AmountsOK, Int64
<1>3. /\ Exact(InPeriod(past.stored, 1)) \in Int /\ Exact(InPeriod(past'.stored, 1)) \in Int
      /\ Exact(InPeriod(past.stored, 1)) <= Exact(InPeriod(past'.stored, 1))
  <2>1. PICK rows, some : rows = InPeriod(past'.stored, 1) /\ some = InPeriod(past.stored, 1)
    OBVIOUS
  <2>2. rows \in SUBSET past'.stored /\ past'.stored \in SUBSET Record /\ IsFiniteSet(past'.stored)
    BY <2>1 DEF InPeriod, ReadsInv, StoredOK
  <2>3. rows \in SUBSET Record /\ IsFiniteSet(rows)
    BY <2>2, FS_Subset
  <2>4. QED
    BY <1>1, <2>1, <2>3, ExactGrows
<1>4. pc \in [Workers -> Step]
  BY DEF ReadsInv
<1>5. ASSUME gauge' = gauge,
             \A w \in Workers : Reading(w)' => Reading(w) /\ floor'[w] = floor[w]
      PROVE  /\ gauge' <= Exact(InPeriod(past'.stored, 1))
             /\ \A w \in Workers : Reading(w)' => gauge' <= Exact(floor'[w])
  BY <1>2, <1>3, <1>5
<1>6. CASE AddUsage \/ LoadSlice \/ PutBack \/ MonthEnds \/ ResetBegins \/ ResetWipes \/ UNCHANGED vars
  <2>1. UNCHANGED <<gauge, pc, floor>>
    BY <1>6 DEF AddUsage, LoadSlice, PutBack, MonthEnds, ResetBegins, ResetWipes, vars
  <2>2. QED
    BY <1>5, <2>1 DEF Reading
<1>7. ASSUME NEW w \in Workers, NEW code, Answer(w, code), gauge' = gauge
      PROVE  \A v \in Workers : Reading(v)' => Reading(v) /\ floor'[v] = floor[v]
  BY <1>4, <1>7 DEF Answer, Goto, Reading, ReadsInv
<1>8. ASSUME NEW w \in Workers,
             Ask(w) \/ GetSubscriber(w) \/ GetPlan(w) \/ FailStatement(w) \/ CarrierLookup(w)
      PROVE  /\ gauge' <= Exact(InPeriod(past'.stored, 1))
             /\ \A v \in Workers : Reading(v)' => gauge' <= Exact(floor'[v])
  <2>1. gauge' = gauge
    BY <1>8 DEF Ask, GetSubscriber, GetPlan, FailStatement, CarrierLookup
  <2>2. CASE \E code : Answer(w, code)
    BY <1>5, <1>7, <2>1, <2>2
  <2>3. CASE ~ \E code : Answer(w, code)
    <3>1. PICK step \in {"subscriber", "plan", "voice"} :
              pc' = [pc EXCEPT ![w] = step] /\ floor' = floor
      BY <1>8, <2>3 DEF Ask, GetSubscriber, GetPlan, FailStatement, CarrierLookup, Goto
    <3>2. QED
      BY <1>4, <1>5, <2>1, <3>1 DEF Reading
  <2>4. QED
    BY <2>2, <2>3
<1>9. ASSUME NEW w \in Workers, ListUsage(w)
      PROVE  /\ gauge' <= Exact(InPeriod(past'.stored, 1))
             /\ \A v \in Workers : Reading(v)' => gauge' <= Exact(floor'[v])
  <2>1. /\ UNCHANGED <<gauge, past, usage, period>>
        /\ pc' = [pc EXCEPT ![w] = usageKinds[pc[w]]]
        /\ floor' = [floor EXCEPT ![w] = IF pc[w] = "voice" THEN InPeriod(usage, period[w]) ELSE floor[w]]
    BY <1>9 DEF ListUsage, Goto
  <2>2. pc[w] \in Kind /\ DOMAIN floor = Workers
    BY <1>9 DEF ListUsage, ReadsInv
  <2>3. \A v \in Workers \ {w} : Reading(v)' => Reading(v) /\ floor'[v] = floor[v]
    BY <1>4, <2>1 DEF Reading
  <2>4. CASE pc[w] = "voice"
    <3>1. period[w] = 1 /\ usage = past.stored
      BY <1>1, <2>4 DEF OneByOne, Serial, ReadsInv, StoredOK
    <3>2. floor'[w] = InPeriod(past.stored, 1)
      BY <2>1, <2>2, <2>4, <3>1
    <3>3. QED
      BY <1>2, <1>3, <2>1, <2>3, <3>2
  <2>5. CASE pc[w] # "voice"
    <3>1. Reading(w) /\ floor'[w] = floor[w]
      BY <2>1, <2>2, <2>5 DEF Reading, Kind
    <3>2. QED
      BY <1>5, <2>1, <2>3, <3>1
  <2>6. QED
    BY <2>4, <2>5
<1>10. ASSUME NEW w \in Workers, RateUsage(w)
       PROVE  /\ gauge' <= Exact(InPeriod(past'.stored, 1))
              /\ \A v \in Workers : Reading(v)' => gauge' <= Exact(floor'[v])
  <2>1. UNCHANGED <<gauge, floor>> /\ pc[w] = "rate" /\ pc' = [pc EXCEPT ![w] = "gauge"]
    BY <1>10 DEF RateUsage, Goto
  <2>2. QED
    BY <1>4, <1>5, <2>1 DEF Reading
<1>11. ASSUME NEW w \in Workers, SetBillingAmount(w)
       PROVE  /\ gauge' <= Exact(InPeriod(past'.stored, 1))
              /\ \A v \in Workers : Reading(v)' => gauge' <= Exact(floor'[v])
  <2>1. gauge' <= Exact(InPeriod(past.stored, 1)) /\ past' = past
    BY <1>1, <1>11, GaugeRises DEF SetBillingAmount
  <2>2. pc[w] = "gauge" /\ pc' = [pc EXCEPT ![w] = "carrier"]
    BY <1>11 DEF SetBillingAmount, Goto
  <2>3. \A v \in Workers \ {w} : pc[v] = "idle"
    BY <1>1, <2>2 DEF OneByOne, Serial
  <2>4. \A v \in Workers : ~Reading(v)'
    BY <1>4, <2>2, <2>3 DEF Reading
  <2>5. QED
    BY <2>1, <2>4
<1>12. QED
  BY <1>6, <1>8, <1>9, <1>10, <1>11 DEF Next, Serve, Quiet

\* With either backend, while no record is taken out, no month ends and invoices
\* do not overlap, the gauge of a subscriber never falls, for a plan that charges
\* and usage that fits.
THEOREM GaugeNeverFalls ==
    ASSUME Charges, ThePlan.price >= 0
    PROVE  Spec => SerialGauge
<1>1. Init => OneByOne
  BY DEF Init, OneByOne
<1>2. Spec => []OneByOne
  BY <1>1, NextOneByOne, ReadsInvariant, AmountsInvariant, PTL DEF Spec
<1>3. ASSUME Init
      PROVE  GaugeOK
  <2>1. gauge = 0 /\ InPeriod(past.stored, 1) = {} /\ \A w \in Workers : ~Reading(w)
    BY <1>3 DEF Init, InPeriod, Reading
  <2>2. {} \in SUBSET Record /\ IsFiniteSet({}) /\ {} \in SUBSET {}
    BY FS_EmptySet
  <2>3. PICK e \in Int : e = Exact({}) /\ ThePlan.price <= e
    BY <2>2, ExactGrows
  <2>4. ThePlan.price \in Int
    BY PlanType DEF Kind
  <2>5. QED
    BY <2>1, <2>3, <2>4 DEF GaugeOK
<1>4. ReadsInv /\ ReadsInv' /\ AmountsOK /\ AmountsOK' /\ RatedOK /\ OneByOne /\ GaugeOK /\ [Next]_vars
        => GaugeOK'
  BY NextGauge
<1>5. Spec => []GaugeOK
  BY <1>2, <1>3, <1>4, ReadsInvariant, AmountsInvariant, RatedInvariant, PTL DEF Spec
<1>6. ASSUME ReadsInv, ReadsInv', AmountsOK, AmountsOK', RatedOK, OneByOne, GaugeOK, [Next]_vars,
             past'.gone = {}, ~past'.overlap, now' = 1, Fits(InPeriod(past'.stored, 1))
      PROVE  gauge' >= gauge
  <2>1. Serial
    BY <1>6, SerialBefore DEF Serial
  <2>2. ASSUME NEW w \in Workers, SetBillingAmount(w)
        PROVE  gauge' >= gauge
    BY <1>6, <2>1, <2>2, GaugeRises
  <2>3. gauge' = gauge \/ \E w \in Workers : SetBillingAmount(w)
    BY <1>6 DEF Next, AddUsage, LoadSlice, PutBack, MonthEnds, ResetBegins, ResetWipes,
           Ask, Serve, GetSubscriber, GetPlan,
           ListUsage, RateUsage, CarrierLookup, FailStatement, Quiet, vars
  <2>4. gauge \in Int
    BY <1>6, WidthAssumption DEF AmountsOK, Int64
  <2>5. QED
    BY <2>2, <2>3, <2>4
<1>7. ReadsInv /\ ReadsInv' /\ AmountsOK /\ AmountsOK' /\ RatedOK /\ OneByOne /\ GaugeOK /\ [Next]_vars
        => [(/\ past'.gone = {} /\ ~past'.overlap /\ now' = 1
             /\ Fits(InPeriod(past'.stored, 1)))
                => gauge' >= gauge]_vars
  BY <1>6
<1>8. QED
  BY <1>2, <1>5, <1>7, ReadsInvariant, AmountsInvariant, RatedInvariant, PTL DEF Spec, SerialGauge

====

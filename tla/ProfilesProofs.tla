--------------------------- MODULE ProfilesProofs ---------------------------
(***************************************************************************)
(* What Profiles keeps for any number of profiles, names and gateways and  *)
(* any sequence of handlers, crashes and failed writes.                    *)
(***************************************************************************)
EXTENDS Profiles, FiniteSetTheorems, SequenceTheorems, WellFoundedInduction, TLAPS

\* A file holds its own profile; one that was truncated and never written holds a second default profile.
IdFits(p) == p.id \in {p.file, Default} /\ (p.file = Default => p.id = Default)

\* Names of files that were given out.
GivenOut == used \cup {Default}

\* No two profiles in memory share a file; profiles and files have the identifiers and names they were given.
StoreFits ==
    /\ \A i \in DOMAIN store : IdFits(store[i]) /\ store[i].file \in GivenOut
    /\ \A i, j \in DOMAIN store : store[i].file = store[j].file => i = j

FilesFit ==
    \A f \in AllIds :
        /\ files[f].state # "missing" => f \in GivenOut
        /\ files[f].state = "whole" => files[f].with.file = f /\ IdFits(files[f].with)

\* The profile that a file holds, if it holds one, is the one in memory, ...
KeepsId(p) == files[p.file].state = "whole" => files[p.file].with.id = p.id
IdsKept == \A i \in DOMAIN store : KeepsId(store[i])

\* ... and the files of the directory are known to the memory, but for those that could not be removed.
At(dos) == work # <<>> /\ Head(work).do \in dos
FilesKnown ==
    running => \A f \in AllIds : files[f].state # "missing" /\ f \notin lost =>
                   \/ \E i \in DOMAIN store : store[i].file = f
                   \/ At({"write", "put", "unlink"}) /\ Subject.file = f

-----------------------------------------------------------------------------
(* The calls that a handler has still to make *)

Saves == {"truncate", "write", "put"}

\* A save writes the file of the profile that it replaces, or one that is nobody's.
SaveFits(p) ==
    /\ IdFits(p) /\ p.file \in GivenOut /\ KeepsId(p)
    /\ IF IsIn(p.id, store) THEN Get(p.id, store).file = p.file
       ELSE \A i \in DOMAIN store : store[i].file # p.file

ToSave == {work[i].with : i \in {j \in DOMAIN work : work[j].do \in Saves}}

WorkFits ==
    /\ \A p \in ToSave : SaveFits(p)
    /\ At({"unlink"}) => \A i \in DOMAIN store : store[i].file # Subject.file
    /\ At({"put"}) => files[Subject.file] = Whole(Subject) \/ Subject.file \in lost

\* Only the first call has begun; a save after it is of a profile in memory, which keeps its name.
WorkShape ==
    /\ \A i \in DOMAIN work : work[i].do \in Saves \cup {"unlink", "clear", "order", "forget"}
    /\ \A i \in DOMAIN work : i > 1 =>
           /\ work[i].do \in {"truncate", "forget"}
           /\ work[i].do = "truncate" =>
                  /\ IsIn(work[i].with.id, store) /\ Get(work[i].with.id, store).name = work[i].with.name
                  /\ work[i].with.id # Subject.id \/ Head(work).do = "forget"
    /\ \A i, j \in DOMAIN work :
           1 < i /\ 1 < j /\ work[i].do = "truncate" /\ work[j].do = "truncate" => i = j

\* Without a program there is no memory of it.
Stopped == ~running => store = <<>> /\ work = <<>> /\ form = NoForm /\ fetches = {}

-----------------------------------------------------------------------------
(* What the window shows, and the order of the files *)

\* The rows of the memory once the handler has ended.
Settled == IF At(Saves) THEN Put(Subject, store) ELSE store
RowsOf(rows, s) ==
    /\ Distinct(s) => rows \in {Rows(s), Without(Default, Rows(s))}
    /\ \A k \in DOMAIN rows : IsIn(rows[k].id, s)
    /\ \A k, l \in DOMAIN rows : rows[k].id = rows[l].id => k = l \/ rows[k].id = Default
RowsFit == form.open => RowsOf(form.rows, Settled)

OwnerFits == form.open /\ form.index \in DOMAIN form.rows /\ ~form.dropped => form.owner = Selected(form)

\* The order file says the order of the memory, as far as it goes.
Agrees ==
    \A i, j \in DOMAIN store :
        i < j /\ Known(store[j].id) => Known(store[i].id) /\ Place(store[i].id) < Place(store[j].id)
OrderFits == running /\ ~At({"unlink", "clear", "order"}) /\ Distinct(store) /\ ~astray => Agrees

Kept ==
    /\ StoreFits /\ FilesFit /\ IdsKept /\ FilesKnown /\ WorkFits /\ WorkShape /\ Stopped
    /\ RowsFit /\ OwnerFits /\ OrderFits /\ FilesHoldStore

-----------------------------------------------------------------------------
(* Sequences of things with identifiers *)

\* A set of places has a first one.
LEMMA FirstOf ==
    ASSUME NEW n \in Nat, NEW S \in SUBSET (1..n), S # {}
    PROVE  \E i \in S : \A j \in S : i <= j
<1> DEFINE upTo == {1..i : i \in S}
<1>1. IsFiniteSet(1..n)
  BY FS_Interval
<1>2. upTo \subseteq FiniteSubsetsOf(1..n) /\ upTo # {}
  <2>1. \A i \in S : 1..i \in SUBSET (1..n)
    OBVIOUS
  <2>2. FiniteSubsetsOf(1..n) = SUBSET (1..n)
    BY <1>1, FS_FiniteSubsetsOfFinite
  <2>3. upTo \subseteq SUBSET (1..n)
    BY <2>1
  <2>4. upTo # {}
    OBVIOUS
  <2> HIDE DEF upTo
  <2>5. QED
    BY <2>2, <2>3, <2>4
<1> HIDE DEF upTo
<1>3. PICK x \in upTo : \A y \in upTo : <<y, x>> \notin StrictSubsetOrdering(1..n)
  BY <1>2, FS_StrictSubsetOrderingWellFounded, WFMin
<1>4. PICK i \in S : x = 1..i
  BY <1>3 DEF upTo
<1>5. ASSUME NEW j \in S, j < i PROVE FALSE
  <2>1. 1..j \in upTo
    BY DEF upTo
  <2>2. 1..j \subseteq 1..i /\ 1..j # 1..i
    <3>1. i \in 1..i /\ i \notin 1..j
      BY <1>5
    <3>2. QED
      BY <1>5, <3>1
  <2>3. 1..j \in SUBSET (1..n) /\ 1..i \in SUBSET (1..n)
    OBVIOUS
  <2>4. <<1..j, 1..i>> \in StrictSubsetOrdering(1..n)
    BY <2>2, <2>3 DEF StrictSubsetOrdering
  <2>5. QED
    BY <1>3, <1>4, <2>1, <2>4
<1>6. QED
  BY <1>5

\* find: the place of an identifier that occurs is that of its first occurrence.
LEMMA PositionIsFirst ==
    ASSUME NEW T, NEW s \in Seq(T), NEW id, IsIn(id, s)
    PROVE  /\ Position(id, s) \in DOMAIN s /\ s[Position(id, s)].id = id
           /\ \A j \in 1..(Position(id, s) - 1) : s[j].id # id
<1> DEFINE S == {i \in DOMAIN s : s[i].id = id}
<1>1. Len(s) \in Nat /\ DOMAIN s = 1..Len(s)
  OBVIOUS
<1>2. S \in SUBSET (1..Len(s)) /\ S # {}
  BY <1>1 DEF IsIn
<1>3. PICK i \in S : \A j \in S : i <= j
  BY <1>1, <1>2, FirstOf
<1>4. i \in DOMAIN s /\ s[i].id = id /\ \A j \in 1..(i - 1) : s[j].id # id
  BY <1>1, <1>3
<1>5. QED
  BY <1>4 DEF Position

\* Where an identifier occurs once, that is its place.
LEMMA PositionIsIt ==
    ASSUME NEW T, NEW s \in Seq(T), Distinct(s), NEW i \in DOMAIN s
    PROVE  IsIn(s[i].id, s) /\ Position(s[i].id, s) = i
<1>1. IsIn(s[i].id, s)
  BY DEF IsIn
<1>2. QED
  BY <1>1, PositionIsFirst DEF Distinct

\* The place of an identifier in the order file is that of its first line.
LEMMA PlaceIsFirst ==
    ASSUME NEW T, order \in Seq(T), NEW id, Known(id)
    PROVE  /\ Place(id) \in DOMAIN order /\ order[Place(id)] = id
           /\ \A j \in 1..(Place(id) - 1) : order[j] # id
<1> DEFINE S == {i \in DOMAIN order : order[i] = id}
<1>1. Len(order) \in Nat /\ DOMAIN order = 1..Len(order)
  OBVIOUS
<1>2. S \in SUBSET (1..Len(order)) /\ S # {}
  BY <1>1 DEF Known, Range1
<1>3. PICK i \in S : \A j \in S : i <= j
  BY <1>1, <1>2, FirstOf
<1>4. i \in DOMAIN order /\ order[i] = id /\ \A j \in 1..(i - 1) : order[j] # id
  BY <1>1, <1>3
<1>5. QED
  BY <1>4 DEF Place

\* What is left of s without its k-th element.
Cut(s, k) == [i \in 1..(Len(s) - 1) |-> IF i < k THEN s[i] ELSE s[i + 1]]

LEMMA RemoveAtCuts ==
    ASSUME NEW T, NEW s \in Seq(T), NEW k \in DOMAIN s
    PROVE  RemoveAt(s, k) = Cut(s, k) /\ Cut(s, k) \in Seq(T) /\ Len(Cut(s, k)) = Len(s) - 1
<1>1. Len(s) \in Nat \ {0} /\ k \in 1..Len(s)
  OBVIOUS
<1>2. Cut(s, k) \in [1..(Len(s) - 1) -> T]
  BY <1>1 DEF Cut
<1>3. Cut(s, k) \in Seq(T) /\ Len(Cut(s, k)) = Len(s) - 1
  BY <1>1, <1>2
<1>4. DEFINE a == SubSeq(s, 1, k - 1)
             b == SubSeq(s, k + 1, Len(s))
<1>5. a \in Seq(T) /\ Len(a) = k - 1 /\ \A i \in 1..(k - 1) : a[i] = s[i]
  BY <1>1
<1>6. b \in Seq(T) /\ Len(b) = Len(s) - k /\ \A i \in 1..(Len(s) - k) : b[i] = s[k + i]
  BY <1>1
<1> HIDE DEF a, b
<1>7. a \o b \in Seq(T) /\ Len(a \o b) = Len(s) - 1
  BY <1>1, <1>5, <1>6
<1>8. \A i \in 1..(Len(s) - 1) : (a \o b)[i] = Cut(s, k)[i]
  BY <1>1, <1>5, <1>6 DEF Cut
<1>9. a \o b = Cut(s, k)
  BY <1>3, <1>7, <1>8, <1>1, SeqEqual
<1>10. QED
  BY <1>3, <1>9 DEF RemoveAt, a, b

LEMMA PutBetween ==
    ASSUME NEW T, NEW a \in Seq(T), NEW x \in T, NEW b \in Seq(T)
    PROVE  /\ (a \o <<x>>) \o b \in Seq(T) /\ Len((a \o <<x>>) \o b) = Len(a) + 1 + Len(b)
           /\ \A i \in 1..(Len(a) + 1 + Len(b)) : ((a \o <<x>>) \o b)[i] =
                  IF i <= Len(a) THEN a[i] ELSE IF i = Len(a) + 1 THEN x ELSE b[i - Len(a) - 1]
<1>1. Len(a) \in Nat /\ Len(b) \in Nat
  OBVIOUS
<1>2. PICK c : c = Append(a, x)
  OBVIOUS
<1>3. a \o <<x>> = c
  BY <1>2, AppendIsConcat
<1>4. c \in Seq(T) /\ Len(c) = Len(a) + 1
  BY <1>1, <1>2
<1>5. \A i \in 1..(Len(a) + 1) : c[i] = IF i <= Len(a) THEN a[i] ELSE x
  BY <1>1, <1>2
<1>6. c \o b \in Seq(T) /\ Len(c \o b) = Len(a) + 1 + Len(b)
  BY <1>1, <1>4
<1>7. \A i \in 1..(Len(a) + 1 + Len(b)) : (c \o b)[i] = IF i <= Len(a) + 1 THEN c[i] ELSE b[i - Len(a) - 1]
  BY <1>1, <1>4
<1>8. \A i \in 1..(Len(a) + 1 + Len(b)) :
          (c \o b)[i] = IF i <= Len(a) THEN a[i] ELSE IF i = Len(a) + 1 THEN x ELSE b[i - Len(a) - 1]
  <2>1. SUFFICES ASSUME NEW i \in 1..(Len(a) + 1 + Len(b))
                 PROVE (c \o b)[i] = IF i <= Len(a) THEN a[i] ELSE IF i = Len(a) + 1 THEN x ELSE b[i - Len(a) - 1]
    OBVIOUS
  <2>2. CASE i \in 1..(Len(a) + 1)
    <3>1. i <= Len(a) + 1
      BY <1>1, <2>2
    <3>2. (c \o b)[i] = c[i]
      BY <1>7, <3>1
    <3>3. c[i] = IF i <= Len(a) THEN a[i] ELSE x
      BY <1>5, <2>2
    <3>4. ~(i <= Len(a)) => i = Len(a) + 1
      BY <1>1, <2>2
    <3>5. QED
      BY <3>2, <3>3, <3>4
  <2>3. CASE i \notin 1..(Len(a) + 1)
    <3>1. ~(i <= Len(a) + 1) /\ ~(i <= Len(a)) /\ i # Len(a) + 1
      BY <1>1, <2>1, <2>3
    <3>2. QED
      BY <1>7, <3>1
  <2>4. QED
    BY <2>2, <2>3
<1>9. QED
  BY <1>3, <1>6, <1>8

\* Where an element goes when the one at from is moved to to, read backwards.
From(i, from, to) ==
    IF i = to THEN from
    ELSE IF i < to THEN (IF i < from THEN i ELSE i + 1) ELSE (IF i - 1 < from THEN i - 1 ELSE i)

LEMMA MovedIs ==
    ASSUME NEW T, NEW s \in Seq(T), NEW from \in DOMAIN s, NEW to \in DOMAIN s
    PROVE  /\ Moved(s, from, to) \in Seq(T) /\ Len(Moved(s, from, to)) = Len(s)
           /\ \A i \in DOMAIN s : From(i, from, to) \in DOMAIN s /\ Moved(s, from, to)[i] = s[From(i, from, to)]
<1> DEFINE r == Cut(s, from)
<1>1. Len(s) \in Nat \ {0} /\ from \in 1..Len(s) /\ to \in 1..Len(s) /\ DOMAIN s = 1..Len(s) /\ s[from] \in T
  OBVIOUS
<1>2. r \in Seq(T) /\ Len(r) = Len(s) - 1
  BY RemoveAtCuts
<1>3. \A i \in 1..(Len(s) - 1) : r[i] = IF i < from THEN s[i] ELSE s[i + 1]
  BY DEF Cut
<1>4. Moved(s, from, to) = (SubSeq(r, 1, to - 1) \o <<s[from]>>) \o SubSeq(r, to, Len(r))
  BY RemoveAtCuts DEF Moved, InsertAt
<1> HIDE DEF r
<1>a. PICK a, b, x : a = SubSeq(r, 1, to - 1) /\ b = SubSeq(r, to, Len(r)) /\ x = s[from]
  OBVIOUS
<1>5. a \in Seq(T) /\ Len(a) = to - 1 /\ \A i \in 1..(to - 1) : a[i] = r[i]
  BY <1>1, <1>2, <1>a
<1>6. b \in Seq(T) /\ Len(b) = Len(s) - to /\ \A i \in 1..(Len(s) - to) : b[i] = r[to + i - 1]
  BY <1>1, <1>2, <1>a
<1>b. x \in T /\ Moved(s, from, to) = (a \o <<x>>) \o b
  BY <1>1, <1>4, <1>a
<1>c. a \in Seq(T) /\ b \in Seq(T) /\ x \in T
  BY <1>5, <1>6, <1>b
<1>d. /\ (a \o <<x>>) \o b \in Seq(T) /\ Len((a \o <<x>>) \o b) = Len(a) + 1 + Len(b)
      /\ \A i \in 1..(Len(a) + 1 + Len(b)) : ((a \o <<x>>) \o b)[i] =
             IF i <= Len(a) THEN a[i] ELSE IF i = Len(a) + 1 THEN x ELSE b[i - Len(a) - 1]
  BY <1>c, PutBetween
<1>7. Moved(s, from, to) \in Seq(T) /\ Len(Moved(s, from, to)) = Len(a) + 1 + Len(b)
  BY <1>b, <1>d
<1>8. Len(a) + 1 + Len(b) = Len(s)
  BY <1>1, <1>5, <1>6
<1>9. \A i \in 1..Len(s) : Moved(s, from, to)[i] =
          IF i <= to - 1 THEN a[i] ELSE IF i = to THEN s[from] ELSE b[i - to]
  <2>1. \A i \in 1..(Len(a) + 1 + Len(b)) : Moved(s, from, to)[i] =
            IF i <= Len(a) THEN a[i] ELSE IF i = Len(a) + 1 THEN s[from] ELSE b[i - Len(a) - 1]
    BY <1>a, <1>b, <1>d
  <2>2. Len(a) + 1 = to /\ \A i \in 1..Len(s) : i - Len(a) - 1 = i - to
    BY <1>1, <1>5
  <2>3. QED
    BY <1>1, <1>5, <1>8, <2>1, <2>2
<1>10. ASSUME NEW i \in 1..Len(s)
       PROVE  From(i, from, to) \in 1..Len(s) /\ Moved(s, from, to)[i] = s[From(i, from, to)]
  <2>1. CASE i < to
    BY <1>1, <1>3, <1>5, <1>9, <2>1 DEF From
  <2>2. CASE i = to
    BY <1>1, <1>9, <2>2 DEF From
  <2>3. CASE i > to
    <3>1. i - to \in 1..(Len(s) - to) /\ i - 1 \in 1..(Len(s) - 1) /\ to + (i - to) - 1 = i - 1
      BY <1>1, <2>3
    <3>2. b[i - to] = r[i - 1]
      BY <1>6, <3>1
    <3>3. Moved(s, from, to)[i] = r[i - 1]
      BY <1>1, <1>9, <2>3, <3>2
    <3>4. QED
      BY <1>1, <1>3, <2>3, <3>1, <3>3 DEF From
  <2>4. QED
    BY <1>1, <2>1, <2>2, <2>3
<1>11. QED
  BY <1>1, <1>7, <1>8, <1>10

\* Nothing is lost in the move, or doubled.
LEMMA FromIsOneToOne ==
    ASSUME NEW n \in Nat, NEW from \in 1..n, NEW to \in 1..n
    PROVE  /\ \A i, j \in 1..n : From(i, from, to) = From(j, from, to) => i = j
           /\ \A i \in 1..n : From(i, to, from) \in 1..n /\ From(From(i, to, from), from, to) = i
  BY DEF From


-----------------------------------------------------------------------------
(* What a filter, a save and a load make of the profiles *)

\* retain does not touch a sequence without the identifier ...
LEMMA WithoutNone ==
    ASSUME NEW T, NEW s \in Seq(T), NEW id, ~IsIn(id, s)
    PROVE  Without(id, s) = s
<1>1. Len(s) \in Nat /\ DOMAIN s = 1..Len(s)
  OBVIOUS
<1>2. {i \in DOMAIN s : s[i].id # id} = 1..Len(s)
  BY <1>1 DEF IsIn
<1>3. Cardinality(1..Len(s)) = Len(s)
  BY <1>1, FS_Interval
<1>4. ASSUME NEW n \in 1..Len(s) PROVE Nth(n, 1..Len(s)) = n
  <2>1. ASSUME NEW i \in 1..Len(s) PROVE Cardinality({j \in 1..Len(s) : j <= i}) = i
    <3>1. {j \in 1..Len(s) : j <= i} = 1..i
      BY <1>1
    <3>2. Cardinality(1..i) = i
      BY <1>1, FS_Interval
    <3>3. QED
      BY <3>1, <3>2
  <2>2. QED
    BY <2>1 DEF Nth
<1>5. Without(id, s) = [n \in 1..Len(s) |-> s[Nth(n, 1..Len(s))]]
  BY <1>2, <1>3 DEF Without
<1>6. QED
  BY <1>1, <1>4, <1>5

\* ... and takes the element out if there is one.
LEMMA WithoutOne ==
    ASSUME NEW T, NEW s \in Seq(T), NEW k \in DOMAIN s, \A j \in DOMAIN s : s[j].id = s[k].id => j = k
    PROVE  Without(s[k].id, s) = Cut(s, k)
<1> DEFINE kept == (1..Len(s)) \ {k}
           upTo(i) == {j \in kept : j <= i}
<1>1. Len(s) \in Nat \ {0} /\ DOMAIN s = 1..Len(s) /\ k \in 1..Len(s)
  OBVIOUS
<1>2. {i \in DOMAIN s : s[i].id # s[k].id} = kept
  BY <1>1
<1>3. IsFiniteSet(1..Len(s)) /\ Cardinality(1..Len(s)) = Len(s)
  BY <1>1, FS_Interval
<1>4. Cardinality(kept) = Len(s) - 1
  <2>1. k \in 1..Len(s) /\ IsFiniteSet(1..Len(s))
    BY <1>1, <1>3
  <2>2. Cardinality((1..Len(s)) \ {k}) = Cardinality(1..Len(s)) - 1
    BY <2>1, FS_RemoveElement
  <2>3. QED
    BY <1>3, <2>2
<1>5. ASSUME NEW i \in kept PROVE Cardinality(upTo(i)) = IF i < k THEN i ELSE i - 1
  <2>1. IsFiniteSet(1..i) /\ Cardinality(1..i) = i /\ i \in 1..Len(s)
    BY <1>1, FS_Interval
  <2>2. CASE i < k
    <3>1. upTo(i) = 1..i
      BY <1>1, <2>1, <2>2
    <3>2. QED
      BY <2>1, <2>2, <3>1
  <2>3. CASE ~(i < k)
    <3>1. upTo(i) = (1..i) \ {k} /\ k \in 1..i
      BY <1>1, <2>1, <2>3
    <3>2. Cardinality((1..i) \ {k}) = i - 1
      BY <2>1, <3>1, FS_RemoveElement
    <3>3. QED
      BY <2>3, <3>1, <3>2
  <2>4. QED
    BY <2>2, <2>3
<1>6. ASSUME NEW n \in 1..(Len(s) - 1) PROVE Nth(n, kept) = IF n < k THEN n ELSE n + 1
  <2> DEFINE m == IF n < k THEN n ELSE n + 1
  <2>1. m \in kept /\ Cardinality(upTo(m)) = n
    <3>1. m \in kept
      BY <1>1
    <3>2. QED
      BY <1>1, <1>5, <3>1
  <2>2. ASSUME NEW i \in kept, Cardinality(upTo(i)) = n PROVE i = m
    <3>1. n = IF i < k THEN i ELSE i - 1
      BY <1>5, <2>2
    <3>2. QED
      BY <1>1, <3>1
  <2> HIDE DEF m
  <2>3. QED
    BY <2>1, <2>2 DEF m, Nth, upTo
<1>7. Without(s[k].id, s) = [n \in 1..(Len(s) - 1) |-> s[Nth(n, kept)]]
  BY <1>2, <1>4 DEF Without
<1> HIDE DEF kept
<1>8. QED
  BY <1>1, <1>6, <1>7 DEF Cut

\* A save changes one profile: the others stay as they are, in their places, ...
LEMMA PutReplaces ==
    ASSUME NEW T, NEW s \in Seq(T), NEW p \in T, IsIn(p.id, s)
    PROVE  /\ Position(p.id, s) \in DOMAIN s /\ s[Position(p.id, s)].id = p.id
           /\ Put(p, s) \in Seq(T) /\ DOMAIN Put(p, s) = DOMAIN s /\ Len(Put(p, s)) = Len(s)
           /\ Put(p, s)[Position(p.id, s)] = p
           /\ \A i \in DOMAIN s : i # Position(p.id, s) => Put(p, s)[i] = s[i]
           /\ \A i \in DOMAIN s : Put(p, s)[i].id = s[i].id
<1>1. Len(s) \in Nat /\ DOMAIN s = 1..Len(s)
  OBVIOUS
<1>2. Position(p.id, s) \in DOMAIN s /\ s[Position(p.id, s)].id = p.id
  BY PositionIsFirst
<1>3. QED
  BY <1>1, <1>2 DEF Put

LEMMA PutAppends ==
    ASSUME NEW T, NEW s \in Seq(T), NEW p \in T, ~IsIn(p.id, s)
    PROVE  /\ Put(p, s) = Append(s, p)
           /\ Put(p, s) \in Seq(T) /\ DOMAIN Put(p, s) = 1..(Len(s) + 1) /\ Len(Put(p, s)) = Len(s) + 1
           /\ Put(p, s)[Len(s) + 1] = p
           /\ \A i \in DOMAIN s : Put(p, s)[i] = s[i]
<1>1. Put(p, s) = Append(s, p)
  BY DEF Put
<1>2. Append(s, p) \in Seq(T) /\ Len(Append(s, p)) = Len(s) + 1 /\ Append(s, p)[Len(s) + 1] = p
      /\ \A i \in DOMAIN s : Append(s, p)[i] = s[i]
  OBVIOUS
<1>3. DOMAIN Append(s, p) = 1..(Len(s) + 1)
  BY <1>2
<1>4. QED
  BY <1>1, <1>2, <1>3

\* ... it can be found afterwards, and so can the others, with what they say.
LEMMA PutFinds ==
    ASSUME NEW T, NEW s \in Seq(T), NEW p \in T, NEW id
    PROVE  /\ IsIn(id, Put(p, s)) <=> IsIn(id, s) \/ id = p.id
           /\ Get(p.id, Put(p, s)) = p
           /\ id # p.id /\ IsIn(id, s) => Get(id, Put(p, s)) = Get(id, s)
<1> DEFINE r == Put(p, s)
<1>1. Len(s) \in Nat /\ DOMAIN s = 1..Len(s)
  OBVIOUS
<1>2. CASE IsIn(p.id, s)
  <2> DEFINE k == Position(p.id, s)
  <2>1. r \in Seq(T)
    BY <1>2, PutReplaces
  <2>2. /\ k \in DOMAIN s /\ DOMAIN r = DOMAIN s /\ r[k] = p /\ s[k].id = p.id
        /\ \A i \in DOMAIN s : i # k => r[i] = s[i]
        /\ \A i \in DOMAIN s : r[i].id = s[i].id
    BY <1>2, PutReplaces
  <2> HIDE DEF k
  <2>3. \A a : IsIn(a, r) <=> IsIn(a, s)
    BY <2>2 DEF IsIn
  <2>4. \A a : Position(a, r) = Position(a, s)
    <3>1. \A a : \A i \in DOMAIN s :
              (r[i].id = a /\ \A j \in 1..(i - 1) : r[j].id # a) <=> (s[i].id = a /\ \A j \in 1..(i - 1) : s[j].id # a)
      <4>1. \A i \in DOMAIN s : \A j \in 1..(i - 1) : j \in DOMAIN s
        BY <1>1
      <4>2. QED
        BY <2>2, <4>1
    <3>2. QED
      BY <2>2, <3>1 DEF Position
  <2>5. id # p.id /\ IsIn(id, s) => Position(id, s) \in DOMAIN s /\ Position(id, s) # k
    BY <2>2, PositionIsFirst DEF k
  <2>6. QED
    BY <1>2, <2>2, <2>3, <2>4, <2>5 DEF Get, k
<1>3. CASE ~IsIn(p.id, s)
  <2>1. /\ Len(r) = Len(s) + 1 /\ r[Len(s) + 1] = p /\ \A i \in DOMAIN s : r[i] = s[i]
        /\ r \in Seq(T) /\ DOMAIN r = 1..(Len(s) + 1)
    BY <1>3, PutAppends
  <2>2. DOMAIN r = 1..(Len(s) + 1) /\ Len(s) + 1 \in DOMAIN r /\ DOMAIN s \subseteq DOMAIN r
        /\ \A i \in DOMAIN r : i \in DOMAIN s \/ i = Len(s) + 1
    BY <1>1, <2>1
  <2>3. \A a : IsIn(a, r) <=> IsIn(a, s) \/ a = p.id
    BY <2>1, <2>2 DEF IsIn
  <2>4. Position(p.id, r) \in DOMAIN r /\ r[Position(p.id, r)].id = p.id
    BY <2>1, <2>3, PositionIsFirst
  <2>5. \A i \in DOMAIN s : r[i].id # p.id
    BY <1>3, <2>1 DEF IsIn
  <2>6. Get(p.id, r) = p
    BY <2>1, <2>2, <2>4, <2>5 DEF Get
  <2>7. ASSUME id # p.id, IsIn(id, s) PROVE Get(id, r) = Get(id, s)
    <3>1. PICK k : k = Position(id, s)
      OBVIOUS
    <3>2. PICK m : m = Position(id, r)
      OBVIOUS
    <3>3. k \in DOMAIN s /\ s[k].id = id /\ \A j \in 1..(k - 1) : s[j].id # id
      BY <2>7, <3>1, PositionIsFirst
    <3>4. m \in DOMAIN r /\ r[m].id = id /\ \A j \in 1..(m - 1) : r[j].id # id
      BY <2>1, <2>3, <2>7, <3>2, PositionIsFirst
    <3>5. m \in DOMAIN s
      BY <2>1, <2>2, <2>7, <3>4
    <3>6. ~(m < k)
      BY <1>1, <2>1, <3>3, <3>4, <3>5
    <3>7. ~(k < m)
      BY <1>1, <2>1, <3>3, <3>4, <3>5
    <3>8. k = m
      BY <1>1, <3>3, <3>5, <3>6, <3>7
    <3>9. QED
      BY <2>1, <3>1, <3>2, <3>3, <3>8 DEF Get
  <2>8. QED
    BY <2>3, <2>6, <2>7
<1>4. QED
  BY <1>2, <1>3

-----------------------------------------------------------------------------
(* Types *)

Calls == Saves \cup {"unlink", "clear", "order", "forget"}
Call == [do : Calls, with : Profile]
Row == [id : AllIds, name : Names \cup {0}]
Request == [server : Servers, login : LoginTypes \cup {NoLogin}]
Window == [open : BOOLEAN, rows : Seq(Row), index : Nat \ {0}, server : Servers \cup {NoServer},
           keychain : BOOLEAN, look : Looks \cup {"plain"}, auth_ids : Seq(LoginTypes),
           auth_type : Nat \ {0}, fetch : BOOLEAN, owner : AllIds, dropped : BOOLEAN]

DiskTypes ==
    /\ files \in [AllIds -> [state : {"missing", "empty", "whole"}, with : Profile]]
    /\ order \in Seq(AllIds)
StoreTypes == store \in Seq(Profile) /\ connected \in AllIds /\ running \in BOOLEAN
WorkTypes == work \in Seq(Call)
FormTypes == form \in Window /\ fetches \subseteq Request
OtherTypes ==
    /\ logins \subseteq AllIds /\ deletions \subseteq AllIds /\ keychain \subseteq AllIds
    /\ used \subseteq Ids /\ lost \subseteq AllIds /\ astray \in BOOLEAN
    /\ changes \in 0..MaxChanges /\ faults \in 0..MaxFaults
Types == DiskTypes /\ StoreTypes /\ WorkTypes /\ FormTypes /\ OtherTypes

LEMMA DefaultParamsType == DefaultParams \in Profile
  BY DEF DefaultParams, Profile, AllIds

\* What a file loads as.
LEMMA LoadIs ==
    ASSUME Types, NEW f \in AllIds
    PROVE  /\ Load(f) \in Profile /\ Load(f).file = f
           /\ Load(f).id = IF files[f].state = "whole" THEN files[f].with.id ELSE Default
<1>1. files[f].with \in Profile
  BY DEF Types, DiskTypes
<1>2. Reread(files[f].with) \in Profile /\ Reread(files[f].with).id = files[f].with.id
  BY <1>1 DEF Reread, Profile
<1>3. DefaultParams \in Profile /\ DefaultParams.id = Default
  BY DefaultParamsType DEF DefaultParams
<1>4. QED
  BY <1>2, <1>3 DEF Load, Profile

Present == {f \in AllIds : files[f].state # "missing"}

\* new_in: what the directory has is loaded, each file once, in the order of Before.
LEMMA LoadsAre ==
    ASSUME Types, NEW s \in Loads
    PROVE  /\ s \in Seq(Profile)
           /\ Present = {} => s = <<DefaultParams>>
           /\ Present # {} =>
                  /\ \A i \in DOMAIN s : s[i].file \in Present /\ s[i] = Load(s[i].file)
                  /\ \A f \in Present : \E i \in DOMAIN s : s[i] = Load(f)
                  /\ \A i, j \in DOMAIN s : s[i].file = s[j].file => i = j
                  /\ \A i, j \in DOMAIN s : i < j => Before(s[i], s[j])
<1> DEFINE loaded == {Load(f) : f \in Present}
<1>1. CASE Present = {}
  <2>1. s = <<DefaultParams>>
    BY <1>1 DEF Loads, Present
  <2>2. QED
    BY <1>1, <2>1, DefaultParamsType
<1>2. CASE Present # {}
  <2>1. loaded # {}
    BY <1>2
  <2>2. s \in SetToSeqs(loaded) /\ \A i, j \in DOMAIN s : i < j => Before(s[i], s[j])
    BY <2>1 DEF Loads, Present
  <2>3. IsFiniteSet(Present)
    <3>1. IsFiniteSet(AllIds)
      BY ProfilesAssumption, FS_AddElement DEF AllIds
    <3>2. QED
      BY <3>1, FS_Subset DEF Present
  <2>4. IsFiniteSet(loaded)
    <3> DEFINE g == [f \in Present |-> Load(f)]
    <3>1. g \in Surjection(Present, loaded)
      BY DEF Surjection
    <3>2. QED
      BY <2>3, <3>1, FS_Surjection
  <2>5. PICK n \in Nat : n = Cardinality(loaded)
    BY <2>4, FS_CardinalityType
  <2>6. s \in [1..n -> loaded] /\ \A i, j \in 1..n : i # j => s[i] # s[j]
    BY <2>2, <2>5 DEF SetToSeqs
  <2>7. \A x \in loaded : \E i \in 1..n : s[i] = x
    <3>1. s \in Injection(1..n, loaded)
      BY <2>6 DEF Injection, IsInjective
    <3>2. Cardinality(1..n) = n
      BY <2>5, FS_Interval
    <3>3. s \in Surjection(1..n, loaded)
      BY <2>4, <2>5, <3>1, <3>2, FS_Injection
    <3>4. QED
      BY <3>3 DEF Surjection
  <2>8. \A x \in loaded : x \in Profile /\ x.file \in Present /\ x = Load(x.file)
    BY LoadIs DEF Present
  <2> HIDE DEF loaded
  <2>9. s \in Seq(Profile) /\ DOMAIN s = 1..n
    BY <2>6, <2>8
  <2>10. \A i \in DOMAIN s : s[i].file \in Present /\ s[i] = Load(s[i].file)
    BY <2>6, <2>8, <2>9
  <2>11. \A f \in Present : \E i \in DOMAIN s : s[i] = Load(f)
    BY <2>7, <2>9 DEF loaded
  <2>12. ASSUME NEW i \in DOMAIN s, NEW j \in DOMAIN s, s[i].file = s[j].file PROVE i = j
    <3>1. s[i] = s[j]
      BY <2>10, <2>12
    <3>2. QED
      BY <2>6, <2>9, <3>1
  <2>13. QED
    BY <1>2, <2>2, <2>9, <2>10, <2>11, <2>12
<1>3. QED
  BY <1>1, <1>2

LEMMA GetType ==
    ASSUME NEW s \in Seq(Profile), NEW id, IsIn(id, s)
    PROVE  /\ Position(id, s) \in DOMAIN s /\ Position(id, s) \in Nat \ {0}
           /\ Get(id, s) \in Profile /\ Get(id, s).id = id /\ Get(id, s) = s[Position(id, s)]
<1>1. Position(id, s) \in DOMAIN s /\ s[Position(id, s)].id = id
  BY PositionIsFirst
<1>2. QED
  BY <1>1 DEF Get

LEMMA RowsType ==
    ASSUME NEW s \in Seq(Profile)
    PROVE  /\ Rows(s) \in Seq(Row) /\ Len(Rows(s)) = Len(s) /\ DOMAIN Rows(s) = DOMAIN s
           /\ \A i \in DOMAIN s : Rows(s)[i].id = s[i].id /\ Rows(s)[i].name = s[i].name
<1>1. Len(s) \in Nat /\ DOMAIN s = 1..Len(s) /\ \A i \in DOMAIN s : s[i] \in Profile
  OBVIOUS
<1>2. Rows(s) \in [1..Len(s) -> Row]
  BY <1>1 DEF Rows, Row, Profile
<1>3. QED
  BY <1>1, <1>2 DEF Rows

\* Loading a profile changes the fields only.
LEMMA LoadedType ==
    ASSUME NEW w \in Window, NEW s \in Seq(Profile)
    PROVE  /\ Loaded(w, s) \in Window /\ Asked(w, s) \subseteq Request
           /\ Loaded(w, s).rows = w.rows /\ Loaded(w, s).index = w.index /\ Loaded(w, s).open = w.open
           /\ IsIn(Selected(w), s) => Loaded(w, s).owner = Selected(w)
<1>1. CASE ~IsIn(Selected(w), s)
  BY <1>1 DEF Loaded, Asked
<1>2. CASE IsIn(Selected(w), s)
  <2>1. PICK p \in Profile : p = Get(Selected(w), s) /\ p.id = Selected(w)
    BY <1>2, GetType
  <2>2. PICK d \in Profile : d = IF IsIn(Default, s) THEN Get(Default, s) ELSE DefaultParams
    BY GetType, DefaultParamsType
  <2>3. Asked(w, s) = IF p.server = NoServer THEN {} ELSE {[server |-> p.server, login |-> p.login]}
    BY <1>2, <2>1 DEF Asked
  <2>4. Asked(w, s) \subseteq Request
    BY <2>3 DEF Request, Profile
  <2>5. Loaded(w, s) =
            [w EXCEPT !.server = p.server, !.keychain = p.keychain, !.look = d.look,
                      !.auth_ids = IF p.server # NoServer THEN @ ELSE <<>>,
                      !.fetch = @ \/ ~(p.server # NoServer), !.owner = p.id, !.dropped = FALSE]
    BY <1>2, <2>1, <2>2 DEF Loaded
  <2>6. Loaded(w, s) \in Window
    <3>a. w.auth_ids \in Seq(LoginTypes) /\ <<>> \in Seq(LoginTypes)
      BY DEF Window
    <3>1. PICK a \in Seq(LoginTypes) : a = IF p.server # NoServer THEN w.auth_ids ELSE <<>>
      BY <3>a
    <3>2. PICK b \in BOOLEAN : b = (w.fetch \/ ~(p.server # NoServer))
      OBVIOUS
    <3>3. Loaded(w, s) =
              [w EXCEPT !.server = p.server, !.keychain = p.keychain, !.look = d.look,
                        !.auth_ids = a, !.fetch = b, !.owner = p.id, !.dropped = FALSE]
      BY <2>5, <3>1, <3>2
    <3>4. QED
      BY <3>3 DEF Window, Profile
  <2>7. QED
    BY <2>1, <2>4, <2>5, <2>6 DEF Window
<1>3. QED
  BY <1>1, <1>2

\* Short sequences.
LEMMA OfOne ==
    ASSUME NEW T, NEW x \in T
    PROVE  /\ <<x>> \in Seq(T) /\ Len(<<x>>) = 1 /\ DOMAIN <<x>> = {1} /\ <<x>>[1] = x
           /\ Head(<<x>>) = x /\ <<x>> # <<>>
  OBVIOUS

LEMMA OfTwo ==
    ASSUME NEW T, NEW x \in T, NEW y \in T
    PROVE  /\ <<x, y>> \in Seq(T) /\ Len(<<x, y>>) = 2 /\ DOMAIN <<x, y>> = {1, 2}
           /\ <<x, y>>[1] = x /\ <<x, y>>[2] = y /\ Head(<<x, y>>) = x /\ <<x, y>> # <<>>
  OBVIOUS

LEMMA OfThree ==
    ASSUME NEW T, NEW x \in T, NEW y \in T, NEW z \in T
    PROVE  /\ <<x, y, z>> \in Seq(T) /\ Len(<<x, y, z>>) = 3 /\ DOMAIN <<x, y, z>> = {1, 2, 3}
           /\ <<x, y, z>>[1] = x /\ <<x, y, z>>[2] = y /\ <<x, y, z>>[3] = z
           /\ Head(<<x, y, z>>) = x /\ <<x, y, z>> # <<>>
  OBVIOUS

LEMMA Appended ==
    ASSUME NEW T, NEW x \in T, NEW y \in T, NEW z \in T
    PROVE  Append(<<>>, z) = <<z>> /\ Append(<<x>>, z) = <<x, z>> /\ Append(<<x, y>>, z) = <<x, y, z>>
<1>1. Append(<<>>, z) = <<z>>
  <2>1. <<>> \in Seq(T) /\ Len(<<>>) = 0
    OBVIOUS
  <2>2. Append(<<>>, z) \in Seq(T) /\ Len(Append(<<>>, z)) = 1 /\ Append(<<>>, z)[1] = z
    BY <2>1
  <2>3. QED
    BY <2>2, OfOne, SeqEqual
<1>2. Append(<<x>>, z) = <<x, z>>
  <2>1. Append(<<x>>, z) \in Seq(T) /\ Len(Append(<<x>>, z)) = 2
        /\ Append(<<x>>, z)[1] = x /\ Append(<<x>>, z)[2] = z
    BY OfOne
  <2>2. <<x, z>> \in Seq(T) /\ Len(<<x, z>>) = 2 /\ <<x, z>>[1] = x /\ <<x, z>>[2] = z
    BY OfTwo
  <2>3. \A i \in 1..2 : Append(<<x>>, z)[i] = <<x, z>>[i]
    <3>1. \A i \in 1..2 : i = 1 \/ i = 2
      OBVIOUS
    <3>2. QED
      BY <2>1, <2>2, <3>1
  <2>4. QED
    BY <2>1, <2>2, <2>3, SeqEqual
<1>3. Append(<<x, y>>, z) = <<x, y, z>>
  <2>1. Append(<<x, y>>, z) \in Seq(T) /\ Len(Append(<<x, y>>, z)) = 3
        /\ Append(<<x, y>>, z)[1] = x /\ Append(<<x, y>>, z)[2] = y /\ Append(<<x, y>>, z)[3] = z
    BY OfTwo
  <2>2. /\ <<x, y, z>> \in Seq(T) /\ Len(<<x, y, z>>) = 3
        /\ <<x, y, z>>[1] = x /\ <<x, y, z>>[2] = y /\ <<x, y, z>>[3] = z
    BY OfThree
  <2>3. \A i \in 1..3 : Append(<<x, y>>, z)[i] = <<x, y, z>>[i]
    <3>1. \A i \in 1..3 : i = 1 \/ i = 2 \/ i = 3
      OBVIOUS
    <3>2. QED
      BY <2>1, <2>2, <3>1
  <2>4. QED
    BY <2>1, <2>2, <2>3, SeqEqual
<1>4. QED
  BY <1>1, <1>2, <1>3

LEMMA Joined ==
    ASSUME NEW x, NEW y, NEW z
    PROVE  /\ (<<>> \o <<>>) \o <<z>> = <<z>> /\ (<<x>> \o <<>>) \o <<z>> = <<x, z>>
           /\ (<<>> \o <<y>>) \o <<z>> = <<y, z>> /\ (<<x>> \o <<y>>) \o <<z>> = <<x, y, z>>
<1>1. PICK T : T = {x, y, z}
  OBVIOUS
<1>2. x \in T /\ y \in T /\ z \in T
  BY <1>1
<1>3. <<>> \in Seq(T) /\ <<x>> \in Seq(T) /\ <<y>> \in Seq(T) /\ <<x, y>> \in Seq(T)
  BY <1>2, OfOne, OfTwo
<1>4. <<>> \o <<>> = <<>> /\ <<x>> \o <<>> = <<x>> /\ <<>> \o <<y>> = <<y>>
  BY <1>3, ConcatEmptySeq
<1>5. <<x>> \o <<y>> = Append(<<x>>, y)
  BY <1>2, <1>3, AppendIsConcat
<1>6. <<>> \o <<z>> = Append(<<>>, z)
  BY <1>2, <1>3, AppendIsConcat
<1>7. <<x>> \o <<z>> = Append(<<x>>, z)
  BY <1>2, <1>3, AppendIsConcat
<1>8. <<y>> \o <<z>> = Append(<<y>>, z)
  BY <1>2, <1>3, AppendIsConcat
<1>9. <<x, y>> \o <<z>> = Append(<<x, y>>, z)
  BY <1>2, <1>3, AppendIsConcat
<1>10. /\ Append(<<>>, z) = <<z>> /\ Append(<<x>>, z) = <<x, z>> /\ Append(<<y>>, z) = <<y, z>>
       /\ Append(<<x>>, y) = <<x, y>> /\ Append(<<x, y>>, z) = <<x, y, z>>
  BY <1>2, Appended
<1>11. QED
  BY <1>4, <1>5, <1>6, <1>7, <1>8, <1>9, <1>10

\* What is left of the work of a handler after a step of it.
LEMMA WorkGoesOn ==
    ASSUME Types, work # <<>>
    PROVE  /\ Head(work) = work[1] /\ 1 \in DOMAIN work /\ Subject \in Profile /\ Subject = work[1].with
           /\ \A do \in Calls : Then(do) =>
                  /\ work' \in Seq(Call) /\ work' # <<>> /\ DOMAIN work' = DOMAIN work
                  /\ work'[1] = [do |-> do, with |-> Subject] /\ Head(work') = work'[1]
                  /\ \A i \in DOMAIN work : i # 1 => work'[i] = work[i]
           /\ Done =>
                  /\ work' \in Seq(Call) /\ DOMAIN work' = 1..(Len(work) - 1)
                  /\ \A i \in DOMAIN work' : i + 1 \in DOMAIN work /\ i + 1 # 1 /\ work'[i] = work[i + 1]
                  /\ work' # <<>> => 1 \in DOMAIN work' /\ Head(work') = work'[1] /\ 2 \in DOMAIN work /\ work'[1] = work[2]
<1>1. work \in Seq(Call) /\ Len(work) \in Nat \ {0} /\ DOMAIN work = 1..Len(work)
  BY DEF Types, WorkTypes
<1>2. Head(work) = work[1] /\ 1 \in DOMAIN work /\ work[1] \in Call
  BY <1>1
<1>3. Subject \in Profile /\ Subject = work[1].with
  BY <1>2 DEF Subject, Call
<1>4. ASSUME NEW do \in Calls, Then(do)
      PROVE  /\ work' \in Seq(Call) /\ work' # <<>> /\ DOMAIN work' = DOMAIN work
             /\ work'[1] = [do |-> do, with |-> Subject] /\ Head(work') = work'[1]
             /\ \A i \in DOMAIN work : i # 1 => work'[i] = work[i]
  <2>a. [work[1] EXCEPT !.do = do] = [do |-> do, with |-> Subject]
    BY <1>2, <1>3 DEF Call
  <2>1. work' = [work EXCEPT ![1] = [do |-> do, with |-> Subject]]
    BY <1>4, <2>a DEF Then
  <2>2. [do |-> do, with |-> Subject] \in Call
    BY <1>3 DEF Call
  <2>3. QED
    BY <1>1, <1>2, <2>1, <2>2
<1>5. ASSUME Done
      PROVE  /\ work' \in Seq(Call) /\ DOMAIN work' = 1..(Len(work) - 1)
             /\ \A i \in DOMAIN work' : i + 1 \in DOMAIN work /\ i + 1 # 1 /\ work'[i] = work[i + 1]
             /\ work' # <<>> => 1 \in DOMAIN work' /\ Head(work') = work'[1] /\ 2 \in DOMAIN work /\ work'[1] = work[2]
  <2>1. work' = Tail(work)
    BY <1>5 DEF Done
  <2>2. Tail(work) \in Seq(Call) /\ Len(Tail(work)) = Len(work) - 1
        /\ \A i \in 1..(Len(work) - 1) : Tail(work)[i] = work[i + 1]
    BY <1>1
  <2>3. DOMAIN work' = 1..(Len(work) - 1) /\ Len(work') = Len(work) - 1
    BY <1>1, <2>1, <2>2
  <2>4. work' # <<>> => Len(work) - 1 \in Nat \ {0}
    BY <1>1, <2>1, <2>2
  <2>5. work' # <<>> => 1 \in DOMAIN work' /\ Head(work') = work'[1] /\ 2 \in DOMAIN work /\ work'[1] = work[2]
    BY <1>1, <2>1, <2>2, <2>3, <2>4
  <2>6. QED
    BY <1>1, <2>1, <2>2, <2>3, <2>5
<1>6. QED
  BY <1>2, <1>3, <1>4, <1>5

LEMMA TypesInit == Init => Types
<1> SUFFICES ASSUME Init PROVE Types
  OBVIOUS
<1>1. DiskTypes
  BY DefaultParamsType DEF Init, DiskTypes, Missing
<1>2. StoreTypes /\ WorkTypes
  <2>1. <<>> \in Seq(Profile) /\ <<>> \in Seq(Call) /\ Default \in AllIds
    BY DEF AllIds
  <2>2. QED
    BY <2>1 DEF Init, StoreTypes, WorkTypes
<1>3. NoForm \in Window
  BY DEF NoForm, Window, AllIds
<1>a. astray \in BOOLEAN
  BY DEF Init
<1>4. FormTypes /\ OtherTypes
  BY <1>3, <1>a, ProfilesAssumption DEF Init, FormTypes, OtherTypes
<1>5. QED
  BY <1>1, <1>2, <1>4 DEF Types

\* What a filter and a drag leave has the same type.
LEMMA WithoutType ==
    ASSUME NEW s \in Seq(Profile), NEW k \in DOMAIN s, \A j \in DOMAIN s : s[j].id = s[k].id => j = k
    PROVE  Without(s[k].id, s) \in Seq(Profile)
  BY WithoutOne, RemoveAtCuts

LEMMA ReorderedType ==
    ASSUME NEW s \in Seq(Profile), NEW from, NEW to
    PROVE  /\ Reordered(from, to, s) \in Seq(Profile)
           /\ OrderStep(from, to, s) \in Seq(Call)
<1>1. CASE {from, to} \subseteq DOMAIN s
  <2>1. Moved(s, from, to) \in Seq(Profile)
    BY <1>1, MovedIs
  <2>2. s[from] \in Profile
    BY <1>1
  <2>3. Step("clear", s[from]) \in Call
    BY <2>2 DEF Step, Calls, Call
  <2>4. <<Step("clear", s[from])>> \in Seq(Call)
    BY <2>3, OfOne
  <2>5. OrderStep(from, to, s) = <<Step("clear", s[from])>> /\ Reordered(from, to, s) = Moved(s, from, to)
    BY <1>1 DEF Reordered, OrderStep
  <2>6. QED
    BY <2>1, <2>4, <2>5
<1>2. CASE ~({from, to} \subseteq DOMAIN s)
  BY <1>2 DEF Reordered, OrderStep
<1>3. QED
  BY <1>1, <1>2

\* The profile of the window, as the user wants it saved.
LEMMA SubmittedType ==
    ASSUME Types, NEW p \in Profile
    PROVE  /\ Submitted(p) \in Profile /\ Submitted(p).id = p.id /\ Submitted(p).file = p.file
           /\ Submitted(p).name = p.name
<1>1. form \in Window
  BY DEF Types, FormTypes
<1>2. PICK l \in LoginTypes \cup {NoLogin} :
          l = IF form.auth_type \in DOMAIN form.auth_ids THEN form.auth_ids[form.auth_type] ELSE NoLogin
  <2>1. form.auth_ids \in Seq(LoginTypes)
    BY <1>1 DEF Window
  <2>2. form.auth_type \in DOMAIN form.auth_ids => form.auth_ids[form.auth_type] \in LoginTypes
    BY <2>1
  <2>3. QED
    BY <2>2
<1>3. Submitted(p) = [p EXCEPT !.server = form.server, !.keychain = form.keychain, !.look = form.look, !.login = l]
  BY <1>2 DEF Submitted
<1>4. form.server \in Servers \cup {NoServer} /\ form.keychain \in BOOLEAN /\ form.look \in Looks \cup {"plain"}
  BY <1>1 DEF Window
<1>5. QED
  BY <1>3, <1>4 DEF Profile

\* In memory, the identifiers other than the default one are different.
LEMMA IdsDiffer ==
    ASSUME Types, StoreFits, NEW i \in DOMAIN store, NEW j \in DOMAIN store,
           store[i].id = store[j].id, store[i].id # Default
    PROVE  i = j
  BY DEF StoreFits, IdFits

\* Each step of the work keeps the types.
LEMMA TypesWork ==
    ASSUME Types, Truncate \/ Write \/ WriteFails \/ PutInStore \/ Unlink \/ UnlinkFails \/ ClearOrder \/ WriteOrder \/ OrderFails \/ SpawnDeletion
    PROVE  Types'
<1> USE DEF Types
<1>1. work # <<>>
  BY DEF Truncate, Write, WriteFails, PutInStore, Unlink, UnlinkFails, ClearOrder, WriteOrder, OrderFails, SpawnDeletion, Doing
<1>2. Subject \in Profile /\ Subject.file \in AllIds /\ Subject.id \in AllIds
  BY <1>1, WorkGoesOn DEF Profile
<1>3. \/ \E do \in Calls : Then(do)
      \/ Done
  BY DEF Truncate, Write, WriteFails, PutInStore, Unlink, UnlinkFails, ClearOrder, WriteOrder, OrderFails, SpawnDeletion, Calls, Saves
<1>4. WorkTypes'
  BY <1>1, <1>3, WorkGoesOn DEF WorkTypes
<1>5. DiskTypes'
  <2>1. \/ \E x \in {Empty, Whole(Subject), Missing} : files' = [files EXCEPT ![Subject.file] = x]
        \/ files' = files
    BY DEF Truncate, Write, WriteFails, PutInStore, Unlink, UnlinkFails, ClearOrder, WriteOrder, OrderFails, SpawnDeletion, disk
  <2>2. {Empty, Whole(Subject), Missing} \subseteq [state : {"missing", "empty", "whole"}, with : Profile]
    BY <1>2, DefaultParamsType DEF Empty, Whole, Missing
  <2>3. files' \in [AllIds -> [state : {"missing", "empty", "whole"}, with : Profile]]
    BY <2>1, <2>2 DEF DiskTypes
  <2>4. IdsOf(store) \in Seq(AllIds)
    <3>1. Len(store) \in Nat /\ DOMAIN store = 1..Len(store) /\ \A i \in DOMAIN store : store[i] \in Profile
      BY DEF StoreTypes
    <3>2. IdsOf(store) \in [1..Len(store) -> AllIds]
      BY <3>1 DEF IdsOf, Profile
    <3>3. QED
      BY <3>1, <3>2
  <2>5. order' \in {order, <<>>, IdsOf(store)}
    BY DEF Truncate, Write, WriteFails, PutInStore, Unlink, UnlinkFails, ClearOrder, WriteOrder, OrderFails, SpawnDeletion, disk
  <2>6. order' \in Seq(AllIds)
    <3>1. <<>> \in Seq(AllIds) /\ order \in Seq(AllIds)
      BY DEF DiskTypes
    <3>2. QED
      BY <2>4, <2>5, <3>1
  <2>7. QED
    BY <2>3, <2>6 DEF DiskTypes
<1>6. StoreTypes'
  <2>1. Put(Subject, store) \in Seq(Profile)
    BY <1>2, PutReplaces, PutAppends DEF StoreTypes
  <2>2. store' \in {store, Put(Subject, store)} /\ connected' = connected /\ running' = running
    BY DEF Truncate, Write, WriteFails, PutInStore, Unlink, UnlinkFails, ClearOrder, WriteOrder, OrderFails, SpawnDeletion, memory
  <2>3. QED
    BY <2>1, <2>2 DEF StoreTypes
<1>7. FormTypes'
  <2>1. form' = form /\ fetches' = fetches
    BY DEF Truncate, Write, WriteFails, PutInStore, Unlink, UnlinkFails, ClearOrder, WriteOrder, OrderFails, SpawnDeletion
  <2>2. QED
    BY <2>1 DEF FormTypes
<1>8. OtherTypes'
  <2>1. CASE WriteFails \/ UnlinkFails \/ OrderFails
    <3>1. lost' \subseteq lost \cup {Subject.file} /\ astray' \in {astray, TRUE}
      BY <2>1 DEF WriteFails, UnlinkFails, OrderFails
    <3>2. UNCHANGED <<passwords, used, changes>> /\ faults < MaxFaults /\ faults' = faults + 1
      BY <2>1 DEF WriteFails, UnlinkFails, OrderFails
    <3>3. astray' \in BOOLEAN
      BY <3>1 DEF OtherTypes
    <3>4. QED
      BY <1>2, <3>1, <3>2, <3>3, ProfilesAssumption DEF OtherTypes, passwords
  <2>2. CASE Write \/ Unlink \/ WriteOrder
    BY <2>2 DEF Write, Unlink, WriteOrder, OtherTypes, passwords
  <2>3. CASE SpawnDeletion
    BY <1>2, <2>3 DEF SpawnDeletion, OtherTypes, history
  <2>4. CASE Truncate \/ PutInStore \/ ClearOrder
    BY <2>4 DEF Truncate, PutInStore, ClearOrder, OtherTypes, passwords, history
  <2>5. QED
    BY <2>1, <2>2, <2>3, <2>4
<1>9. QED
  BY <1>4, <1>5, <1>6, <1>7, <1>8

\* What loading a profile into a window leaves.
LEMMA Shown ==
    ASSUME Types, NEW w \in Window, NEW s \in Seq(Profile), Show(w, s)
    PROVE  /\ FormTypes'
           /\ form'.rows = w.rows /\ form'.index = w.index /\ form'.open = w.open
           /\ IsIn(Selected(w), s) => form'.owner = Selected(w)
  BY LoadedType DEF Show, FormTypes, Types

\* The window gets rows and a selection.
LEMMA WindowWith ==
    ASSUME NEW w \in Window, NEW rows \in Seq(Row), NEW index \in Nat \ {0}
    PROVE  /\ [w EXCEPT !.rows = rows, !.index = index] \in Window
           /\ [w EXCEPT !.rows = rows, !.index = index, !.dropped = TRUE] \in Window
           /\ [w EXCEPT !.open = TRUE, !.rows = rows, !.index = index] \in Window
           /\ [w EXCEPT !.index = index] \in Window
  BY DEF Window

LEMMA WindowWithRows ==
    ASSUME NEW w \in Window, NEW rows \in Seq(Row)
    PROVE  [w EXCEPT !.rows = rows] \in Window
  BY DEF Window

LEMMA NoFormType == NoForm \in Window
  BY DEF NoForm, Window, AllIds

\* What the handlers of the window change, they change to something of the same type.
LEMMA TypesWindow ==
    ASSUME Types,
           \/ Open \/ Close \/ Edit \/ FetchInfo
           \/ \E f \in fetches : FetchDone(f)
           \/ \E i \in DOMAIN form.rows : Select(i)
    PROVE  Types'
<1> USE DEF Types
<1>1. DiskTypes' /\ StoreTypes' /\ WorkTypes' /\ OtherTypes'
  BY DEF Open, Close, Edit, FetchInfo, FetchDone, Select, disk, memory, passwords, history,
         DiskTypes, StoreTypes, WorkTypes, OtherTypes
<1>2. CASE Open
  <2> DEFINE id == GetConnected.id
             index == IF IsIn(id, store) THEN Position(id, store) ELSE 1
  <2>1. store \in Seq(Profile) /\ Rows(store) \in Seq(Row)
    BY RowsType DEF StoreTypes
  <2>2. index \in Nat \ {0}
    BY <2>1, GetType
  <2>3. Show([NoForm EXCEPT !.open = TRUE, !.rows = Rows(store), !.index = index], store)
    BY <1>2 DEF Open
  <2> HIDE DEF index
  <2>4. QED
    BY <1>1, <2>1, <2>2, <2>3, NoFormType, WindowWith, Shown
<1>3. CASE Close
  BY <1>1, <1>3, NoFormType DEF Close, FormTypes
<1>4. CASE Edit
  BY <1>1, <1>4 DEF Edit, Edited, FormTypes, Window
<1>5. CASE FetchInfo
  <2>1. Get(Selected(form), store).login \in LoginTypes \cup {NoLogin}
    BY <1>5, GetType DEF FetchInfo, StoreTypes, Profile
  <2>2. form.server \in Servers
    BY <1>5 DEF FetchInfo, FormTypes, Window
  <2>3. fetches' \subseteq Request
    BY <1>5, <2>1, <2>2 DEF FetchInfo, FormTypes, Request
  <2>4. form' \in Window
    BY <1>5 DEF FetchInfo, FormTypes, Window
  <2>5. QED
    BY <1>1, <2>3, <2>4 DEF FormTypes
<1>6. CASE \E f \in fetches : FetchDone(f)
  <2>1. PICK f \in fetches : FetchDone(f)
    BY <1>6
  <2>2. Offered[f.server] \in Seq(LoginTypes)
    BY ProfilesAssumption DEF FormTypes, Request
  <2>3. PICK n : n = IF f.login \in Range1(Offered[f.server])
                     THEN CHOOSE i \in DOMAIN Offered[f.server] : Offered[f.server][i] = f.login ELSE 1
    OBVIOUS
  <2>4. n \in Nat \ {0}
    BY <2>2, <2>3 DEF Range1
  <2>5. fetches' \subseteq fetches
    BY <2>1 DEF FetchDone
  <2>6. form' = [form EXCEPT !.fetch = TRUE] \/ form' = [form EXCEPT !.fetch = TRUE, !.auth_ids = Offered[f.server], !.auth_type = n]
    BY <2>1, <2>3 DEF FetchDone
  <2>7. form \in Window
    BY DEF FormTypes
  <2>8. form' \in Window
    <3>1. CASE form' = [form EXCEPT !.fetch = TRUE]
      BY <2>7, <3>1 DEF Window
    <3>2. CASE form' = [form EXCEPT !.fetch = TRUE, !.auth_ids = Offered[f.server], !.auth_type = n]
      BY <2>2, <2>4, <2>7, <3>2 DEF Window
    <3>3. QED
      BY <2>6, <3>1, <3>2
  <2>9. QED
    BY <1>1, <2>5, <2>8 DEF FormTypes
<1>7. CASE \E i \in DOMAIN form.rows : Select(i)
  <2>1. PICK i \in DOMAIN form.rows : Select(i)
    BY <1>7
  <2>2. i \in Nat \ {0}
    BY DEF FormTypes, Window
  <2>3. form \in Window /\ form.rows \in Seq(Row) /\ store \in Seq(Profile)
    BY DEF FormTypes, StoreTypes, Window
  <2>4. [form EXCEPT !.index = i] \in Window
    BY <2>2, <2>3, WindowWith
  <2>5. Show([form EXCEPT !.index = i], store)
    BY <2>1 DEF Select
  <2>6. QED
    BY <1>1, <2>3, <2>4, <2>5, Shown
<1>8. QED
  BY <1>2, <1>3, <1>4, <1>5, <1>6, <1>7

\* A new profile, and its row.
LEMMA NewProfileType ==
    ASSUME NEW id \in Ids, NEW name \in Names, NEW r \in Seq(Row)
    PROVE  /\ [DefaultParams EXCEPT !.id = id, !.name = name, !.file = id] \in Profile
           /\ Append(r, [id |-> id, name |-> name]) \in Seq(Row)
           /\ Len(Append(r, [id |-> id, name |-> name])) = Len(r) + 1 /\ Len(r) + 1 \in Nat \ {0}
<1>1. [DefaultParams EXCEPT !.id = id, !.name = name, !.file = id] \in Profile
  BY DEF DefaultParams, Profile, AllIds
<1>2. [id |-> id, name |-> name] \in Row
  BY DEF Row, AllIds
<1>3. QED
  BY <1>1, <1>2

\* A handler that writes is counted, and changes nothing else that is neither disk nor memory.
LEMMA TypesOfWriter ==
    ASSUME Types, Changes, DiskTypes', StoreTypes', WorkTypes', FormTypes', used' \subseteq Ids,
           UNCHANGED <<passwords, lost, astray, faults>>
    PROVE  Types'
  BY ProfilesAssumption DEF Types, OtherTypes, passwords, Changes

LEMMA TypesNew ==
    ASSUME Types, NEW id \in Ids, NEW name \in Names, ProfileNew(id, name)
    PROVE  Types'
<1> DEFINE p == [DefaultParams EXCEPT !.id = id, !.name = name, !.file = id]
           rows == Append(form.rows, [id |-> id, name |-> name])
<1>1. store \in Seq(Profile) /\ form \in Window /\ form.rows \in Seq(Row)
  BY DEF Types, StoreTypes, FormTypes, Window
<1>2. p \in Profile /\ rows \in Seq(Row) /\ Len(rows) \in Nat \ {0}
  BY <1>1, NewProfileType
<1>3. Put(p, store) \in Seq(Profile)
  BY <1>1, <1>2, PutReplaces, PutAppends
<1>4. Show([form EXCEPT !.rows = rows, !.index = Len(rows)], Put(p, store)) /\ work' = <<Step("truncate", p)>>
  BY DEF ProfileNew
<1> HIDE DEF p, rows
<1>5. FormTypes'
  BY <1>1, <1>2, <1>3, <1>4, WindowWith, Shown
<1>6. Step("truncate", p) \in Call
  BY <1>2 DEF Step, Call, Calls, Saves
<1>7. WorkTypes'
  BY <1>4, <1>6, OfOne DEF WorkTypes
<1>8. DiskTypes' /\ StoreTypes'
  BY DEF ProfileNew, Types, DiskTypes, StoreTypes, disk, memory
<1>9. used' \subseteq Ids /\ Changes /\ UNCHANGED <<passwords, lost, astray, faults>>
  BY DEF ProfileNew, Types, OtherTypes
<1>10. QED
  BY <1>5, <1>7, <1>8, <1>9, TypesOfWriter

LEMMA TypesRename ==
    ASSUME Types, NEW name \in Names, ProfileRename(name)
    PROVE  Types'
<1>1. store \in Seq(Profile) /\ form \in Window /\ form.rows \in Seq(Row)
  BY DEF Types, StoreTypes, FormTypes, Window
<1>2. WorkTypes'
  <2>1. CASE IsIn(Selected(form), store)
    <3>1. Get(Selected(form), store) \in Profile
      BY <1>1, <2>1, GetType
    <3>2. [Get(Selected(form), store) EXCEPT !.name = name] \in Profile
      BY <3>1 DEF Profile
    <3>3. Step("truncate", [Get(Selected(form), store) EXCEPT !.name = name]) \in Call
      BY <3>2 DEF Step, Call, Calls, Saves
    <3>4. work' = <<Step("truncate", [Get(Selected(form), store) EXCEPT !.name = name])>>
      BY <2>1 DEF ProfileRename
    <3>5. QED
      BY <3>3, <3>4, OfOne DEF WorkTypes
  <2>2. CASE ~IsIn(Selected(form), store)
    BY <2>2 DEF ProfileRename, WorkTypes
  <2>3. QED
    BY <2>1, <2>2
<1>3. FormTypes'
  <2>1. form.index \in DOMAIN form.rows
    BY DEF ProfileRename
  <2>a. form.rows[form.index] \in Row
    BY <1>1, <2>1
  <2>2. PICK r \in Row : r = [form.rows[form.index] EXCEPT !.name = name]
    BY <2>a DEF Row
  <2>3. [form.rows EXCEPT ![form.index] = r] \in Seq(Row)
    BY <1>1, <2>1
  <2>4. form' = [form EXCEPT !.rows = [form.rows EXCEPT ![form.index] = r]]
    BY <1>1, <2>2 DEF ProfileRename
  <2>5. fetches' = fetches
    BY DEF ProfileRename
  <2>6. QED
    BY <1>1, <2>3, <2>4, <2>5, WindowWithRows DEF FormTypes, Types
<1>4. DiskTypes' /\ StoreTypes'
  BY DEF ProfileRename, Types, DiskTypes, StoreTypes, disk, memory
<1>5. used' \subseteq Ids /\ Changes /\ UNCHANGED <<passwords, lost, astray, faults>>
  BY DEF ProfileRename, Types, OtherTypes
<1>6. QED
  BY <1>2, <1>3, <1>4, <1>5, TypesOfWriter

LEMMA TypesReorder ==
    ASSUME Types, NEW from \in DOMAIN form.rows, NEW to \in DOMAIN form.rows, ProfileReorder(from, to)
    PROVE  Types'
<1> DEFINE now == Reordered(from, to, store)
           id == form.rows[from].id
           index == IF IsIn(id, now) THEN Position(id, now) ELSE 1
           w == [form EXCEPT !.rows = Rows(now), !.index = index]
<1>1. store \in Seq(Profile) /\ form \in Window /\ form.rows \in Seq(Row)
  BY DEF Types, StoreTypes, FormTypes, Window
<1>2. now \in Seq(Profile) /\ OrderStep(from, to, store) \in Seq(Call)
  BY <1>1, ReorderedType
<1>3. \/ Show(w, now)
      \/ form' = [w EXCEPT !.dropped = TRUE] /\ fetches' = fetches
  BY DEF ProfileReorder
<1>4. Rows(now) \in Seq(Row) /\ index \in Nat \ {0}
  BY <1>2, RowsType, GetType
<1> HIDE DEF now, index
<1>5. w \in Window /\ [w EXCEPT !.dropped = TRUE] \in Window
  <2>1. w \in Window /\ [form EXCEPT !.rows = Rows(now), !.index = index, !.dropped = TRUE] \in Window
    BY <1>1, <1>4, WindowWith
  <2>2. [w EXCEPT !.dropped = TRUE] = [form EXCEPT !.rows = Rows(now), !.index = index, !.dropped = TRUE]
    BY <1>1 DEF Window
  <2>3. QED
    BY <2>1, <2>2
<1> HIDE DEF w
<1>6. FormTypes'
  <2>1. CASE Show(w, now)
    BY <1>2, <1>5, <2>1, Shown
  <2>2. CASE form' = [w EXCEPT !.dropped = TRUE] /\ fetches' = fetches
    BY <1>5, <2>2 DEF FormTypes, Types
  <2>3. QED
    BY <1>3, <2>1, <2>2
<1>7. WorkTypes' /\ StoreTypes'
  BY <1>2 DEF ProfileReorder, WorkTypes, StoreTypes, Types, now
<1>8. DiskTypes'
  BY DEF ProfileReorder, Types, DiskTypes, disk
<1>9. used' \subseteq Ids /\ Changes /\ UNCHANGED <<passwords, lost, astray, faults>>
  BY DEF ProfileReorder, Types, OtherTypes
<1>10. QED
  BY <1>6, <1>7, <1>8, <1>9, TypesOfWriter

\* The profile that the user deletes is at one place, of the memory and of the rows.
LEMMA Deleted ==
    ASSUME Types, StoreFits, ProfileDelete
    PROVE  \E k \in DOMAIN store :
               /\ Get(Selected(form), store) = store[k] /\ store[k].id = Selected(form)
               /\ store[k].id # Default /\ store[k] \in Profile
               /\ \A j \in DOMAIN store : store[j].id = store[k].id => j = k
               /\ Without(store[k].id, store) = Cut(store, k) /\ Cut(store, k) \in Seq(Profile)
               /\ Len(Cut(store, k)) = Len(store) - 1
<1>1. store \in Seq(Profile)
  BY DEF Types, StoreTypes
<1>2. IsIn(Selected(form), store) /\ Selected(form) # Default
  BY DEF ProfileDelete
<1>3. PICK k \in DOMAIN store : Get(Selected(form), store) = store[k] /\ store[k].id = Selected(form) /\ store[k] \in Profile
  BY <1>1, <1>2, GetType
<1>4. \A j \in DOMAIN store : store[j].id = store[k].id => j = k
  BY <1>2, <1>3, IdsDiffer
<1>5. Without(store[k].id, store) = Cut(store, k) /\ Cut(store, k) \in Seq(Profile) /\ Len(Cut(store, k)) = Len(store) - 1
  BY <1>1, <1>4, WithoutOne, RemoveAtCuts
<1>6. QED
  BY <1>2, <1>3, <1>4, <1>5

LEMMA TypesDelete ==
    ASSUME Types, StoreFits, ProfileDelete
    PROVE  Types'
<1> DEFINE p == Get(Selected(form), store)
           rows == RemoveAt(form.rows, form.index)
           left == Without(p.id, store)
<1>1. store \in Seq(Profile) /\ form \in Window /\ form.rows \in Seq(Row)
  BY DEF Types, StoreTypes, FormTypes, Window
<1>2. p \in Profile /\ left \in Seq(Profile)
  BY Deleted
<1>3. rows \in Seq(Row)
  BY <1>1, RemoveAtCuts DEF ProfileDelete
<1>4. /\ store' = left /\ work' = <<Step("unlink", p), Step("forget", p)>>
      /\ Show([form EXCEPT !.rows = rows, !.index = 1], left)
  BY DEF ProfileDelete
<1> HIDE DEF p, rows, left
<1>a. [form EXCEPT !.rows = rows, !.index = 1] \in Window
  <2>1. PICK n \in Nat \ {0} : n = 1
    OBVIOUS
  <2>2. [form EXCEPT !.rows = rows, !.index = n] \in Window
    BY <1>1, <1>3, WindowWith
  <2>3. QED
    BY <2>1, <2>2
<1>5. FormTypes'
  BY <1>2, <1>4, <1>a, Shown
<1>6. Step("unlink", p) \in Call /\ Step("forget", p) \in Call
  BY <1>2 DEF Step, Call, Calls
<1>7. WorkTypes'
  BY <1>4, <1>6, OfTwo DEF WorkTypes
<1>8. StoreTypes'
  BY <1>2, <1>4 DEF ProfileDelete, StoreTypes, Types
<1>9. DiskTypes'
  BY DEF ProfileDelete, Types, DiskTypes, disk
<1>10. used' \subseteq Ids /\ Changes /\ UNCHANGED <<passwords, lost, astray, faults>>
  BY DEF ProfileDelete, Types, OtherTypes
<1>11. QED
  BY <1>5, <1>7, <1>8, <1>9, <1>10, TypesOfWriter

\* What save_settings has to do: it saves the default profile if the window shows another one,
\* deletes the password of the profile if it must, and saves the profile.
LEMMA SaveWork ==
    ASSUME Types, NEW closes \in BOOLEAN, SaveSettings(closes)
    PROVE  LET p == Get(Selected(form), store)
               d == [GetDefault EXCEPT !.look = form.look]
               first == Step("truncate", d)
               forget == Step("forget", p)
               last == Step("truncate", Submitted(p))
           IN  /\ p \in Profile /\ p.id = Selected(form) /\ IsIn(p.id, store)
               /\ d \in Profile /\ d.id = Default
               /\ \/ work' = <<last>> /\ p.id = Default
                  \/ work' = <<forget, last>> /\ p.id = Default
                  \/ work' = <<first, last>> /\ p.id # Default
                  \/ work' = <<first, forget, last>> /\ p.id # Default
<1> DEFINE p == Get(Selected(form), store)
           d == [GetDefault EXCEPT !.look = form.look]
           first == Step("truncate", d)
           forget == Step("forget", p)
           last == Step("truncate", Submitted(p))
<1>1. store \in Seq(Profile) /\ form \in Window
  BY DEF Types, StoreTypes, FormTypes
<1>2. p \in Profile /\ p.id = Selected(form) /\ IsIn(p.id, store)
  BY <1>1, GetType DEF SaveSettings
<1>3. GetDefault \in Profile /\ GetDefault.id = Default
  BY <1>1, GetType, DefaultParamsType DEF GetDefault, DefaultParams
<1>4. d \in Profile /\ d.id = Default
  BY <1>1, <1>3 DEF Profile, Window
<1>5. work' = ((IF p.id # Default THEN <<first>> ELSE <<>>)
                   \o (IF p.keychain /\ ~form.keychain THEN <<forget>> ELSE <<>>)) \o <<last>>
  BY DEF SaveSettings
<1> HIDE DEF p, d, first, forget, last
<1>6. /\ (<<>> \o <<>>) \o <<last>> = <<last>> /\ (<<first>> \o <<>>) \o <<last>> = <<first, last>>
      /\ (<<>> \o <<forget>>) \o <<last>> = <<forget, last>>
      /\ (<<first>> \o <<forget>>) \o <<last>> = <<first, forget, last>>
  BY Joined
<1>7. \/ work' = <<last>> /\ p.id = Default
      \/ work' = <<forget, last>> /\ p.id = Default
      \/ work' = <<first, last>> /\ p.id # Default
      \/ work' = <<first, forget, last>> /\ p.id # Default
  BY <1>5, <1>6
<1>8. QED
  BY <1>2, <1>4, <1>7 DEF p, d, first, forget, last

LEMMA TypesSave ==
    ASSUME Types, NEW closes \in BOOLEAN, SaveSettings(closes)
    PROVE  Types'
<1>1. WorkTypes'
  <2> DEFINE p == Get(Selected(form), store)
             d == [GetDefault EXCEPT !.look = form.look]
             first == Step("truncate", d)
             forget == Step("forget", p)
             last == Step("truncate", Submitted(p))
  <2>1. p \in Profile /\ d \in Profile /\ work' \in {<<last>>, <<forget, last>>, <<first, last>>, <<first, forget, last>>}
    BY SaveWork
  <2>2. Submitted(p) \in Profile
    BY <2>1, SubmittedType
  <2>3. first \in Call /\ forget \in Call /\ last \in Call
    BY <2>1, <2>2 DEF Step, Call, Calls, Saves
  <2> HIDE DEF first, forget, last
  <2>4. /\ <<last>> \in Seq(Call) /\ <<forget, last>> \in Seq(Call) /\ <<first, last>> \in Seq(Call)
        /\ <<first, forget, last>> \in Seq(Call)
    BY <2>3, OfOne, OfTwo, OfThree
  <2>5. QED
    BY <2>1, <2>4 DEF WorkTypes
<1>2. FormTypes'
  BY NoFormType DEF SaveSettings, Accepted, Types, FormTypes
<1>3. DiskTypes' /\ StoreTypes'
  BY DEF SaveSettings, Types, DiskTypes, StoreTypes, disk, memory
<1>4. used' \subseteq Ids /\ Changes /\ UNCHANGED <<passwords, lost, astray, faults>>
  BY DEF SaveSettings, Types, OtherTypes
<1>5. QED
  BY <1>1, <1>2, <1>3, <1>4, TypesOfWriter

LEMMA TypesBeside ==
    ASSUME Types,
           \/ Start \/ Stop
           \/ \E id \in AllIds : SetConnected(id)
           \/ \E id \in AllIds : Login(id) \/ StorePassword(id) \/ DeletePassword(id)
    PROVE  Types'
<1>1. CASE Start
  <2>1. store' \in Seq(Profile)
    BY <1>1, LoadsAre DEF Start
  <2>2. QED
    BY <1>1, <2>1 DEF Start, Types, DiskTypes, StoreTypes, WorkTypes, FormTypes, OtherTypes, disk, passwords, AllIds
<1>2. CASE Stop
  <2>1. faults' \in 0..MaxFaults
    BY <1>2, ProfilesAssumption DEF Stop, Types, OtherTypes
  <2>2. store' \in Seq(Profile) /\ work' \in Seq(Call)
    BY <1>2 DEF Stop
  <2>3. QED
    BY <1>2, <2>1, <2>2, NoFormType
       DEF Stop, Types, DiskTypes, StoreTypes, WorkTypes, FormTypes, OtherTypes, disk, AllIds
<1>3. CASE \E id \in AllIds : SetConnected(id)
  BY <1>3 DEF SetConnected, Types, DiskTypes, StoreTypes, WorkTypes, FormTypes, OtherTypes, disk, passwords, history
<1>4. CASE \E id \in AllIds : Login(id) \/ StorePassword(id) \/ DeletePassword(id)
  BY <1>4 DEF Login, StorePassword, DeletePassword,
              Types, DiskTypes, StoreTypes, WorkTypes, FormTypes, OtherTypes, disk, memory, history
<1>5. QED
  BY <1>1, <1>2, <1>3, <1>4

-----------------------------------------------------------------------------
(* Kept is an invariant: the calls of a handler *)

\* What FilesHoldStore says of one profile.
HoldsIt(p) ==
    \/ p.file \in InWork \cup lost
    \/ files[p.file].state = "missing" /\ p = DefaultParams
    \/ Same(Load(p.file), p)

LEMMA HoldsAll == FilesHoldStore <=> (running => \A i \in DOMAIN store : HoldsIt(store[i]))
  BY DEF FilesHoldStore, HoldsIt

LEMMA KeptInit == Init => Kept
<1> SUFFICES ASSUME Init PROVE Kept
  OBVIOUS
<1>1. store = <<>> /\ DOMAIN store = {} /\ work = <<>> /\ DOMAIN work = {} /\ ~running /\ ~form.open
  BY DEF Init, NoForm
<1>2. StoreFits /\ IdsKept /\ FilesKnown /\ FilesHoldStore
  BY <1>1 DEF StoreFits, IdsKept, FilesKnown, FilesHoldStore
<1>3. FilesFit
  BY DEF FilesFit, Init, Missing
<1>4. WorkFits /\ WorkShape
  BY <1>1 DEF WorkFits, WorkShape, At, ToSave
<1>5. Stopped
  BY <1>1 DEF Init, Stopped
<1>6. RowsFit /\ OwnerFits /\ OrderFits
  BY <1>1 DEF RowsFit, OwnerFits, OrderFits
<1>7. QED
  BY <1>2, <1>3, <1>4, <1>5, <1>6 DEF Kept

\* A save writes the file of the profile that it replaces, so of no other one.
LEMMA SavesItsOwn ==
    ASSUME Types, StoreFits, NEW p \in Profile, SaveFits(p), NEW i \in DOMAIN store, store[i].file = p.file
    PROVE  IsIn(p.id, store) /\ i = Position(p.id, store) /\ store[i].id = p.id
<1>1. store \in Seq(Profile)
  BY DEF Types, StoreTypes
<1>2. IsIn(p.id, store) /\ Get(p.id, store).file = p.file
  BY DEF SaveFits
<1>3. Position(p.id, store) \in DOMAIN store /\ Get(p.id, store) = store[Position(p.id, store)] /\ Get(p.id, store).id = p.id
  BY <1>1, <1>2, GetType
<1>4. i = Position(p.id, store)
  BY <1>2, <1>3 DEF StoreFits
<1>5. QED
  BY <1>2, <1>3, <1>4

\* The calls after the first one that save: of a profile in memory, in a file that is not that of the first one.
LEMMA LaterSave ==
    ASSUME Types, Kept, work # <<>>, NEW i \in DOMAIN work, i # 1, work[i].do \in Saves
    PROVE  /\ work[i].do = "truncate" /\ work[i].with \in Profile /\ SaveFits(work[i].with)
           /\ IsIn(work[i].with.id, store) /\ Get(work[i].with.id, store).name = work[i].with.name
           /\ Get(work[i].with.id, store).file = work[i].with.file
           /\ Position(work[i].with.id, store) \in DOMAIN store
           /\ Get(work[i].with.id, store) = store[Position(work[i].with.id, store)]
           /\ Head(work).do \in Saves => work[i].with.id # Subject.id /\ work[i].with.file # Subject.file
<1> DEFINE q == work[i].with
<1>1. work \in Seq(Call) /\ store \in Seq(Profile) /\ i > 1
  BY DEF Types, WorkTypes, StoreTypes
<1>2. q \in Profile
  <2>1. work[i] \in Call
    BY <1>1
  <2>2. QED
    BY <2>1 DEF Call
<1>3. work[i].do = "truncate" /\ SaveFits(q)
  <2>1. q \in ToSave
    BY DEF ToSave
  <2>2. QED
    BY <1>1, <2>1 DEF Kept, WorkFits, WorkShape, Saves
<1>4. IsIn(q.id, store) /\ Get(q.id, store).name = q.name /\ (q.id # Subject.id \/ Head(work).do = "forget")
  BY <1>1, <1>3 DEF Kept, WorkShape
<1>5. Get(q.id, store).file = q.file
  BY <1>3, <1>4 DEF SaveFits
<1>6. Position(q.id, store) \in DOMAIN store /\ Get(q.id, store) = store[Position(q.id, store)] /\ Get(q.id, store).id = q.id
  BY <1>1, <1>4, GetType
<1>7. ASSUME Head(work).do \in Saves PROVE q.id # Subject.id /\ q.file # Subject.file
  <2>1. q.id # Subject.id
    BY <1>4, <1>7 DEF Saves
  <2>a. 1 \in DOMAIN work /\ Head(work) = work[1] /\ Subject = work[1].with /\ Subject \in Profile
    BY WorkGoesOn
  <2>b. Subject \in ToSave
    BY <1>7, <2>a DEF ToSave
  <2>2. SaveFits(Subject) /\ Subject \in Profile
    BY <2>a, <2>b DEF Kept, WorkFits
  <2>3. QED
    BY <1>5, <1>6, <2>1, <2>2, SavesItsOwn DEF Kept
<1>8. QED
  BY <1>2, <1>3, <1>4, <1>5, <1>6, <1>7

\* A file is truncated or written, or is not.
LEMMA KeptFile ==
    ASSUME Types, Kept, Truncate \/ Write \/ WriteFails
    PROVE  Kept'
<1>1. work # <<>> /\ Head(work).do \in {"truncate", "write"} /\ running
  BY DEF Truncate, Write, WriteFails, Doing
<1>2. PICK do \in {"write", "put"} : Then(do) /\ (do = "write" => Truncate) /\ (do = "put" => Write \/ WriteFails)
  BY DEF Truncate, Write, WriteFails
<1>3. store' = store /\ order' = order /\ form' = form /\ running' = running /\ used' = used /\ fetches' = fetches
      /\ astray' = astray
  BY DEF Truncate, Write, WriteFails, memory, disk, history
<1>4. /\ Head(work) = work[1] /\ 1 \in DOMAIN work /\ Subject \in Profile /\ Subject = work[1].with
      /\ work' # <<>> /\ DOMAIN work' = DOMAIN work /\ Head(work') = [do |-> do, with |-> Subject]
      /\ work'[1] = [do |-> do, with |-> Subject] /\ \A i \in DOMAIN work : i # 1 => work'[i] = work[i]
  BY <1>1, <1>2, WorkGoesOn DEF Calls, Saves
<1>5. Subject' = Subject /\ SaveFits(Subject) /\ Subject.file \in AllIds
  <2>1. Subject \in ToSave
    BY <1>1, <1>4 DEF ToSave, Saves
  <2>2. QED
    BY <1>4, <2>1 DEF Subject, Kept, WorkFits, Profile
<1>6. /\ files' \in {files, [files EXCEPT ![Subject.file] = Empty], [files EXCEPT ![Subject.file] = Whole(Subject)]}
      /\ do = "put" => files'[Subject.file] = Whole(Subject) \/ Subject.file \in lost'
      /\ lost \subseteq lost' \cup {Subject.file}
  BY <1>2, <1>5 DEF Truncate, Write, WriteFails, disk, history, Types, DiskTypes
<1>7. /\ \A f \in AllIds : f # Subject.file => files'[f] = files[f]
      /\ files'[Subject.file] \in {files[Subject.file], Empty, Whole(Subject)}
  BY <1>5, <1>6 DEF Types, DiskTypes
<1>8. \A i \in DOMAIN store : store[i] \in Profile /\ store[i].file \in AllIds
  <2>1. \A i \in DOMAIN store : store[i] \in Profile
    BY DEF Types, StoreTypes
  <2>2. QED
    BY <2>1 DEF Profile
<1>a. /\ Empty.state = "empty" /\ Whole(Subject).state = "whole" /\ Whole(Subject).with = Subject
  BY DEF Empty, Whole
<1>9. StoreFits'
  BY <1>3 DEF StoreFits, GivenOut, Kept
<1>10. FilesFit'
  BY <1>3, <1>5, <1>7, <1>a DEF FilesFit, GivenOut, Kept, SaveFits
<1>11. \A p \in Profile : p.id = Subject.id \/ p.file # Subject.file => (KeepsId(p) => KeepsId(p)')
  BY <1>5, <1>7, <1>a DEF KeepsId, Profile
<1>12. IdsKept'
  <2>1. \A i \in DOMAIN store : store[i].id = Subject.id \/ store[i].file # Subject.file
    BY <1>4, <1>5, SavesItsOwn DEF Kept
  <2>2. QED
    BY <1>3, <1>8, <1>11, <2>1 DEF IdsKept, Kept
<1>13. FilesKnown'
  <2>1. ASSUME NEW f \in AllIds, files'[f].state # "missing", f \notin lost', f # Subject.file
        PROVE  \E i \in DOMAIN store : store[i].file = f
    BY <1>1, <1>6, <1>7, <2>1 DEF FilesKnown, Kept
  <2>2. At({"write", "put", "unlink"})'
    BY <1>2, <1>4 DEF At
  <2>3. QED
    BY <1>3, <1>5, <2>1, <2>2 DEF FilesKnown
<1>14. WorkFits'
  <2>1. ASSUME NEW q \in ToSave' PROVE SaveFits(q)'
    <3>1. PICK i \in DOMAIN work : q = work'[i].with /\ work'[i].do \in Saves
      BY <1>4 DEF ToSave
    <3>2. CASE i = 1
      <4>1. q = Subject
        BY <1>4, <3>1, <3>2
      <4>2. KeepsId(q)'
        BY <1>4, <1>5, <1>11, <4>1 DEF SaveFits
      <4>3. QED
        BY <1>3, <1>5, <4>1, <4>2 DEF SaveFits, GivenOut
    <3>3. CASE i # 1
      <4>1. q = work[i].with /\ work[i].do \in Saves
        BY <1>4, <3>1, <3>3
      <4>2. q \in Profile /\ SaveFits(q) /\ q.file # Subject.file
        BY <1>1, <3>3, <4>1, LaterSave DEF Saves
      <4>3. KeepsId(q)'
        BY <1>11, <4>2 DEF SaveFits
      <4>4. QED
        BY <1>3, <4>2, <4>3 DEF SaveFits, GivenOut
    <3>4. QED
      BY <3>2, <3>3
  <2>2. ~At({"unlink"})'
    BY <1>2, <1>4 DEF At
  <2>3. At({"put"})' => do = "put"
    BY <1>4 DEF At
  <2>4. QED
    BY <1>4, <1>5, <1>6, <2>1, <2>2, <2>3 DEF WorkFits
<1>15. WorkShape'
  <2>1. Head(work).do # "forget" /\ Head(work').do # "forget"
    BY <1>1, <1>2, <1>4
  <2>2. work'[1].do \in Saves
    BY <1>4 DEF Saves
  <2>3. QED
    BY <1>3, <1>4, <1>5, <2>1, <2>2 DEF WorkShape, Kept
<1>16. Stopped'
  BY <1>1, <1>3 DEF Stopped
<1>17. RowsFit' /\ OwnerFits'
  <2>1. At(Saves) /\ At(Saves)'
    BY <1>1, <1>2, <1>4 DEF At, Saves
  <2>2. Settled' = Settled
    BY <1>3, <1>5, <2>1 DEF Settled
  <2>3. QED
    BY <1>3, <2>2 DEF RowsFit, OwnerFits, Kept
<1>18. OrderFits'
  <2>1. ~At({"unlink", "clear", "order"})
    BY <1>1 DEF At
  <2>2. Agrees' <=> Agrees
    BY <1>3 DEF Agrees, Known, Place
  <2>3. Distinct(store)' <=> Distinct(store)
    BY <1>3
  <2>4. QED
    BY <1>1, <1>3, <2>1, <2>2, <2>3 DEF OrderFits, Kept
<1>19. FilesHoldStore'
  <2>1. InWork' = {Subject.file}
    BY <1>2, <1>4, <1>5 DEF InWork
  <2>2. InWork \subseteq {Subject.file}
    BY DEF InWork
  <2>3. \A p \in Profile : HoldsIt(p) => HoldsIt(p)'
    <3>1. SUFFICES ASSUME NEW p \in Profile, HoldsIt(p), p.file # Subject.file PROVE HoldsIt(p)'
      BY <2>1 DEF HoldsIt
    <3>2. files'[p.file] = files[p.file] /\ Load(p.file)' = Load(p.file)
      BY <1>7, <3>1 DEF Load, Profile
    <3>3. QED
      BY <1>6, <2>1, <2>2, <3>1, <3>2 DEF HoldsIt
  <2>4. QED
    BY <1>3, <1>8, <2>3, HoldsAll DEF Kept, FilesHoldStore, HoldsIt
<1>20. QED
  BY <1>9, <1>10, <1>12, <1>13, <1>14, <1>15, <1>16, <1>17, <1>18, <1>19 DEF Kept

\* The rows of a memory tell its identifiers.
LEMMA RowsTell ==
    ASSUME NEW s \in Seq(Profile), NEW t \in Seq(Profile), Rows(s) = Rows(t)
    PROVE  /\ DOMAIN s = DOMAIN t /\ \A i \in DOMAIN s : s[i].id = t[i].id
           /\ Distinct(s) <=> Distinct(t)
           /\ \A id : IsIn(id, s) <=> IsIn(id, t)
<1>1. DOMAIN s = DOMAIN t /\ \A i \in DOMAIN s : s[i].id = t[i].id
  BY RowsType
<1>2. QED
  BY <1>1 DEF Distinct, IsIn

\* Saving a profile under its name does not change the rows.
LEMMA SameRows ==
    ASSUME NEW s \in Seq(Profile), NEW p \in Profile, IsIn(p.id, s), Get(p.id, s).name = p.name
    PROVE  Rows(Put(p, s)) = Rows(s)
<1> DEFINE k == Position(p.id, s)
<1>1. /\ k \in DOMAIN s /\ s[k].id = p.id /\ DOMAIN Put(p, s) = DOMAIN s /\ Put(p, s)[k] = p
      /\ \A i \in DOMAIN s : i # k => Put(p, s)[i] = s[i]
  BY PutReplaces
<1>2. s[k].name = p.name
  BY DEF Get
<1> HIDE DEF k
<1>3. \A i \in DOMAIN s : Put(p, s)[i].id = s[i].id /\ Put(p, s)[i].name = s[i].name
  BY <1>1, <1>2
<1>4. QED
  BY <1>1, <1>3 DEF Rows

LEMMA SettledType == Types => Settled \in Seq(Profile)
<1> SUFFICES ASSUME Types PROVE Settled \in Seq(Profile)
  OBVIOUS
<1>1. store \in Seq(Profile)
  BY DEF Types, StoreTypes
<1>2. CASE At(Saves)
  BY <1>1, <1>2, WorkGoesOn, PutReplaces, PutAppends DEF Settled, At
<1>3. CASE ~At(Saves)
  BY <1>1, <1>3 DEF Settled
<1>4. QED
  BY <1>2, <1>3

\* Rows that do not change fit as before.
LEMMA RowsStay ==
    ASSUME Types, Types', RowsFit, OwnerFits, form' = form, Rows(Settled') = Rows(Settled)
    PROVE  RowsFit' /\ OwnerFits'
<1>1. Settled \in Seq(Profile) /\ Settled' \in Seq(Profile)
  <2>1. (Types => Settled \in Seq(Profile))'
    BY SettledType, PTL
  <2>2. QED
    BY <2>1, SettledType
<1>2. /\ Distinct(Settled') <=> Distinct(Settled)
      /\ \A id : IsIn(id, Settled') <=> IsIn(id, Settled)
  BY <1>1, RowsTell
<1>3. RowsFit'
  BY <1>2 DEF RowsFit, RowsOf
<1>4. OwnerFits'
  BY DEF OwnerFits
<1>5. QED
  BY <1>3, <1>4

\* A step that finds every profile as before, but for the one that it saves, and forgets no identifier of a file.
OthersStay ==
    \A id : IsIn(id, store) /\ (id # Subject.id \/ store' = store) =>
                IsIn(id, store') /\ Get(id, store') = Get(id, store)
IdsStay == \A p \in Profile : KeepsId(p) => KeepsId(p)'

\* When a call has come to its end, the next one begins.
LEMMA NextCall ==
    ASSUME Types, Kept, work # <<>>, Done, Types', form' = form, files' = files, used' = used, OthersStay,
           Head(work).do \in Saves \/ store' = store,
           Rows(store') = Rows(Settled)
    PROVE  /\ ~At({"write", "put", "unlink", "clear", "order"})' /\ InWork' = {}
           /\ WorkFits' /\ WorkShape' /\ RowsFit' /\ OwnerFits'
<1>1. /\ Head(work) = work[1] /\ 1 \in DOMAIN work /\ Subject = work[1].with
      /\ work' \in Seq(Call) /\ DOMAIN work' = 1..(Len(work) - 1) /\ DOMAIN work = 1..Len(work) /\ Len(work) \in Nat
      /\ \A i \in DOMAIN work' : i + 1 \in DOMAIN work /\ i + 1 # 1 /\ work'[i] = work[i + 1]
      /\ work' # <<>> => 1 \in DOMAIN work' /\ Head(work') = work'[1] /\ 2 \in DOMAIN work /\ work'[1] = work[2]
  BY WorkGoesOn DEF Types, WorkTypes
<1>2. \A i \in DOMAIN work' : work'[i].do \in {"truncate", "forget"}
  <2>1. ASSUME NEW i \in DOMAIN work' PROVE work'[i].do \in {"truncate", "forget"}
    <3>1. i + 1 \in DOMAIN work /\ work'[i] = work[i + 1] /\ i + 1 > 1
      BY <1>1
    <3>2. QED
      BY <3>1 DEF Kept, WorkShape
  <2>2. QED
    BY <2>1
<1>3. ASSUME NEW i \in DOMAIN work', work'[i].do \in Saves
      PROVE  /\ work'[i].with \in Profile /\ SaveFits(work'[i].with)
             /\ IsIn(work'[i].with.id, store') /\ Get(work'[i].with.id, store').name = work'[i].with.name
             /\ Get(work'[i].with.id, store').file = work'[i].with.file
  <2>1. PICK j \in DOMAIN work : j # 1 /\ work'[i] = work[j] /\ work[j].do \in Saves
    BY <1>1, <1>3
  <2>2. QED
    BY <2>1, LaterSave DEF OthersStay
<1>4. work' # <<>> => work'[1].do \in {"truncate", "forget"}
  BY <1>1, <1>2
<1>5. ~At({"write", "put", "unlink", "clear", "order"})' /\ InWork' = {}
  BY <1>1, <1>4 DEF At, InWork
<1>6. WorkFits'
  <2>1. ASSUME NEW q \in ToSave' PROVE SaveFits(q)'
    <3>1. PICK i \in DOMAIN work' : q = work'[i].with /\ work'[i].do \in Saves
      BY DEF ToSave
    <3>2. /\ q \in Profile /\ SaveFits(q) /\ IsIn(q.id, store') /\ Get(q.id, store').file = q.file
      BY <1>3, <3>1
    <3>3. QED
      BY <3>2 DEF SaveFits, KeepsId, GivenOut
  <2>2. ~At({"unlink"})' /\ ~At({"put"})'
    BY <1>1, <1>4 DEF At
  <2>3. QED
    BY <2>1, <2>2 DEF WorkFits
<1>7. WorkShape'
  <2>1. \A i \in DOMAIN work' : work'[i].do \in Saves \cup {"unlink", "clear", "order", "forget"}
    BY <1>2 DEF Saves
  <2>2. ASSUME NEW i \in DOMAIN work', i > 1, work'[i].do = "truncate"
        PROVE  /\ IsIn(work'[i].with.id, store') /\ Get(work'[i].with.id, store').name = work'[i].with.name
               /\ Head(work').do = "forget"
    <3>1. i + 1 \in DOMAIN work /\ work'[i] = work[i + 1] /\ work' # <<>>
      BY <1>1
    <3>a. 2 \in DOMAIN work /\ work'[1] = work[2] /\ 1 < 2 /\ 1 < i + 1 /\ i + 1 # 2
      BY <1>1, <2>2, <3>1
    <3>2. ~(work[2].do = "truncate")
      BY <2>2, <3>1, <3>a DEF Kept, WorkShape
    <3>3. Head(work').do = "forget"
      BY <1>1, <1>4, <3>1, <3>2
    <3>4. QED
      BY <1>3, <2>2, <3>3 DEF Saves
  <2>3. ASSUME NEW i \in DOMAIN work', NEW j \in DOMAIN work', 1 < i, 1 < j,
               work'[i].do = "truncate", work'[j].do = "truncate"
        PROVE  i = j
    <3>1. /\ i + 1 \in DOMAIN work /\ work[i + 1].do = "truncate" /\ 1 < i + 1
          /\ j + 1 \in DOMAIN work /\ work[j + 1].do = "truncate" /\ 1 < j + 1
      BY <1>1, <2>3
    <3>2. i + 1 = j + 1
      BY <3>1 DEF Kept, WorkShape
    <3>3. QED
      BY <1>1, <3>2
  <2>4. QED
    BY <1>2, <2>1, <2>2, <2>3 DEF WorkShape
<1>8. RowsFit' /\ OwnerFits'
  <2>1. store' \in Seq(Profile)
    BY DEF Types, StoreTypes
  <2>2. Rows(Settled') = Rows(store')
    <3>1. CASE At(Saves)'
      <4>1. 1 \in DOMAIN work' /\ work'[1].do \in Saves /\ Subject' = work'[1].with
        BY <1>1, <3>1 DEF At, Subject
      <4>2. /\ Subject' \in Profile /\ IsIn(Subject'.id, store') /\ Get(Subject'.id, store').name = Subject'.name
        BY <1>3, <4>1
      <4>3. Settled' = Put(Subject', store')
        BY <3>1 DEF Settled
      <4>4. QED
        BY <2>1, <4>2, <4>3, SameRows
    <3>2. CASE ~At(Saves)'
      BY <3>2 DEF Settled
    <3>3. QED
      BY <3>1, <3>2
  <2>3. QED
    BY <2>2, RowsStay DEF Kept
<1>9. QED
  BY <1>5, <1>6, <1>7, <1>8

\* What the first call does, as far as it has come.
LEMMA FirstCall ==
    ASSUME Types, Kept, work # <<>>
    PROVE  /\ Subject \in Profile /\ Subject.file \in AllIds /\ Subject.id \in AllIds
           /\ Head(work).do \in Saves => SaveFits(Subject) /\ At(Saves)
           /\ \A i \in DOMAIN store : store[i] \in Profile /\ store[i].file \in AllIds
<1>1. Head(work) = work[1] /\ 1 \in DOMAIN work /\ Subject \in Profile /\ Subject = work[1].with
  BY WorkGoesOn
<1>2. Head(work).do \in Saves => Subject \in ToSave
  BY <1>1 DEF ToSave
<1>3. \A i \in DOMAIN store : store[i] \in Profile
  BY DEF Types, StoreTypes
<1>4. QED
  BY <1>1, <1>2, <1>3 DEF Profile, Kept, WorkFits, At

\* A profile that has been written is read as the same one.
LEMMA WrittenIsSame ==
    ASSUME NEW p \in Profile, files[p.file] = Whole(p)
    PROVE  Same(Load(p.file), p)
<1>1. PICK l : l = IF p.look = "color" THEN "plain" ELSE p.look
  OBVIOUS
<1>2. Load(p.file) = [[p EXCEPT !.look = l] EXCEPT !.file = p.file]
  BY <1>1 DEF Load, Whole, Reread
<1>3. Load(p.file) = [p EXCEPT !.look = l]
  BY <1>2 DEF Profile
<1>4. [[p EXCEPT !.look = l] EXCEPT !.look = p.look] = p /\ [p EXCEPT !.look = l].look = l
  BY DEF Profile
<1>5. l = "icon" <=> p.look = "icon"
  BY <1>1
<1>6. QED
  BY <1>3, <1>4, <1>5 DEF Same

\* The order agrees with any memory of the same identifiers.
LEMMA AgreesStays ==
    ASSUME order' = order, DOMAIN store' = DOMAIN store, \A i \in DOMAIN store : store'[i].id = store[i].id
    PROVE  /\ Distinct(store') <=> Distinct(store)
           /\ Agrees' <=> Agrees
<1>1. \A id : (Known(id)' <=> Known(id)) /\ Place(id)' = Place(id)
  BY DEF Known, Place
<1>2. Agrees' <=>
          (\A i, j \in DOMAIN store' :
               i < j /\ Known(store'[j].id) =>
                   Known(store'[i].id) /\ Place(store'[i].id) < Place(store'[j].id))
  BY <1>1 DEF Agrees, Known, Place
<1>3. QED
  BY <1>2 DEF Agrees, Distinct

\* The saved profile takes its place, ...
LEMMA KeptPut ==
    ASSUME Types, Kept, PutInStore, Types', IsIn(Subject.id, store)
    PROVE  Kept'
<1>1. /\ work # <<>> /\ Head(work).do = "put" /\ running /\ Done /\ store' = Put(Subject, store)
      /\ UNCHANGED <<files, order, running, form, fetches, used, lost, astray>>
  BY DEF PutInStore, Doing, disk, history
<1>2. /\ Subject \in Profile /\ SaveFits(Subject) /\ At(Saves) /\ store \in Seq(Profile)
      /\ \A i \in DOMAIN store : store[i] \in Profile
  BY <1>1, FirstCall DEF Saves, Types, StoreTypes
<1>3. PICK k \in DOMAIN store :
          /\ k = Position(Subject.id, store)
          /\ store[k].id = Subject.id /\ DOMAIN store' = DOMAIN store /\ store'[k] = Subject
          /\ \A i \in DOMAIN store : i # k => store'[i] = store[i]
          /\ \A i \in DOMAIN store : store'[i].id = store[i].id
  BY <1>1, <1>2, PutReplaces
<1>4. Get(Subject.id, store) = store[k]
  BY <1>3 DEF Get
<1>5. store[k].file = Subject.file
  BY <1>2, <1>4 DEF SaveFits
<1>6. \A i \in DOMAIN store : store'[i].file = store[i].file
  BY <1>3, <1>5
<1>7. StoreFits'
  <2>1. IdFits(Subject) /\ Subject.file \in GivenOut
    BY <1>2 DEF SaveFits
  <2>2. \A i \in DOMAIN store : IdFits(store[i]) /\ store[i].file \in GivenOut
    BY DEF Kept, StoreFits
  <2>3. \A i \in DOMAIN store' : IdFits(store'[i]) /\ store'[i].file \in GivenOut'
    BY <1>1, <1>3, <2>1, <2>2 DEF GivenOut
  <2>4. \A i, j \in DOMAIN store' : store'[i].file = store'[j].file => i = j
    BY <1>3, <1>6 DEF Kept, StoreFits
  <2>5. QED
    BY <2>3, <2>4 DEF StoreFits
<1>8. FilesFit'
  BY <1>1 DEF Kept, FilesFit, GivenOut
<1>9. IdsKept'
  <2>1. KeepsId(Subject) /\ \A i \in DOMAIN store : KeepsId(store[i])
    BY <1>2 DEF SaveFits, Kept, IdsKept
  <2>2. \A p : KeepsId(p)' <=> KeepsId(p)
    BY <1>1 DEF KeepsId
  <2>3. QED
    BY <1>3, <2>1, <2>2 DEF IdsKept
<1>10. FilesKnown'
  <2>1. ASSUME NEW f \in AllIds, files[f].state # "missing", f \notin lost PROVE \E i \in DOMAIN store : store[i].file = f
    BY <1>1, <1>3, <1>5, <2>1 DEF Kept, FilesKnown
  <2>2. QED
    BY <1>1, <1>3, <1>6, <2>1 DEF FilesKnown
<1>11. /\ ~At({"write", "put", "unlink", "clear", "order"})' /\ InWork' = {}
       /\ WorkFits' /\ WorkShape' /\ RowsFit' /\ OwnerFits'
  <2>1. OthersStay
    BY <1>1, <1>2, PutFinds DEF OthersStay
  <2>2. Rows(store') = Rows(Settled)
    BY <1>1, <1>2 DEF Settled
  <2>3. QED
    BY <1>1, <2>1, <2>2, NextCall DEF Saves
<1>12. Stopped'
  BY <1>1 DEF Stopped
<1>13. OrderFits'
  <2>1. ~At({"unlink", "clear", "order"})
    BY <1>1 DEF At
  <2>2. (Distinct(store') <=> Distinct(store)) /\ (Agrees' <=> Agrees)
    BY <1>1, <1>3, AgreesStays
  <2>3. Distinct(store) /\ ~astray => Agrees
    BY <1>1, <2>1 DEF Kept, OrderFits
  <2>4. QED
    BY <1>1, <2>2, <2>3 DEF OrderFits
<1>14. FilesHoldStore'
  <2>1. InWork = {Subject.file}
    BY <1>1 DEF InWork
  <2>2. ASSUME NEW i \in DOMAIN store, i # k PROVE HoldsIt(store[i])'
    <3>1. HoldsIt(store[i]) /\ store[i].file # Subject.file
      BY <1>1, <1>3, <1>5, <2>2, HoldsAll DEF Kept, StoreFits
    <3>2. store'[i] = store[i]
      BY <1>3, <2>2
    <3>3. QED
      BY <1>1, <1>11, <2>1, <3>1, <3>2 DEF HoldsIt, Load
  <2>3. HoldsIt(store[k])'
    <3>1. files[Subject.file] = Whole(Subject) \/ Subject.file \in lost
      BY <1>1 DEF Kept, WorkFits, At
    <3>2. Subject.file \in lost \/ Same(Load(Subject.file), Subject)
      BY <1>2, <3>1, WrittenIsSame
    <3>3. \A f : Load(f)' = Load(f)
      BY <1>1 DEF Load
    <3>4. PICK p : p = Subject
      OBVIOUS
    <3>5. HoldsIt(p)'
      BY <1>1, <3>2, <3>3, <3>4 DEF HoldsIt
    <3>6. QED
      BY <1>3, <3>4, <3>5 DEF HoldsIt
  <2>4. (FilesHoldStore <=> (running => \A i \in DOMAIN store : HoldsIt(store[i])))'
    BY HoldsAll, PTL
  <2>5. QED
    BY <1>1, <1>3, <2>2, <2>3, <2>4
<1>15. QED
  BY <1>7, <1>8, <1>9, <1>10, <1>11, <1>12, <1>13, <1>14 DEF Kept

\* While the order is written, the calls after it wait.
LEMMA SameCall ==
    ASSUME Types, Kept, work # <<>>, Types', NEW d \in {"clear", "order"}, Then(d),
           ~At({"forget"}), used' = used, form' = form,
           IdsStay, OthersStay,
           At(Saves) \/ store' = store,
           Rows(store') = Rows(Settled)
    PROVE  /\ InWork' = {} /\ ~At(Saves)' /\ At({"unlink", "clear", "order"})'
           /\ WorkFits' /\ WorkShape' /\ RowsFit' /\ OwnerFits'
<1>1. /\ Head(work) = work[1] /\ 1 \in DOMAIN work /\ Subject = work[1].with
      /\ work' # <<>> /\ DOMAIN work' = DOMAIN work /\ Head(work') = work'[1]
      /\ work'[1] = [do |-> d, with |-> Subject] /\ \A i \in DOMAIN work : i # 1 => work'[i] = work[i]
  <2>1. d \in Calls
    BY DEF Calls
  <2>2. QED
    BY <2>1, WorkGoesOn
<1>2. Head(work').do = d /\ Head(work').with = Subject /\ work'[1].do = d
  BY <1>1
<1>3. Subject' = Subject
  BY <1>2 DEF Subject
<1>4. d \notin Saves /\ d \notin {"write", "put", "unlink"} /\ d # "forget"
  BY DEF Saves
<1>5. InWork' = {} /\ ~At(Saves)' /\ ~At({"unlink"})' /\ ~At({"put"})' /\ At({"unlink", "clear", "order"})'
  BY <1>1, <1>2, <1>4 DEF InWork, At
<1>6. \A i \in DOMAIN work : i \in Nat \ {0}
  BY DEF Types, WorkTypes
<1>7. ASSUME NEW i \in DOMAIN work, i # 1
      PROVE  /\ work[i].do \in {"truncate", "forget"}
             /\ work[i].do \in Saves =>
                    /\ work[i].with \in Profile /\ SaveFits(work[i].with) /\ work[i].with.id # Subject.id
                    /\ IsIn(work[i].with.id, store') /\ Get(work[i].with.id, store').name = work[i].with.name
                    /\ Get(work[i].with.id, store').file = work[i].with.file
  <2>1. i > 1
    BY <1>6, <1>7
  <2>2. work[i].do \in {"truncate", "forget"}
    BY <2>1 DEF Kept, WorkShape
  <2>3. ASSUME work[i].do \in Saves
        PROVE  /\ work[i].with \in Profile /\ SaveFits(work[i].with) /\ work[i].with.id # Subject.id
               /\ IsIn(work[i].with.id, store') /\ Get(work[i].with.id, store').name = work[i].with.name
               /\ Get(work[i].with.id, store').file = work[i].with.file
    <3>1. work[i].do = "truncate"
      BY <2>2, <2>3 DEF Saves
    <3>2. work[i].with.id # Subject.id
      BY <2>1, <3>1 DEF Kept, WorkShape, At
    <3>3. QED
      BY <1>7, <2>3, <3>2, LaterSave DEF OthersStay, At
  <2>4. QED
    BY <2>2, <2>3
<1>8. WorkFits'
  <2>1. ASSUME NEW q \in ToSave' PROVE SaveFits(q)'
    <3>1. PICK i \in DOMAIN work : q = work'[i].with /\ work'[i].do \in Saves
      BY <1>1 DEF ToSave
    <3>2. i # 1
      BY <1>2, <1>4, <3>1
    <3>3. q = work[i].with /\ work[i].do \in Saves
      BY <1>1, <3>1, <3>2
    <3>4. q \in Profile /\ SaveFits(q) /\ IsIn(q.id, store') /\ Get(q.id, store').file = q.file
      BY <1>7, <3>2, <3>3
    <3>5. QED
      BY <3>4 DEF SaveFits, GivenOut, IdsStay
  <2>2. QED
    BY <1>5, <2>1 DEF WorkFits
<1>9. WorkShape'
  <2>1. ASSUME NEW i \in DOMAIN work PROVE work'[i].do \in Saves \cup {"unlink", "clear", "order", "forget"}
    BY <1>1, <1>2, <1>7 DEF Saves
  <2>2. ASSUME NEW i \in DOMAIN work, i > 1
        PROVE  /\ work'[i].do \in {"truncate", "forget"} /\ work'[i] = work[i]
               /\ work'[i].do = "truncate" =>
                      /\ IsIn(work'[i].with.id, store') /\ Get(work'[i].with.id, store').name = work'[i].with.name
                      /\ work'[i].with.id # Subject'.id
    <3>1. i # 1 /\ work'[i] = work[i]
      BY <1>1, <2>2
    <3>2. QED
      BY <1>3, <1>7, <3>1 DEF Saves
  <2>3. ASSUME NEW i \in DOMAIN work, NEW j \in DOMAIN work, 1 < i, 1 < j,
               work'[i].do = "truncate", work'[j].do = "truncate"
        PROVE  i = j
    <3>1. work[i].do = "truncate" /\ work[j].do = "truncate"
      BY <2>2, <2>3
    <3>2. QED
      BY <2>3, <3>1 DEF Kept, WorkShape
  <2>4. QED
    BY <1>1, <2>1, <2>2, <2>3 DEF WorkShape
<1>10. RowsFit' /\ OwnerFits'
  <2>1. Settled' = store'
    BY <1>5 DEF Settled
  <2>2. QED
    BY <2>1, RowsStay DEF Kept
<1>11. QED
  BY <1>5, <1>8, <1>9, <1>10

\* ... or is added, and the order has to be written.
LEMMA KeptAdd ==
    ASSUME Types, Kept, PutInStore, Types', ~IsIn(Subject.id, store)
    PROVE  Kept'
<1>1. /\ work # <<>> /\ Head(work).do = "put" /\ running /\ Then("clear") /\ store' = Put(Subject, store)
      /\ UNCHANGED <<files, order, running, form, fetches, used, lost, astray>>
  BY DEF PutInStore, Doing, disk, history
<1>2. /\ Subject \in Profile /\ SaveFits(Subject) /\ At(Saves) /\ store \in Seq(Profile) /\ Subject.file \in AllIds
      /\ \A i \in DOMAIN store : store[i] \in Profile
  BY <1>1, FirstCall DEF Saves, Types, StoreTypes
<1>3. PICK n \in Nat : n = Len(store) /\ DOMAIN store = 1..n
  BY <1>2
<1>a. /\ DOMAIN store' = 1..(Len(store) + 1) /\ store'[Len(store) + 1] = Subject
      /\ \A i \in DOMAIN store : store'[i] = store[i]
  <2>1. Subject \in Profile /\ store \in Seq(Profile) /\ store' = Put(Subject, store)
    BY <1>1, <1>2
  <2>2. QED
    BY <2>1, PutAppends
<1>4. /\ DOMAIN store = 1..n /\ DOMAIN store' = 1..(n + 1) /\ store'[n + 1] = Subject
      /\ \A i \in DOMAIN store : store'[i] = store[i]
      /\ \A i \in DOMAIN store' : i \in DOMAIN store \/ i = n + 1
  BY <1>3, <1>a
<1>5. \A i \in DOMAIN store : store[i].file # Subject.file
  BY <1>2 DEF SaveFits
<1>8. StoreFits'
  <2>1. IdFits(Subject) /\ Subject.file \in GivenOut
    BY <1>2 DEF SaveFits
  <2>2. \A i \in DOMAIN store : IdFits(store[i]) /\ store[i].file \in GivenOut
    BY DEF Kept, StoreFits
  <2>3. \A i \in DOMAIN store' : IdFits(store'[i]) /\ store'[i].file \in GivenOut'
    BY <1>1, <1>4, <2>1, <2>2 DEF GivenOut
  <2>4. ASSUME NEW i \in DOMAIN store', NEW j \in DOMAIN store', store'[i].file = store'[j].file PROVE i = j
    <3>1. i \in DOMAIN store <=> j \in DOMAIN store
      BY <1>4, <1>5, <2>4
    <3>2. CASE i \in DOMAIN store
      BY <1>4, <2>4, <3>1, <3>2 DEF Kept, StoreFits
    <3>3. CASE i \notin DOMAIN store
      BY <1>4, <3>1, <3>3
    <3>4. QED
      BY <3>2, <3>3
  <2>5. QED
    BY <2>3, <2>4 DEF StoreFits
<1>9. FilesFit'
  BY <1>1 DEF Kept, FilesFit, GivenOut
<1>10. IdsKept'
  <2>1. KeepsId(Subject) /\ \A i \in DOMAIN store : KeepsId(store[i])
    BY <1>2 DEF SaveFits, Kept, IdsKept
  <2>2. \A p : KeepsId(p)' <=> KeepsId(p)
    BY <1>1 DEF KeepsId
  <2>3. QED
    BY <1>4, <2>1, <2>2 DEF IdsKept
<1>11. FilesKnown'
  <2>1. ASSUME NEW f \in AllIds, files[f].state # "missing", f \notin lost, f # Subject.file PROVE \E i \in DOMAIN store : store[i].file = f
    BY <1>1, <2>1 DEF Kept, FilesKnown
  <2>2. n + 1 \in DOMAIN store' /\ DOMAIN store \subseteq DOMAIN store'
    BY <1>4
  <2>3. QED
    BY <1>1, <1>4, <2>1, <2>2 DEF FilesKnown
<1>12. /\ InWork' = {} /\ ~At(Saves)' /\ At({"unlink", "clear", "order"})'
       /\ WorkFits' /\ WorkShape' /\ RowsFit' /\ OwnerFits'
  <2>1. OthersStay
    <3>1. Subject \in Profile /\ store \in Seq(Profile) /\ store' = Put(Subject, store)
      BY <1>1, <1>2
    <3>2. \A id : IsIn(id, store) => IsIn(id, store') /\ (id # Subject.id => Get(id, store') = Get(id, store))
      BY <3>1, PutFinds
    <3>3. store' # store
      BY <1>3, <1>4
    <3>4. QED
      BY <3>2, <3>3 DEF OthersStay
  <2>2. Rows(store') = Rows(Settled)
    BY <1>1, <1>2 DEF Settled
  <2>3. IdsStay
    BY <1>1 DEF KeepsId, IdsStay
  <2>4. QED
    BY <1>1, <1>2, <2>1, <2>2, <2>3, SameCall DEF At
<1>13. Stopped'
  BY <1>1 DEF Stopped
<1>15. OrderFits'
  BY <1>12 DEF OrderFits
<1>16. FilesHoldStore'
  <2>1. InWork = {Subject.file}
    BY <1>1 DEF InWork
  <2>2. \A f : Load(f)' = Load(f)
    BY <1>1 DEF Load
  <2>3. ASSUME NEW i \in DOMAIN store, NEW p, p = store[i] PROVE HoldsIt(p)'
    <3>1. HoldsIt(p) /\ p.file # Subject.file
      BY <1>1, <1>5, <2>3, HoldsAll DEF Kept
    <3>2. QED
      BY <1>1, <1>12, <2>1, <2>2, <3>1 DEF HoldsIt
  <2>4. ASSUME NEW p, p = Subject PROVE HoldsIt(p)'
    <3>1. files[p.file] = Whole(p) \/ p.file \in lost
      BY <1>1, <2>4 DEF Kept, WorkFits, At
    <3>2. p.file \in lost \/ Same(Load(p.file), p)
      BY <1>2, <2>4, <3>1, WrittenIsSame
    <3>3. QED
      BY <1>1, <2>2, <3>2 DEF HoldsIt
  <2>5. (FilesHoldStore <=> (running => \A i \in DOMAIN store : HoldsIt(store[i])))'
    BY HoldsAll, PTL
  <2>6. \A i \in DOMAIN store' : HoldsIt(store[i])'
    BY <1>4, <2>3, <2>4
  <2>7. QED
    BY <2>5, <2>6
<1>17. QED
  BY <1>8, <1>9, <1>10, <1>11, <1>12, <1>13, <1>15, <1>16 DEF Kept

\* The file of a deleted profile goes or stays, and the order file is truncated.
LEMMA KeptClear ==
    ASSUME Types, Kept, Unlink \/ UnlinkFails \/ ClearOrder, Types'
    PROVE  Kept'
<1>1. /\ work # <<>> /\ running
      /\ UNCHANGED <<store, running, form, fetches, used>>
  BY DEF Unlink, UnlinkFails, ClearOrder, Doing, memory, disk, history
<1>2. PICK do \in {"clear", "order"} :
          /\ Then(do)
          /\ do = "clear" =>
                 /\ Head(work).do = "unlink" /\ lost \subseteq lost' \cup {Subject.file}
                 /\ \/ files' = [files EXCEPT ![Subject.file] = Missing]
                    \/ files' = files /\ Subject.file \in lost'
          /\ do = "order" => Head(work).do = "clear" /\ files' = files /\ lost' = lost
  BY DEF Unlink, UnlinkFails, ClearOrder, Doing, disk, history
<1>3. /\ Subject \in Profile /\ Subject.file \in AllIds
      /\ \A i \in DOMAIN store : store[i] \in Profile /\ store[i].file \in AllIds
  BY <1>1, FirstCall
<1>4. InWork = {} /\ ~At(Saves) /\ ~At({"forget"})
  BY <1>1, <1>2 DEF InWork, At, Saves
<1>5. (do = "clear") <=> At({"unlink"})
  BY <1>1, <1>2 DEF At
<1>6. \A f \in AllIds : files'[f] = files[f] \/ (files'[f].state = "missing" /\ f = Subject.file /\ At({"unlink"}))
  <2>1. CASE files' = [files EXCEPT ![Subject.file] = Missing] /\ do = "clear"
    <3>1. Missing.state = "missing"
      BY DEF Missing
    <3>2. QED
      BY <1>5, <2>1, <3>1 DEF Types, DiskTypes
  <2>2. CASE files' = files
    BY <2>2
  <2>3. QED
    BY <1>2, <2>1, <2>2
<1>7. \A f \in AllIds : files'[f] = files[f] \/ (files'[f].state = "missing" /\ \A i \in DOMAIN store : store[i].file # f)
  BY <1>6 DEF Kept, WorkFits
<1>8. StoreFits'
  BY <1>1 DEF StoreFits, GivenOut, Kept
<1>9. FilesFit'
  BY <1>1, <1>6 DEF FilesFit, GivenOut, Kept
<1>10. IdsStay
  <2>1. \A p \in Profile : p.file \in AllIds
    BY DEF Profile
  <2>2. QED
    BY <1>6, <2>1 DEF KeepsId, IdsStay
<1>11. IdsKept'
  BY <1>1, <1>3, <1>10 DEF IdsKept, Kept, IdsStay
<1>12. FilesKnown'
  <2>1. ASSUME NEW f \in AllIds, files'[f].state # "missing", f \notin lost' PROVE \E i \in DOMAIN store : store[i].file = f
    <3>1. files[f].state # "missing" /\ f \notin lost /\ (At({"unlink"}) => f # Subject.file)
      <4>1. files[f].state # "missing"
        BY <1>6, <2>1
      <4>2. ASSUME At({"unlink"}) PROVE f # Subject.file
        <5>1. \/ files' = [files EXCEPT ![Subject.file] = Missing]
              \/ Subject.file \in lost'
          BY <1>2, <1>5, <4>2
        <5>2. files' = [files EXCEPT ![Subject.file] = Missing] => files'[Subject.file] = Missing
          BY <1>3, <5>1 DEF Types, DiskTypes
        <5>3. Missing.state = "missing"
          BY DEF Missing
        <5>4. QED
          BY <2>1, <5>1, <5>2, <5>3
      <4>3. QED
        BY <1>2, <1>5, <2>1, <4>1, <4>2
    <3>2. At({"write", "put", "unlink"}) => At({"unlink"})
      BY <1>4 DEF At, Saves
    <3>3. QED
      BY <1>1, <3>1, <3>2 DEF Kept, FilesKnown
  <2>2. QED
    BY <1>1, <2>1 DEF FilesKnown
<1>13. /\ InWork' = {} /\ ~At(Saves)' /\ At({"unlink", "clear", "order"})'
       /\ WorkFits' /\ WorkShape' /\ RowsFit' /\ OwnerFits'
  <2>1. Rows(store') = Rows(Settled)
    BY <1>1, <1>4 DEF Settled
  <2>2. OthersStay
    BY <1>1 DEF OthersStay
  <2>3. QED
    BY <1>1, <1>2, <1>4, <1>10, <2>1, <2>2, SameCall
<1>15. Stopped'
  BY <1>1 DEF Stopped
<1>17. OrderFits'
  BY <1>13 DEF OrderFits
<1>18. FilesHoldStore'
  <2>1. ASSUME NEW i \in DOMAIN store, NEW p \in Profile, p = store[i] PROVE HoldsIt(p)'
    <3>1. HoldsIt(p) /\ p.file \in AllIds
      BY <1>1, <1>3, <2>1, HoldsAll DEF Kept
    <3>2. files'[p.file] = files[p.file]
      BY <1>7, <2>1, <3>1
    <3>3. Load(p.file)' = Load(p.file)
      BY <3>2 DEF Load
    <3>4. p.file \in lost => p.file \in lost'
      <4>1. At({"unlink"}) => p.file # Subject.file
        BY <2>1 DEF Kept, WorkFits
      <4>2. QED
        BY <1>2, <1>5, <4>1
    <3>5. QED
      BY <1>1, <1>4, <1>13, <3>1, <3>2, <3>3, <3>4 DEF HoldsIt
  <2>2. (FilesHoldStore <=> (running => \A i \in DOMAIN store : HoldsIt(store[i])))'
    BY HoldsAll, PTL
  <2>3. \A i \in DOMAIN store' : HoldsIt(store[i])'
    BY <1>1, <1>3, <2>1
  <2>4. QED
    BY <2>2, <2>3
<1>19. QED
  BY <1>8, <1>9, <1>11, <1>12, <1>13, <1>15, <1>17, <1>18 DEF Kept

\* The order file gets the order of the memory, or not.
LEMMA KeptOrdered ==
    ASSUME Types, Kept, WriteOrder \/ OrderFails \/ SpawnDeletion, Types'
    PROVE  Kept'
<1>1. /\ work # <<>> /\ running /\ Done /\ Head(work).do \in {"clear", "order", "forget"}
      /\ UNCHANGED <<files, store, running, form, fetches, used, lost>>
  BY DEF WriteOrder, OrderFails, SpawnDeletion, Doing, memory, disk, history
<1>2. InWork = {} /\ ~At(Saves) /\ ~At({"write", "put", "unlink"})
  BY <1>1 DEF InWork, At, Saves
<1>3. StoreFits' /\ FilesFit' /\ IdsKept'
  BY <1>1 DEF StoreFits, FilesFit, IdsKept, KeepsId, GivenOut, Kept
<1>4. FilesKnown'
  BY <1>1, <1>2 DEF FilesKnown, Kept
<1>5. /\ InWork' = {} /\ WorkFits' /\ WorkShape' /\ RowsFit' /\ OwnerFits'
  <2>1. Rows(store') = Rows(Settled)
    BY <1>1, <1>2 DEF Settled
  <2>2. OthersStay
    BY <1>1 DEF OthersStay
  <2>3. QED
    BY <1>1, <2>1, <2>2, NextCall
<1>6. Stopped'
  BY <1>1 DEF Stopped
<1>7. OrderFits'
  <2>1. CASE SpawnDeletion
    <3>1. order' = order /\ astray' = astray /\ ~At({"unlink", "clear", "order"})
      BY <2>1 DEF SpawnDeletion, disk, history, Doing, At
    <3>2. (Distinct(store') <=> Distinct(store)) /\ (Agrees' <=> Agrees)
      BY <1>1, <3>1, AgreesStays
    <3>3. QED
      BY <1>1, <3>1, <3>2 DEF OrderFits, Kept
  <2>2. CASE WriteOrder
    <3>1. order' = IdsOf(store)
      BY <2>2 DEF WriteOrder
    <3>2. DOMAIN order' = DOMAIN store /\ \A i \in DOMAIN store : order'[i] = store[i].id
      BY <3>1 DEF IdsOf
    <3>3. \A i \in DOMAIN store : i \in Nat
      BY DEF Types, StoreTypes
    <3>4. ASSUME Distinct(store), NEW i \in DOMAIN store, NEW id, id = store[i].id
          PROVE  Known(id)' /\ Place(id)' = i
      <4>1. Known(id)'
        BY <3>2, <3>4 DEF Known, Range1
      <4>2. \A m \in DOMAIN order' : order'[m] = id <=> m = i
        BY <3>2, <3>4 DEF Distinct
      <4>3. \A j \in 1..(i - 1) : order'[j] # id
        <5>1. \A j \in 1..(i - 1) : j \in DOMAIN store /\ j # i
          BY DEF Types, StoreTypes
        <5>2. QED
          BY <3>2, <4>2, <5>1
      <4>4. QED
        BY <3>2, <4>1, <4>2, <4>3 DEF Place
    <3>5. Distinct(store) => Agrees'
      BY <1>1, <3>3, <3>4 DEF Agrees
    <3>6. QED
      BY <1>1, <3>5 DEF OrderFits
  <2>3. CASE OrderFails
    BY <2>3 DEF OrderFails, OrderFits
  <2>4. QED
    BY <2>1, <2>2, <2>3
<1>8. FilesHoldStore'
  BY <1>1, <1>2, <1>5 DEF FilesHoldStore, Load, Kept
<1>9. QED
  BY <1>3, <1>4, <1>5, <1>6, <1>7, <1>8 DEF Kept

-----------------------------------------------------------------------------
(* Kept is an invariant: the window *)

LEMMA SettledIdle == work = <<>> => Settled = store
  BY DEF Settled, At

\* The rows of a memory fit it.
LEMMA RowsOfItself ==
    ASSUME NEW s \in Seq(Profile),
           \A i, j \in DOMAIN s : s[i].id = s[j].id => i = j \/ s[i].id = Default
    PROVE  RowsOf(Rows(s), s)
<1>1. DOMAIN Rows(s) = DOMAIN s /\ \A i \in DOMAIN s : Rows(s)[i].id = s[i].id
  BY RowsType
<1>2. QED
  BY <1>1 DEF RowsOf, IsIn

\* What is shown of a memory that the rows fit belongs to the selected row.
LEMMA ShownFits ==
    ASSUME Types, NEW w \in Window, NEW s \in Seq(Profile), Show(w, s), RowsOf(w.rows, s)
    PROVE  /\ RowsOf(form'.rows, s) /\ form'.open = w.open
           /\ OwnerFits'
<1>1. /\ form'.rows = w.rows /\ form'.index = w.index /\ form'.open = w.open
      /\ IsIn(Selected(w), s) => form'.owner = Selected(w)
  BY Shown
<1>2. ASSUME form'.index \in DOMAIN form'.rows PROVE form'.owner = Selected(form')
  <2>1. Selected(w) = w.rows[w.index].id /\ Selected(form') = w.rows[w.index].id
    BY <1>1, <1>2 DEF Selected
  <2>2. IsIn(w.rows[w.index].id, s)
    BY <1>1, <1>2 DEF RowsOf
  <2>3. QED
    BY <1>1, <2>1, <2>2
<1>3. QED
  BY <1>1, <1>2 DEF OwnerFits

\* Files, memory and work do not change: then only the window can be wrong.
LEMMA KeptStill ==
    ASSUME Kept, UNCHANGED <<files, order, store, work, running, used, lost, astray>>, RowsFit', OwnerFits', Stopped'
    PROVE  Kept'
<1>1. StoreFits' /\ FilesFit' /\ IdsKept' /\ FilesKnown'
  BY DEF Kept, StoreFits, FilesFit, IdsKept, KeepsId, FilesKnown, GivenOut, At, Subject
<1>2. WorkFits' /\ WorkShape'
  <2>1. \A p : SaveFits(p) => SaveFits(p)'
    BY DEF SaveFits, KeepsId, GivenOut
  <2>2. WorkFits'
    BY <2>1 DEF Kept, WorkFits, ToSave, At, Subject
  <2>3. WorkShape'
    BY DEF Kept, WorkShape, Subject
  <2>4. QED
    BY <2>2, <2>3
<1>3. OrderFits'
  <2>1. Agrees' <=> Agrees
    BY AgreesStays
  <2>2. QED
    BY <2>1 DEF Kept, OrderFits, At
<1>4. FilesHoldStore'
  BY DEF Kept, FilesHoldStore, InWork, Subject, Load
<1>5. QED
  BY <1>1, <1>2, <1>3, <1>4 DEF Kept

\* The window shows what it shows.
LEMMA FormStays ==
    ASSUME Kept, Settled' = Settled, form'.open = form.open, form'.rows = form.rows, form'.index = form.index,
           form'.owner = form.owner, form'.dropped = form.dropped
    PROVE  RowsFit' /\ OwnerFits'
<1>1. Selected(form') = Selected(form)
  BY DEF Selected
<1>2. QED
  BY <1>1 DEF Kept, RowsFit, OwnerFits

LEMMA KeptWindow ==
    ASSUME Types, Kept, Types',
           \/ Open \/ Close \/ Edit \/ FetchInfo
           \/ \E f \in fetches : FetchDone(f)
           \/ \E i \in DOMAIN form.rows : Select(i)
    PROVE  Kept'
<1>1. /\ running /\ work = <<>> /\ UNCHANGED <<files, order, store, work, running, used, lost, astray>>
  BY DEF Open, Close, Edit, FetchInfo, FetchDone, Select, Free, Idle, disk, memory, history
<1>2. Stopped'
  BY <1>1 DEF Stopped
<1>3. Settled = store /\ Settled' = store
  <2>1. (work = <<>> => Settled = store)'
    BY SettledIdle, PTL
  <2>2. QED
    BY <1>1, <2>1, SettledIdle
<1>4. store \in Seq(Profile) /\ form \in Window
  BY DEF Types, StoreTypes, FormTypes
<1>5. RowsFit' /\ OwnerFits'
  <2>1. CASE Open
    <3> DEFINE id == GetConnected.id
    <3>1. PICK index \in Nat \ {0} : index = IF IsIn(id, store) THEN Position(id, store) ELSE 1
      BY <1>4, GetType
    <3>2. PICK w : w = [NoForm EXCEPT !.open = TRUE, !.rows = Rows(store), !.index = index]
      OBVIOUS
    <3>3. Show(w, store)
      BY <2>1, <3>1, <3>2 DEF Open
    <3>4. w \in Window /\ w.rows = Rows(store)
      BY <1>4, <3>1, <3>2, RowsType, NoFormType, WindowWith DEF NoForm
    <3>5. RowsOf(w.rows, store)
      <4>1. \A i, j \in DOMAIN store : store[i].id = store[j].id => i = j \/ store[i].id = Default
        BY IdsDiffer DEF Kept
      <4>2. QED
        BY <1>4, <3>4, <4>1, RowsOfItself
    <3>6. QED
      BY <1>3, <1>4, <3>3, <3>4, <3>5, ShownFits DEF RowsFit
  <2>2. CASE Close
    BY <2>2 DEF Close, NoForm, RowsFit, OwnerFits
  <2>3. CASE Edit
    <3>1. /\ form'.open = form.open /\ form'.rows = form.rows /\ form'.index = form.index
          /\ form'.owner = form.owner /\ form'.dropped = form.dropped
      BY <1>4, <2>3 DEF Edit, Edited, Window
    <3>2. QED
      BY <1>3, <3>1, FormStays
  <2>4. CASE FetchInfo
    BY <1>3, <1>4, <2>4, FormStays DEF FetchInfo, Window
  <2>5. CASE \E f \in fetches : FetchDone(f)
    BY <1>3, <1>4, <2>5, FormStays DEF FetchDone, Window
  <2>6. CASE \E i \in DOMAIN form.rows : Select(i)
    <3>1. PICK i \in DOMAIN form.rows : Select(i)
      BY <2>6
    <3>2. PICK w : w = [form EXCEPT !.index = i]
      OBVIOUS
    <3>3. i \in Nat \ {0} /\ form.rows \in Seq(Row)
      BY <1>4 DEF Window
    <3>4. w \in Window /\ w.rows = form.rows /\ form.open /\ Show(w, store)
      <4>1. w \in Window
        BY <1>4, <3>2, <3>3, WindowWith
      <4>2. w.rows = form.rows
        BY <1>4, <3>2 DEF Window
      <4>3. form.open /\ Show(w, store)
        BY <3>1, <3>2 DEF Select, Free
      <4>4. QED
        BY <4>1, <4>2, <4>3
    <3>5. RowsOf(w.rows, store)
      BY <1>3, <3>4 DEF Kept, RowsFit
    <3>6. QED
      BY <1>3, <1>4, <3>4, <3>5, ShownFits DEF RowsFit
  <2>7. QED
    BY <2>1, <2>2, <2>3, <2>4, <2>5, <2>6
<1>6. QED
  BY <1>1, <1>2, <1>5, KeptStill

LEMMA KeptBeside ==
    ASSUME Types, Kept, Types',
           \/ \E id \in AllIds : SetConnected(id)
           \/ \E id \in AllIds : Login(id) \/ StorePassword(id) \/ DeletePassword(id)
    PROVE  Kept'
<1>1. /\ running /\ work = <<>> /\ UNCHANGED <<files, order, store, work, running, form, fetches, used, lost, astray>>
  BY DEF SetConnected, Login, StorePassword, DeletePassword, Idle, disk, memory, history
<1>2. Stopped'
  BY <1>1 DEF Stopped
<1>3. Settled' = Settled
  BY <1>1 DEF Settled, At
<1>4. RowsFit' /\ OwnerFits'
  BY <1>1, <1>3, FormStays
<1>5. QED
  BY <1>1, <1>2, <1>4, KeptStill

-----------------------------------------------------------------------------
(* Kept is an invariant: handlers begin *)

\* The rows of a longer and of a shorter memory.
LEMMA RowsAppend ==
    ASSUME NEW s \in Seq(Profile), NEW p \in Profile
    PROVE  Rows(Append(s, p)) = Append(Rows(s), [id |-> p.id, name |-> p.name])
<1> DEFINE row == [id |-> p.id, name |-> p.name]
<1>1. row \in Row /\ row.id = p.id /\ row.name = p.name
  BY DEF Row, Profile
<1> HIDE DEF row
<1>2. Rows(s) \in Seq(Row) /\ Len(Rows(s)) = Len(s) /\ Len(s) \in Nat
  BY RowsType
<1>3. Append(s, p) \in Seq(Profile) /\ Len(Append(s, p)) = Len(s) + 1
      /\ DOMAIN Append(s, p) = 1..(Len(s) + 1) /\ DOMAIN s = 1..Len(s)
  OBVIOUS
<1>4. \A i \in 1..(Len(s) + 1) : Append(s, p)[i] = IF i <= Len(s) THEN s[i] ELSE p
  OBVIOUS
<1>5. \A i \in 1..(Len(s) + 1) : Append(Rows(s), row)[i] = IF i <= Len(s) THEN Rows(s)[i] ELSE row
  BY <1>1, <1>2
<1>6. Append(Rows(s), row) \in Seq(Row) /\ Len(Append(Rows(s), row)) = Len(s) + 1
  BY <1>1, <1>2
<1>7. Rows(Append(s, p)) \in Seq(Row) /\ Len(Rows(Append(s, p))) = Len(s) + 1
  <2>1. PICK t \in Seq(Profile) : t = Append(s, p) /\ Len(t) = Len(s) + 1
    BY <1>3
  <2>2. Rows(t) \in Seq(Row) /\ Len(Rows(t)) = Len(t)
    BY RowsType
  <2>3. QED
    BY <2>1, <2>2
<1>8. ASSUME NEW i \in 1..(Len(s) + 1) PROVE Rows(Append(s, p))[i] = Append(Rows(s), row)[i]
  <2>1. Rows(Append(s, p))[i] = [id |-> Append(s, p)[i].id, name |-> Append(s, p)[i].name]
    BY <1>3 DEF Rows
  <2>2. CASE i <= Len(s)
    <3>1. Rows(s)[i] = [id |-> s[i].id, name |-> s[i].name]
      BY <1>2, <1>3, <2>2 DEF Rows
    <3>2. QED
      BY <1>4, <1>5, <2>1, <2>2, <3>1
  <2>3. CASE ~(i <= Len(s))
    BY <1>4, <1>5, <2>1, <2>3 DEF row
  <2>4. QED
    BY <2>2, <2>3
<1>9. Rows(Append(s, p)) = Append(Rows(s), row)
  BY <1>6, <1>7, <1>8, SeqEqual
<1>10. QED
  BY <1>9 DEF row

LEMMA RowsCut ==
    ASSUME NEW s \in Seq(Profile), NEW k \in DOMAIN s
    PROVE  Rows(Cut(s, k)) = Cut(Rows(s), k)
<1>1. /\ Len(s) \in Nat \ {0} /\ DOMAIN s = 1..Len(s)
      /\ Rows(s) \in Seq(Row) /\ Len(Rows(s)) = Len(s) /\ DOMAIN Rows(s) = DOMAIN s
  BY RowsType
<1>2. DOMAIN Cut(s, k) = 1..(Len(s) - 1) /\ DOMAIN Cut(Rows(s), k) = 1..(Len(s) - 1)
  BY <1>1 DEF Cut
<1>3. ASSUME NEW i \in 1..(Len(s) - 1)
      PROVE  [id |-> Cut(s, k)[i].id, name |-> Cut(s, k)[i].name] = Cut(Rows(s), k)[i]
  <2>1. PICK j \in DOMAIN s : j = IF i < k THEN i ELSE i + 1
    BY <1>1
  <2>2. Cut(s, k)[i] = s[j] /\ Cut(Rows(s), k)[i] = Rows(s)[j]
    BY <1>1, <2>1 DEF Cut
  <2>3. Rows(s)[j] = [id |-> s[j].id, name |-> s[j].name]
    BY DEF Rows
  <2>4. QED
    BY <2>2, <2>3
<1>4. Rows(Cut(s, k)) = [i \in 1..(Len(s) - 1) |-> Cut(Rows(s), k)[i]]
  BY <1>2, <1>3 DEF Rows
<1>5. Cut(Rows(s), k) = [i \in 1..(Len(s) - 1) |-> Cut(Rows(s), k)[i]]
  BY <1>1 DEF Cut
<1>6. QED
  BY <1>4, <1>5

\* Taking out before or after adding.
LEMMA CutAppend ==
    ASSUME NEW T, NEW r \in Seq(T), NEW x \in T, NEW k \in DOMAIN r
    PROVE  Cut(Append(r, x), k) = Append(Cut(r, k), x)
<1>1. Len(r) \in Nat \ {0} /\ k \in 1..Len(r)
  OBVIOUS
<1>2. Append(r, x) \in Seq(T) /\ Len(Append(r, x)) = Len(r) + 1 /\ k \in DOMAIN Append(r, x)
      /\ \A i \in 1..(Len(r) + 1) : Append(r, x)[i] = IF i <= Len(r) THEN r[i] ELSE x
  BY <1>1
<1>3. Cut(r, k) \in Seq(T) /\ Len(Cut(r, k)) = Len(r) - 1
  BY RemoveAtCuts
<1>4. Append(Cut(r, k), x) \in Seq(T) /\ Len(Append(Cut(r, k), x)) = Len(r)
      /\ \A i \in 1..Len(r) : Append(Cut(r, k), x)[i] = IF i <= Len(r) - 1 THEN Cut(r, k)[i] ELSE x
  BY <1>1, <1>3
<1>5. Cut(Append(r, x), k) \in Seq(T) /\ Len(Cut(Append(r, x), k)) = Len(r)
  <2>1. PICK t \in Seq(T) : t = Append(r, x) /\ Len(t) = Len(r) + 1 /\ k \in DOMAIN t
    BY <1>2
  <2>2. Cut(t, k) \in Seq(T) /\ Len(Cut(t, k)) = Len(t) - 1
    BY <2>1, RemoveAtCuts
  <2>3. QED
    BY <1>1, <2>1, <2>2
<1>6. ASSUME NEW i \in 1..Len(r) PROVE Cut(Append(r, x), k)[i] = Append(Cut(r, k), x)[i]
  <2>1. Cut(Append(r, x), k)[i] = IF i < k THEN Append(r, x)[i] ELSE Append(r, x)[i + 1]
    BY <1>1, <1>2 DEF Cut
  <2>2. i <= Len(r) - 1 => Cut(r, k)[i] = IF i < k THEN r[i] ELSE r[i + 1]
    BY <1>1 DEF Cut
  <2>3. i <= Len(r) /\ Len(r) \in Nat /\ i \in Nat /\ k \in Nat /\ k <= Len(r)
    BY <1>1
  <2>4. Append(Cut(r, k), x)[i] = IF i <= Len(r) - 1 THEN Cut(r, k)[i] ELSE x
    BY <1>4
  <2>5. /\ Append(r, x)[i] = r[i]
        /\ Append(r, x)[i + 1] = IF i + 1 <= Len(r) THEN r[i + 1] ELSE x
    BY <1>2, <2>3
  <2>6. QED
    BY <2>1, <2>2, <2>3, <2>4, <2>5
<1>7. QED
  BY <1>4, <1>5, <1>6, SeqEqual

LEMMA CutLast ==
    ASSUME NEW T, NEW r \in Seq(T), NEW x \in T
    PROVE  Cut(Append(r, x), Len(r) + 1) = r
<1>1. Len(r) \in Nat
  OBVIOUS
<1>2. Append(r, x) \in Seq(T) /\ Len(Append(r, x)) = Len(r) + 1
      /\ \A i \in 1..Len(r) : Append(r, x)[i] = r[i]
  BY <1>1
<1>3. Cut(Append(r, x), Len(r) + 1) = [i \in 1..Len(r) |-> r[i]]
  BY <1>1, <1>2 DEF Cut
<1>4. QED
  BY <1>3

\* Taking out two, in either order.
LEMMA CutCut ==
    ASSUME NEW T, NEW r \in Seq(T), NEW d \in DOMAIN r, NEW j \in DOMAIN Cut(r, d),
           NEW k, k = IF j < d THEN j ELSE j + 1, NEW e, e = IF d < k THEN d ELSE d - 1
    PROVE  /\ k \in DOMAIN r /\ e \in DOMAIN Cut(r, k) /\ Cut(r, d)[j] = r[k] /\ Cut(r, k)[e] = r[d]
           /\ Cut(Cut(r, d), j) = Cut(Cut(r, k), e)
<1>1. Len(r) \in Nat \ {0} /\ d \in 1..Len(r) /\ DOMAIN r = 1..Len(r)
  OBVIOUS
<1>2. ASSUME NEW m \in 1..Len(r) PROVE DOMAIN Cut(r, m) = 1..(Len(r) - 1) /\ Len(Cut(r, m)) = Len(r) - 1
  <2>1. m \in DOMAIN r
    BY <1>1
  <2>2. Len(Cut(r, m)) = Len(r) - 1
    BY <2>1, RemoveAtCuts
  <2>3. QED
    BY <2>2 DEF Cut
<1>3. j \in 1..(Len(r) - 1)
  BY <1>1, <1>2
<1>4. k \in 1..Len(r) /\ k # d
  BY <1>1, <1>3
<1>5. e \in 1..(Len(r) - 1)
  BY <1>1, <1>4
<1>6. \A m \in 1..Len(r) : \A i \in 1..(Len(r) - 1) : Cut(r, m)[i] = IF i < m THEN r[i] ELSE r[i + 1]
  BY <1>1 DEF Cut
<1>7. Cut(r, d)[j] = r[k] /\ Cut(r, k)[e] = r[d]
  BY <1>1, <1>3, <1>4, <1>5, <1>6
<1>8. Cut(Cut(r, d), j) = [i \in 1..(Len(r) - 2) |-> IF i < j THEN Cut(r, d)[i] ELSE Cut(r, d)[i + 1]]
  BY <1>1, <1>2 DEF Cut
<1>9. Cut(Cut(r, k), e) = [i \in 1..(Len(r) - 2) |-> IF i < e THEN Cut(r, k)[i] ELSE Cut(r, k)[i + 1]]
  BY <1>1, <1>2, <1>4 DEF Cut
<1>10. ASSUME NEW i \in 1..(Len(r) - 2)
       PROVE  (IF i < j THEN Cut(r, d)[i] ELSE Cut(r, d)[i + 1]) = IF i < e THEN Cut(r, k)[i] ELSE Cut(r, k)[i + 1]
  <2>1. i \in 1..(Len(r) - 1) /\ i + 1 \in 1..(Len(r) - 1) /\ i + 1 + 1 = i + 2
    BY <1>1
  <2>2. Cut(r, d)[i] = (IF i < d THEN r[i] ELSE r[i + 1]) /\ Cut(r, d)[i + 1] = IF i + 1 < d THEN r[i + 1] ELSE r[i + 2]
    BY <1>1, <1>6, <2>1
  <2>3. Cut(r, k)[i] = (IF i < k THEN r[i] ELSE r[i + 1]) /\ Cut(r, k)[i + 1] = IF i + 1 < k THEN r[i + 1] ELSE r[i + 2]
    BY <1>4, <1>6, <2>1
  <2>4. QED
    BY <1>1, <1>3, <1>4, <1>5, <2>2, <2>3
<1>11. Cut(Cut(r, d), j) = Cut(Cut(r, k), e)
  BY <1>8, <1>9, <1>10
<1>12. QED
  BY <1>1, <1>2, <1>4, <1>5, <1>7, <1>11

\* The rows without that of the default profile.
LEMMA WithoutDefault ==
    ASSUME NEW T, NEW r \in Seq(T), Distinct(r)
    PROVE  \/ ~IsIn(Default, r) /\ Without(Default, r) = r
           \/ \E d \in DOMAIN r : r[d].id = Default /\ Without(Default, r) = Cut(r, d)
<1>1. CASE ~IsIn(Default, r)
  BY <1>1, WithoutNone
<1>2. CASE IsIn(Default, r)
  <2>1. PICK d \in DOMAIN r : r[d].id = Default
    BY <1>2 DEF IsIn
  <2>2. \A j \in DOMAIN r : r[j].id = r[d].id => j = d
    BY DEF Distinct
  <2>3. QED
    BY <2>1, <2>2, WithoutOne
<1>3. QED
  BY <1>1, <1>2

LEMMA WithoutAt ==
    ASSUME NEW T, NEW r \in Seq(T), Distinct(r), NEW d \in DOMAIN r, r[d].id = Default
    PROVE  Without(Default, r) = Cut(r, d)
<1>1. \A j \in DOMAIN r : r[j].id = r[d].id => j = d
  BY DEF Distinct
<1>2. QED
  BY <1>1, WithoutOne

\* What the identifiers of a memory are, those of its rows are.
LEMMA RowsDistinct ==
    ASSUME NEW s \in Seq(Profile)
    PROVE  (Distinct(Rows(s)) <=> Distinct(s)) /\ \A id : IsIn(id, Rows(s)) <=> IsIn(id, s)
  BY RowsType DEF Distinct, IsIn

LEMMA RowType ==
    ASSUME NEW p \in Profile
    PROVE  [id |-> p.id, name |-> p.name] \in Row /\ [id |-> p.id, name |-> p.name].id = p.id
  BY DEF Row, Profile

LEMMA Longer ==
    ASSUME NEW T, NEW s \in Seq(T), NEW x \in T
    PROVE  /\ Append(s, x) \in Seq(T) /\ Len(Append(s, x)) = Len(s) + 1
           /\ DOMAIN Append(s, x) = 1..(Len(s) + 1) /\ DOMAIN s = 1..Len(s)
           /\ Append(s, x)[Len(s) + 1] = x /\ \A i \in DOMAIN s : Append(s, x)[i] = s[i]
  OBVIOUS

\* A new profile gets a row.
LEMMA RowsAdded ==
    ASSUME NEW s \in Seq(Profile), NEW rows \in Seq(Row), RowsOf(rows, s),
           NEW p \in Profile, ~IsIn(p.id, s), p.id # Default
    PROVE  RowsOf(Append(rows, [id |-> p.id, name |-> p.name]), Append(s, p))
<1>1. PICK row \in Row : row = [id |-> p.id, name |-> p.name] /\ row.id = p.id
  BY RowType
<1>2. PICK t \in Seq(Profile) : /\ t = Append(s, p) /\ DOMAIN t = 1..(Len(s) + 1) /\ DOMAIN s = 1..Len(s)
                                /\ t[Len(s) + 1] = p /\ \A i \in DOMAIN s : t[i] = s[i]
  <2>1. PICK t : t = Append(s, p)
    OBVIOUS
  <2>2. /\ t \in Seq(Profile) /\ DOMAIN t = 1..(Len(s) + 1) /\ DOMAIN s = 1..Len(s)
        /\ t[Len(s) + 1] = p /\ \A i \in DOMAIN s : t[i] = s[i]
    BY <2>1, Longer
  <2>3. QED
    BY <2>1, <2>2
<1>3. PICK r \in Seq(Row) : /\ r = Append(rows, row) /\ DOMAIN r = 1..(Len(rows) + 1) /\ DOMAIN rows = 1..Len(rows)
                            /\ r[Len(rows) + 1] = row /\ \A i \in DOMAIN rows : r[i] = rows[i]
  <2>1. PICK r : r = Append(rows, row)
    OBVIOUS
  <2>2. /\ r \in Seq(Row) /\ DOMAIN r = 1..(Len(rows) + 1) /\ DOMAIN rows = 1..Len(rows)
        /\ r[Len(rows) + 1] = row /\ \A i \in DOMAIN rows : r[i] = rows[i]
    BY <2>1, Longer
  <2>3. QED
    BY <2>1, <2>2
<1>4. Len(s) \in Nat /\ Len(rows) \in Nat
  OBVIOUS
<1>5. ASSUME Distinct(t) PROVE r \in {Rows(t), Without(Default, Rows(t))}
  <2>1. Distinct(s)
    BY <1>2, <1>4, <1>5 DEF Distinct
  <2>2. Rows(s) \in Seq(Row) /\ Distinct(Rows(s)) /\ Rows(t) \in Seq(Row) /\ Distinct(Rows(t))
    BY <1>5, <2>1, RowsType, RowsDistinct
  <2>3. Rows(t) = Append(Rows(s), row)
    BY <1>1, <1>2, RowsAppend
  <2>4. CASE rows = Rows(s)
    BY <1>3, <2>3, <2>4
  <2>5. CASE rows = Without(Default, Rows(s)) /\ rows # Rows(s)
    <3>1. PICK d \in DOMAIN Rows(s) : Rows(s)[d].id = Default /\ rows = Cut(Rows(s), d)
      BY <2>2, <2>5, WithoutDefault
    <3>2. r = Cut(Rows(t), d)
      BY <1>3, <2>2, <2>3, <3>1, CutAppend
    <3>3. d \in DOMAIN Rows(t) /\ Rows(t)[d].id = Default
      BY <2>2, <2>3, <3>1
    <3>4. QED
      BY <2>2, <3>2, <3>3, WithoutAt
  <2>6. QED
    BY <2>1, <2>4, <2>5 DEF RowsOf
<1>6. ASSUME NEW k \in DOMAIN r PROVE IsIn(r[k].id, t)
  <2>1. CASE k \in DOMAIN rows
    <3>1. PICK i \in DOMAIN s : s[i].id = rows[k].id
      BY <2>1 DEF RowsOf, IsIn
    <3>2. i \in DOMAIN t /\ t[i].id = r[k].id
      BY <1>2, <1>3, <1>4, <2>1, <3>1
    <3>3. QED
      BY <3>2 DEF IsIn
  <2>2. CASE k = Len(rows) + 1
    <3>1. Len(s) + 1 \in DOMAIN t /\ t[Len(s) + 1].id = r[k].id
      BY <1>1, <1>2, <1>3, <1>4, <2>2
    <3>2. QED
      BY <3>1 DEF IsIn
  <2>3. QED
    BY <1>3, <1>4, <2>1, <2>2
<1>7. \A k \in DOMAIN rows : rows[k].id # p.id
  BY DEF RowsOf
<1>8. ASSUME NEW k \in DOMAIN r, NEW l \in DOMAIN r, r[k].id = r[l].id PROVE k = l \/ r[k].id = Default
  <2>1. k \in DOMAIN rows <=> l \in DOMAIN rows
    BY <1>1, <1>3, <1>4, <1>7, <1>8
  <2>2. CASE k \in DOMAIN rows
    BY <1>3, <1>8, <2>1, <2>2 DEF RowsOf
  <2>3. CASE k \notin DOMAIN rows
    BY <1>3, <1>4, <2>1, <2>3
  <2>4. QED
    BY <2>2, <2>3
<1>9. QED
  BY <1>1, <1>2, <1>3, <1>5, <1>6, <1>8 DEF RowsOf

\* The default profile may be added without one.
LEMMA RowsDefaultAdded ==
    ASSUME NEW s \in Seq(Profile), NEW rows \in Seq(Row), RowsOf(rows, s),
           NEW p \in Profile, ~IsIn(p.id, s), p.id = Default
    PROVE  RowsOf(rows, Append(s, p))
<1>1. PICK row \in Row : row = [id |-> p.id, name |-> p.name] /\ row.id = p.id
  BY RowType
<1>2. PICK t \in Seq(Profile) : /\ t = Append(s, p) /\ DOMAIN t = 1..(Len(s) + 1) /\ DOMAIN s = 1..Len(s)
                                /\ t[Len(s) + 1] = p /\ \A i \in DOMAIN s : t[i] = s[i]
  <2>1. PICK t : t = Append(s, p)
    OBVIOUS
  <2>2. /\ t \in Seq(Profile) /\ DOMAIN t = 1..(Len(s) + 1) /\ DOMAIN s = 1..Len(s)
        /\ t[Len(s) + 1] = p /\ \A i \in DOMAIN s : t[i] = s[i]
    BY <2>1, Longer
  <2>3. QED
    BY <2>1, <2>2
<1>3. Len(s) \in Nat
  OBVIOUS
<1>4. ASSUME Distinct(t) PROVE rows = Without(Default, Rows(t))
  <2>1. Distinct(s)
    BY <1>2, <1>3, <1>4 DEF Distinct
  <2>2. Rows(s) \in Seq(Row) /\ Rows(t) \in Seq(Row) /\ Distinct(Rows(t)) /\ ~IsIn(Default, Rows(s)) /\ Len(Rows(s)) = Len(s)
    BY <1>4, RowsType, RowsDistinct
  <2>3. rows = Rows(s)
    BY <2>1, <2>2, WithoutNone DEF RowsOf
  <2>4. Rows(t) = Append(Rows(s), row)
    BY <1>1, <1>2, RowsAppend
  <2>5. Len(s) + 1 \in DOMAIN Rows(t) /\ Rows(t)[Len(s) + 1].id = Default
    BY <1>1, <1>3, <2>2, <2>4
  <2>6. Without(Default, Rows(t)) = Cut(Rows(t), Len(s) + 1)
    BY <2>2, <2>5, WithoutAt
  <2>7. Cut(Rows(t), Len(s) + 1) = Rows(s)
    BY <2>2, <2>4, CutLast
  <2>8. QED
    BY <2>3, <2>6, <2>7
<1>5. ASSUME NEW k \in DOMAIN rows PROVE IsIn(rows[k].id, t)
  <2>1. PICK i \in DOMAIN s : s[i].id = rows[k].id
    BY DEF RowsOf, IsIn
  <2>2. i \in DOMAIN t /\ t[i].id = rows[k].id
    BY <1>2, <1>3, <2>1
  <2>3. QED
    BY <2>2 DEF IsIn
<1>6. QED
  BY <1>2, <1>4, <1>5 DEF RowsOf

\* A row at j of those that are left shows the element at Whence(d, j).
Whence(d, j) == IF j < d THEN j ELSE j + 1

\* A profile and its row get a new name.
LEMMA RowsRenamed ==
    ASSUME NEW s \in Seq(Profile), NEW rows \in Seq(Row), RowsOf(rows, s), NEW j \in DOMAIN rows,
           NEW p \in Profile, p.id = rows[j].id
    PROVE  RowsOf([rows EXCEPT ![j].name = p.name], Put(p, s))
<1>1. PICK new \in Row : new = [rows[j] EXCEPT !.name = p.name] /\ new = [id |-> p.id, name |-> p.name]
  <2>a. rows[j] \in Row
    OBVIOUS
  <2>1. rows[j] \in [id : AllIds, name : Names \cup {0}]
    BY <2>a DEF Row
  <2>2. [rows[j] EXCEPT !.name = p.name] = [id |-> p.id, name |-> p.name]
    BY <2>1
  <2>3. QED
    BY <2>2, RowType
<1>2. PICK r \in Seq(Row) : /\ r = [rows EXCEPT ![j].name = p.name] /\ DOMAIN r = DOMAIN rows /\ Len(r) = Len(rows)
                            /\ \A i \in DOMAIN rows : r[i] = IF i = j THEN new ELSE rows[i]
  <2>1. [rows EXCEPT ![j].name = p.name] = [rows EXCEPT ![j] = new]
    BY <1>1
  <2>2. PICK r : r = [rows EXCEPT ![j] = new]
    OBVIOUS
  <2>3. /\ r \in Seq(Row) /\ DOMAIN r = DOMAIN rows /\ Len(r) = Len(rows)
        /\ \A i \in DOMAIN rows : r[i] = IF i = j THEN new ELSE rows[i]
    BY <2>2
  <2>4. QED
    BY <2>1, <2>2, <2>3
<1>3. \A i \in DOMAIN rows : r[i].id = rows[i].id
  BY <1>1, <1>2
<1>4. IsIn(p.id, s)
  BY DEF RowsOf
<1>5. PICK t, k : t = Put(p, s) /\ k = Position(p.id, s)
  OBVIOUS
<1>6. /\ t \in Seq(Profile) /\ DOMAIN t = DOMAIN s /\ k \in DOMAIN s /\ s[k].id = p.id /\ t[k] = p
      /\ \A i \in DOMAIN s : i # k => t[i] = s[i]
      /\ \A i \in DOMAIN s : t[i].id = s[i].id
  BY <1>4, <1>5, PutReplaces
<1>7. /\ Rows(s) \in Seq(Row) /\ Rows(t) \in Seq(Row) /\ DOMAIN Rows(s) = DOMAIN s /\ DOMAIN Rows(t) = DOMAIN s
      /\ Len(Rows(s)) = Len(s) /\ Len(Rows(t)) = Len(s)
  BY <1>6, RowsType
<1>8. \A i \in DOMAIN s : Rows(t)[i] = IF i = k THEN new ELSE Rows(s)[i]
  BY <1>1, <1>6 DEF Rows
<1>9. ASSUME Distinct(t) PROVE r \in {Rows(t), Without(Default, Rows(t))}
  <2>1. Distinct(s) /\ Distinct(Rows(s)) /\ Distinct(Rows(t))
    BY <1>6, <1>9, RowsDistinct DEF Distinct
  <2>2. \A i \in DOMAIN s : Rows(s)[i].id = s[i].id
    BY RowsType
  <2>3. CASE rows = Rows(s)
    <3>1. j = k
      BY <1>6, <1>7, <2>1, <2>2, <2>3 DEF Distinct
    <3>2. \A i \in 1..Len(s) : r[i] = Rows(t)[i]
      BY <1>2, <1>7, <1>8, <2>3, <3>1
    <3>3. Len(r) = Len(Rows(t))
      BY <1>2, <1>7, <2>3
    <3>4. QED
      BY <1>7, <3>2, <3>3, SeqEqual
  <2>4. CASE rows = Without(Default, Rows(s)) /\ rows # Rows(s)
    <3>1. PICK d \in DOMAIN Rows(s) : Rows(s)[d].id = Default /\ rows = Cut(Rows(s), d)
      BY <1>7, <2>1, <2>4, WithoutDefault
    <3>2. Len(s) \in Nat /\ DOMAIN s = 1..Len(s)
      OBVIOUS
    <3>3. /\ DOMAIN rows = 1..(Len(s) - 1)
          /\ \A i \in DOMAIN rows : Whence(d, i) \in DOMAIN s /\ rows[i] = Rows(s)[Whence(d, i)]
      BY <1>7, <3>1, <3>2 DEF Cut, Whence
    <3>4. Whence(d, j) = k
      <4>1. s[Whence(d, j)].id = s[k].id
        BY <1>6, <2>2, <3>3
      <4>2. QED
        BY <1>6, <2>1, <3>3, <4>1 DEF Distinct
    <3>5. \A i \in DOMAIN rows : Whence(d, i) = k <=> i = j
      <4>1. d \in Nat /\ \A i \in DOMAIN rows : i \in Nat
        BY <1>7, <3>2, <3>3
      <4>2. \A i \in DOMAIN rows : Whence(d, i) = Whence(d, j) => i = j
        BY <4>1 DEF Whence
      <4>3. QED
        BY <3>4, <4>2
    <3>6. \A i \in DOMAIN rows : r[i] = Rows(t)[Whence(d, i)]
      BY <1>2, <1>8, <3>3, <3>5
    <3>7. r = [i \in 1..(Len(s) - 1) |-> IF i < d THEN Rows(t)[i] ELSE Rows(t)[i + 1]]
      <4>1. r = [i \in 1..(Len(s) - 1) |-> r[i]]
        BY <1>2, <3>3
      <4>2. QED
        BY <3>3, <3>6, <4>1 DEF Whence
    <3>8. r = Cut(Rows(t), d)
      BY <1>7, <3>7 DEF Cut
    <3>9. d \in DOMAIN Rows(t) /\ Rows(t)[d].id = Default
      BY <1>6, <1>7, <2>2, <3>1, RowsType
    <3>10. QED
      BY <1>7, <2>1, <3>8, <3>9, WithoutAt
  <2>5. QED
    BY <2>1, <2>3, <2>4 DEF RowsOf
<1>10. ASSUME NEW i \in DOMAIN r PROVE IsIn(r[i].id, t)
  <2>1. IsIn(rows[i].id, s)
    BY <1>2 DEF RowsOf
  <2>2. QED
    BY <1>2, <1>3, <1>6, <2>1 DEF IsIn
<1>11. \A i, l \in DOMAIN r : r[i].id = r[l].id => i = l \/ r[i].id = Default
  BY <1>2, <1>3 DEF RowsOf
<1>12. QED
  BY <1>2, <1>5, <1>9, <1>10, <1>11 DEF RowsOf

\* A profile and its row go.
LEMMA RowsDeleted ==
    ASSUME NEW s \in Seq(Profile), NEW rows \in Seq(Row), RowsOf(rows, s), NEW j \in DOMAIN rows,
           NEW k \in DOMAIN s, s[k].id = rows[j].id, s[k].id # Default,
           \A i \in DOMAIN s : s[i].id = s[k].id => i = k
    PROVE  RowsOf(Cut(rows, j), Cut(s, k))
<1>1. Len(s) \in Nat \ {0} /\ DOMAIN s = 1..Len(s) /\ Len(rows) \in Nat \ {0} /\ DOMAIN rows = 1..Len(rows)
  OBVIOUS
<1>2. PICK t : t = Cut(s, k)
  OBVIOUS
<1>3. t \in Seq(Profile) /\ DOMAIN t = 1..(Len(s) - 1) /\ \A i \in DOMAIN t : t[i] = s[Whence(k, i)]
  BY <1>2, RemoveAtCuts DEF Cut, Whence
<1>4. PICK r : r = Cut(rows, j)
  OBVIOUS
<1>5. r \in Seq(Row) /\ DOMAIN r = 1..(Len(rows) - 1) /\ \A i \in DOMAIN r : r[i] = rows[Whence(j, i)]
  BY <1>4, RemoveAtCuts DEF Cut, Whence
<1>6. /\ \A i \in DOMAIN t : Whence(k, i) \in DOMAIN s /\ Whence(k, i) # k
      /\ \A i \in DOMAIN s : i # k => \E m \in DOMAIN t : Whence(k, m) = i
  <2>1. \A i \in DOMAIN t : Whence(k, i) \in DOMAIN s /\ Whence(k, i) # k
    BY <1>1, <1>3 DEF Whence
  <2>2. ASSUME NEW i \in DOMAIN s, i # k PROVE \E m \in DOMAIN t : Whence(k, m) = i
    <3>1. PICK m : m = IF i < k THEN i ELSE i - 1
      OBVIOUS
    <3>2. m \in DOMAIN t /\ Whence(k, m) = i
      BY <1>1, <1>3, <2>2, <3>1 DEF Whence
    <3>3. QED
      BY <3>2
  <2>3. QED
    BY <2>1, <2>2
<1>7. \A i, l \in DOMAIN r : /\ Whence(j, i) \in DOMAIN rows /\ Whence(j, i) # j
                             /\ Whence(j, i) = Whence(j, l) => i = l
  BY <1>1, <1>5 DEF Whence
<1>8. ASSUME Distinct(t) PROVE r \in {Rows(t), Without(Default, Rows(t))}
  <2>1. Distinct(s)
    <3>1. SUFFICES ASSUME NEW a \in DOMAIN s, NEW b \in DOMAIN s, s[a].id = s[b].id PROVE a = b
      BY DEF Distinct
    <3>2. a = k <=> b = k
      BY <3>1
    <3>3. ASSUME a # k, b # k PROVE a = b
      <4>1. PICK m \in DOMAIN t, n \in DOMAIN t : Whence(k, m) = a /\ Whence(k, n) = b
        BY <1>6, <3>3
      <4>2. m = n
        BY <1>3, <1>8, <3>1, <4>1 DEF Distinct
      <4>3. QED
        BY <4>1, <4>2
    <3>4. QED
      BY <3>2, <3>3
  <2>2. /\ Rows(s) \in Seq(Row) /\ Distinct(Rows(s)) /\ Rows(t) \in Seq(Row) /\ Distinct(Rows(t))
        /\ DOMAIN Rows(s) = DOMAIN s /\ \A i \in DOMAIN s : Rows(s)[i].id = s[i].id
    BY <1>3, <1>8, <2>1, RowsType, RowsDistinct
  <2>3. Rows(t) = Cut(Rows(s), k)
    BY <1>2, RowsCut
  <2>4. CASE rows = Rows(s)
    <3>1. j = k
      BY <2>2, <2>4
    <3>2. QED
      BY <1>4, <2>3, <2>4, <3>1
  <2>5. CASE rows = Without(Default, Rows(s)) /\ rows # Rows(s)
    <3>1. PICK d \in DOMAIN Rows(s) : Rows(s)[d].id = Default /\ rows = Cut(Rows(s), d)
      BY <2>2, <2>5, WithoutDefault
    <3>2. PICK a, e : a = (IF j < d THEN j ELSE j + 1) /\ e = IF d < a THEN d ELSE d - 1
      OBVIOUS
    <3>3. /\ a \in DOMAIN Rows(s) /\ e \in DOMAIN Cut(Rows(s), a) /\ rows[j] = Rows(s)[a] /\ Cut(Rows(s), a)[e] = Rows(s)[d]
          /\ Cut(rows, j) = Cut(Cut(Rows(s), a), e)
      BY <2>2, <3>1, <3>2, CutCut
    <3>4. a = k
      BY <2>2, <3>3
    <3>5. e \in DOMAIN Rows(t) /\ Rows(t)[e].id = Default /\ r = Cut(Rows(t), e)
      BY <1>4, <2>3, <3>1, <3>3, <3>4
    <3>6. QED
      BY <2>2, <3>5, WithoutAt
  <2>6. QED
    BY <2>1, <2>4, <2>5 DEF RowsOf
<1>9. ASSUME NEW i \in DOMAIN r PROVE IsIn(r[i].id, t)
  <2>1. r[i].id = rows[Whence(j, i)].id /\ Whence(j, i) \in DOMAIN rows /\ Whence(j, i) # j
    BY <1>5, <1>7
  <2>2. PICK m \in DOMAIN s : s[m].id = r[i].id
    BY <2>1 DEF RowsOf, IsIn
  <2>3. m # k
    BY <2>1, <2>2 DEF RowsOf
  <2>4. PICK n \in DOMAIN t : Whence(k, n) = m
    BY <1>6, <2>3
  <2>5. t[n].id = r[i].id
    BY <1>3, <2>2, <2>4
  <2>6. QED
    BY <2>5 DEF IsIn
<1>10. \A i, l \in DOMAIN r : r[i].id = r[l].id => i = l \/ r[i].id = Default
  BY <1>5, <1>7 DEF RowsOf
<1>11. QED
  BY <1>2, <1>4, <1>8, <1>9, <1>10 DEF RowsOf

\* A handler that leaves files and memory alone has only begun.
LEMMA KeptBegin ==
    ASSUME Types, Kept, work = <<>>, running, UNCHANGED <<files, order, store, running, lost, astray>>, used \subseteq used',
           WorkFits', WorkShape', RowsFit', OwnerFits', InWork' = {}, ~At({"write", "put", "unlink", "clear", "order"})'
    PROVE  Kept'
<1>1. GivenOut \subseteq GivenOut'
  BY DEF GivenOut
<1>2. StoreFits' /\ FilesFit' /\ IdsKept'
  BY <1>1 DEF Kept, StoreFits, FilesFit, IdsKept, KeepsId
<1>3. ~At({"write", "put", "unlink"}) /\ ~At({"unlink", "clear", "order"}) /\ InWork = {}
  BY DEF At, InWork
<1>4. FilesKnown'
  BY <1>3 DEF Kept, FilesKnown
<1>5. OrderFits'
  <2>1. Agrees' <=> Agrees
    BY AgreesStays
  <2>2. QED
    BY <1>3, <2>1 DEF Kept, OrderFits
<1>6. FilesHoldStore'
  BY <1>3 DEF Kept, FilesHoldStore, Load
<1>7. Stopped'
  BY DEF Stopped
<1>8. QED
  BY <1>2, <1>4, <1>5, <1>6, <1>7 DEF Kept

\* One save to do.
LEMMA OneSave ==
    ASSUME NEW p \in Profile, work' = <<Step("truncate", p)>>, SaveFits(p)'
    PROVE  /\ WorkFits' /\ WorkShape' /\ InWork' = {} /\ ~At({"write", "put", "unlink", "clear", "order"})'
           /\ Settled' = Put(p, store')
<1>1. PICK call : call = Step("truncate", p) /\ call.do = "truncate" /\ call.with = p
  BY DEF Step
<1>2. work' # <<>> /\ DOMAIN work' = {1} /\ work'[1] = call /\ Head(work') = call
  BY <1>1, OfOne
<1>3. Subject' = p
  BY <1>1, <1>2 DEF Subject
<1>4. /\ InWork' = {} /\ ~At({"write", "put", "unlink", "clear", "order"})' /\ ~At({"unlink"})' /\ ~At({"put"})'
      /\ At(Saves)'
  BY <1>1, <1>2 DEF InWork, At, Saves
<1>5. WorkFits'
  <2>1. ToSave' \subseteq {p}
    BY <1>1, <1>2 DEF ToSave
  <2>2. QED
    BY <1>4, <2>1 DEF WorkFits
<1>6. WorkShape'
  BY <1>1, <1>2 DEF WorkShape, Saves
<1>7. QED
  BY <1>3, <1>4, <1>5, <1>6 DEF Settled

\* Nothing to do.
LEMMA NoWork ==
    ASSUME work' = <<>>
    PROVE  /\ WorkFits' /\ WorkShape' /\ InWork' = {} /\ ~At({"write", "put", "unlink", "clear", "order"})'
           /\ Settled' = store'
<1>1. DOMAIN work' = {}
  OBVIOUS
<1>2. WorkFits' /\ WorkShape'
  BY <1>1 DEF WorkFits, WorkShape, ToSave, At
<1>3. QED
  BY <1>2 DEF InWork, At, Settled

LEMMA KeptNew ==
    ASSUME Types, Kept, Types', NEW id \in Ids, NEW name \in Names, ProfileNew(id, name)
    PROVE  Kept'
<1>1. /\ running /\ work = <<>> /\ form.open /\ UNCHANGED <<files, order, store, running, lost, astray>>
      /\ id \notin used /\ used' = used \cup {id}
  BY DEF ProfileNew, Free, Idle, disk, memory
<1>2. store \in Seq(Profile) /\ form \in Window /\ form.rows \in Seq(Row)
  BY DEF Types, StoreTypes, FormTypes, Window
<1>3. id # Default /\ id \in AllIds /\ id \notin GivenOut
  BY <1>1, ProfilesAssumption DEF GivenOut, AllIds
<1>4. PICK p \in Profile : p = [DefaultParams EXCEPT !.id = id, !.name = name, !.file = id]
  BY <1>2, NewProfileType
<1>5. p.id = id /\ p.name = name /\ p.file = id
  BY <1>4 DEF DefaultParams
<1>6. PICK rows \in Seq(Row) : rows = Append(form.rows, [id |-> id, name |-> name]) /\ Len(rows) \in Nat \ {0}
  <2>1. PICK r : r = Append(form.rows, [id |-> id, name |-> name])
    OBVIOUS
  <2>2. r \in Seq(Row) /\ Len(r) = Len(form.rows) + 1 /\ Len(form.rows) + 1 \in Nat \ {0}
    BY <1>2, <2>1, NewProfileType
  <2>3. QED
    BY <2>1, <2>2
<1>7. work' = <<Step("truncate", p)>> /\ Show([form EXCEPT !.rows = rows, !.index = Len(rows)], Put(p, store))
  BY <1>4, <1>6 DEF ProfileNew
<1>8. \A i \in DOMAIN store : store[i].file # id /\ store[i].id # id
  <2>1. ASSUME NEW i \in DOMAIN store PROVE store[i].file # id /\ store[i].id # id
    <3>1. IdFits(store[i]) /\ store[i].file \in GivenOut
      BY DEF Kept, StoreFits
    <3>2. QED
      BY <1>3, <3>1 DEF IdFits
  <2>2. QED
    BY <2>1
<1>9. ~IsIn(p.id, store)
  BY <1>5, <1>8 DEF IsIn
<1>10. SaveFits(p)'
  <2>1. files[id].state = "missing"
    BY <1>3 DEF Kept, FilesFit
  <2>2. KeepsId(p)'
    BY <1>1, <1>5, <2>1 DEF KeepsId
  <2>3. IdFits(p) /\ p.file \in GivenOut'
    BY <1>1, <1>3, <1>5 DEF IdFits, GivenOut
  <2>4. QED
    BY <1>1, <1>5, <1>8, <1>9, <2>2, <2>3 DEF SaveFits
<1>11. /\ WorkFits' /\ WorkShape' /\ InWork' = {} /\ ~At({"write", "put", "unlink", "clear", "order"})'
       /\ Settled' = Put(p, store)
  BY <1>1, <1>7, <1>10, OneSave
<1>12. PICK s \in Seq(Profile) : s = Put(p, store) /\ s = Append(store, p)
  BY <1>2, <1>9, PutAppends
<1>13. PICK w \in Window : w = [form EXCEPT !.rows = rows, !.index = Len(rows)] /\ w.rows = rows /\ w.open
  <2>1. PICK w : w = [form EXCEPT !.rows = rows, !.index = Len(rows)]
    OBVIOUS
  <2>2. w \in Window
    BY <1>2, <1>6, <2>1, WindowWith
  <2>3. w.rows = rows /\ w.open = form.open
    BY <1>2, <2>1 DEF Window
  <2>4. QED
    BY <1>1, <2>1, <2>2, <2>3
<1>14. RowsOf(w.rows, s)
  <2>1. RowsOf(form.rows, store)
    BY <1>1, SettledIdle DEF Kept, RowsFit
  <2>2. RowsOf(Append(form.rows, [id |-> p.id, name |-> p.name]), Append(store, p))
    BY <1>2, <1>3, <1>5, <1>9, <2>1, RowsAdded
  <2>3. QED
    BY <1>5, <1>6, <1>12, <1>13, <2>2
<1>15. RowsFit' /\ OwnerFits'
  <2>1. Show(w, s)
    BY <1>7, <1>12, <1>13
  <2>2. RowsOf(form'.rows, s) /\ OwnerFits'
    BY <1>14, <2>1, ShownFits
  <2>3. QED
    BY <1>11, <1>12, <2>2 DEF RowsFit
<1>16. QED
  BY <1>1, <1>11, <1>15, KeptBegin

LEMMA KeptRename ==
    ASSUME Types, Kept, Types', NEW name \in Names, ProfileRename(name)
    PROVE  Kept'
<1>1. /\ running /\ work = <<>> /\ form.open /\ form.index \in DOMAIN form.rows
      /\ UNCHANGED <<files, order, store, running, used, lost, astray>>
  BY DEF ProfileRename, Free, Idle, disk, memory
<1>2. store \in Seq(Profile) /\ form \in Window /\ form.rows \in Seq(Row)
  BY DEF Types, StoreTypes, FormTypes, Window
<1>3. PICK j \in DOMAIN form.rows : j = form.index /\ Selected(form) = form.rows[j].id
  BY <1>1 DEF Selected
<1>4. RowsOf(form.rows, store)
  BY <1>1, SettledIdle DEF Kept, RowsFit
<1>5. IsIn(Selected(form), store)
  BY <1>3, <1>4 DEF RowsOf
<1>6. PICK p \in Profile, k \in DOMAIN store : p = Get(Selected(form), store) /\ p = store[k] /\ p.id = Selected(form)
  BY <1>2, <1>5, GetType
<1>7. PICK q \in Profile : q = [p EXCEPT !.name = name] /\ q.id = p.id /\ q.file = p.file /\ q.name = name
  <2>1. PICK q : q = [p EXCEPT !.name = name]
    OBVIOUS
  <2>2. q \in Profile /\ q.id = p.id /\ q.file = p.file /\ q.name = name
    BY <2>1 DEF Profile
  <2>3. QED
    BY <2>1, <2>2
<1>8. work' = <<Step("truncate", q)>> /\ form' = [form EXCEPT !.rows[form.index].name = name]
  BY <1>5, <1>6, <1>7 DEF ProfileRename
<1>9. SaveFits(q)'
  <2>1. IdFits(p) /\ p.file \in GivenOut /\ KeepsId(p)
    BY <1>6 DEF Kept, StoreFits, IdsKept
  <2>2. IdFits(q) /\ q.file \in GivenOut' /\ KeepsId(q)'
    BY <1>1, <1>7, <2>1 DEF IdFits, KeepsId, GivenOut
  <2>3. QED
    BY <1>1, <1>5, <1>6, <1>7, <2>2 DEF SaveFits
<1>10. /\ WorkFits' /\ WorkShape' /\ InWork' = {} /\ ~At({"write", "put", "unlink", "clear", "order"})'
       /\ Settled' = Put(q, store)
  BY <1>1, <1>8, <1>9, OneSave
<1>11. RowsFit'
  <2>1. form'.rows = [form.rows EXCEPT ![j].name = q.name]
    BY <1>2, <1>3, <1>7, <1>8 DEF Window
  <2>2. RowsOf([form.rows EXCEPT ![j].name = q.name], Put(q, store))
    BY <1>2, <1>3, <1>4, <1>6, <1>7, RowsRenamed
  <2>3. QED
    BY <1>10, <2>1, <2>2 DEF RowsFit
<1>12. OwnerFits'
  <2>1. /\ form'.open = form.open /\ form'.index = form.index /\ form'.dropped = form.dropped /\ form'.owner = form.owner
    BY <1>2, <1>8 DEF Window
  <2>2. DOMAIN form'.rows = DOMAIN form.rows /\ form'.rows[j].id = form.rows[j].id
    <3>1. form.rows[j] \in Row
      BY <1>2
    <3>2. form'.rows = [form.rows EXCEPT ![j] = [form.rows[j] EXCEPT !.name = name]]
      BY <1>2, <1>3, <1>8 DEF Window
    <3>3. QED
      BY <1>2, <3>1, <3>2 DEF Row
  <2>3. Selected(form') = Selected(form)
    BY <1>3, <2>1, <2>2 DEF Selected
  <2>4. QED
    BY <2>1, <2>2, <2>3 DEF Kept, OwnerFits
<1>13. QED
  BY <1>1, <1>10, <1>11, <1>12, KeptBegin

\* Rows fit each memory with the same rows.
LEMMA RowsOfSame ==
    ASSUME NEW s \in Seq(Profile), NEW t \in Seq(Profile), NEW rows, Rows(s) = Rows(t), RowsOf(rows, s)
    PROVE  RowsOf(rows, t)
  BY RowsTell DEF RowsOf

\* Saving a profile under its name, or a first default profile, leaves rows fitting.
LEMMA RowsSaved ==
    ASSUME NEW s \in Seq(Profile), NEW rows \in Seq(Row), RowsOf(rows, s), NEW p \in Profile,
           IF IsIn(p.id, s) THEN Get(p.id, s).name = p.name ELSE p.id = Default
    PROVE  RowsOf(rows, Put(p, s))
<1>1. PICK t : t = Put(p, s)
  OBVIOUS
<1>2. CASE IsIn(p.id, s)
  <2>1. t \in Seq(Profile)
    BY <1>1, <1>2, PutReplaces
  <2>2. Rows(t) = Rows(s)
    BY <1>1, <1>2, SameRows
  <2>3. QED
    BY <1>1, <2>1, <2>2, RowsOfSame
<1>3. CASE ~IsIn(p.id, s)
  <2>1. t = Append(s, p)
    BY <1>1, <1>3, PutAppends
  <2>2. QED
    BY <1>1, <1>3, <2>1, RowsDefaultAdded
<1>4. QED
  BY <1>2, <1>3

\* What save_settings saves, it saves where it was.
LEMMA SettingsFit ==
    ASSUME Types, Kept, UNCHANGED <<files, store, used>>, NEW p \in Profile, NEW k \in DOMAIN store,
           p.id = store[k].id, p.file = store[k].file, IsIn(p.id, store), Get(p.id, store) = store[k]
    PROVE  SaveFits(p)'
<1>1. IdFits(store[k]) /\ store[k].file \in GivenOut /\ KeepsId(store[k])
  BY DEF Kept, StoreFits, IdsKept
<1>2. IdFits(p) /\ p.file \in GivenOut' /\ KeepsId(p)'
  BY <1>1 DEF IdFits, KeepsId, GivenOut
<1>3. QED
  BY <1>2 DEF SaveFits

LEMMA DefaultFits ==
    ASSUME Types, Kept, UNCHANGED <<files, store, used>>, NEW d \in Profile,
           d.id = Default, d.file = GetDefault.file
    PROVE  SaveFits(d)'
<1>1. store \in Seq(Profile)
  BY DEF Types, StoreTypes
<1>2. CASE IsIn(Default, store)
  <2>1. PICK k \in DOMAIN store : Get(Default, store) = store[k] /\ store[k].id = Default
    BY <1>1, <1>2, GetType
  <2>2. d.file = store[k].file
    BY <1>2, <2>1 DEF GetDefault
  <2>3. QED
    BY <1>2, <2>1, <2>2, SettingsFit
<1>3. CASE ~IsIn(Default, store)
  <2>1. d.file = Default
    BY <1>3 DEF GetDefault, DefaultParams
  <2>2. IdFits(d) /\ d.file \in GivenOut'
    BY <2>1 DEF IdFits, GivenOut
  <2>3. KeepsId(d)'
    <3>1. files[Default].state = "whole" => files[Default].with.id = Default
      BY DEF Kept, FilesFit, IdFits, AllIds
    <3>2. QED
      BY <2>1, <3>1 DEF KeepsId
  <2>4. \A i \in DOMAIN store : store[i].file # Default
    BY <1>3 DEF Kept, StoreFits, IdFits, IsIn
  <2>5. QED
    BY <1>3, <2>1, <2>2, <2>3, <2>4 DEF SaveFits
<1>4. QED
  BY <1>2, <1>3

LEMMA KeptSave ==
    ASSUME Types, Kept, Types', NEW closes \in BOOLEAN, SaveSettings(closes)
    PROVE  Kept'
<1>1. /\ running /\ work = <<>> /\ form.open /\ UNCHANGED <<files, order, store, running, used, lost, astray>>
      /\ Accepted(closes)
  BY DEF SaveSettings, Free, Idle, disk, memory
<1>2. store \in Seq(Profile) /\ form \in Window /\ form.rows \in Seq(Row)
  BY DEF Types, StoreTypes, FormTypes, Window
<1>a. PICK p, d, q : p = Get(Selected(form), store) /\ d = [GetDefault EXCEPT !.look = form.look] /\ q = Submitted(p)
  OBVIOUS
<1>b. PICK first, forget, last : first = Step("truncate", d) /\ forget = Step("forget", p) /\ last = Step("truncate", q)
  OBVIOUS
<1>3. /\ p \in Profile /\ p.id = Selected(form) /\ IsIn(p.id, store)
      /\ d \in Profile /\ d.id = Default
      /\ q \in Profile /\ q.id = p.id /\ q.file = p.file /\ q.name = p.name
      /\ \/ work' = <<last>> /\ p.id = Default
         \/ work' = <<forget, last>> /\ p.id = Default
         \/ work' = <<first, last>> /\ p.id # Default
         \/ work' = <<first, forget, last>> /\ p.id # Default
  <2>1. /\ p \in Profile /\ p.id = Selected(form) /\ IsIn(p.id, store)
        /\ d \in Profile /\ d.id = Default
        /\ \/ work' = <<last>> /\ p.id = Default
           \/ work' = <<forget, last>> /\ p.id = Default
           \/ work' = <<first, last>> /\ p.id # Default
           \/ work' = <<first, forget, last>> /\ p.id # Default
    BY <1>a, <1>b, SaveWork
  <2>2. q \in Profile /\ q.id = p.id /\ q.file = p.file /\ q.name = p.name
    BY <1>a, <2>1, SubmittedType
  <2>3. QED
    BY <2>1, <2>2
<1>4. PICK k \in DOMAIN store : p = store[k] /\ Get(p.id, store) = store[k]
  <2>1. Get(p.id, store) = p /\ p = store[Position(p.id, store)] /\ Position(p.id, store) \in DOMAIN store
    BY <1>2, <1>3, <1>a, GetType
  <2>2. QED
    BY <2>1
<1>5. /\ first.do = "truncate" /\ first.with = d /\ forget.do = "forget" /\ last.do = "truncate" /\ last.with = q
  BY <1>b DEF Step
<1>6. /\ work' # <<>> /\ 1 \in DOMAIN work' /\ Head(work') = work'[1]
      /\ \A i \in DOMAIN work' : i \in {1, 2, 3} /\ work'[i] \in {first, forget, last}
      /\ \/ Head(work') = last /\ p.id = Default
         \/ Head(work') = forget
         \/ Head(work') = first /\ p.id # Default
      /\ \A i \in DOMAIN work' : i > 1 =>
             /\ work'[i] \in {forget, last}
             /\ work'[i] = last => Head(work') # last
      /\ \A i, j \in DOMAIN work' : 1 < i /\ 1 < j /\ work'[i].do = "truncate" /\ work'[j].do = "truncate" => i = j
  <2>1. CASE work' = <<last>> /\ p.id = Default
    <3>1. work' # <<>> /\ DOMAIN work' = {1} /\ work'[1] = last /\ Head(work') = last
      BY <2>1, OfOne
    <3>2. QED
      BY <2>1, <3>1
  <2>2. CASE work' = <<forget, last>> /\ p.id = Default
    <3>1. work' # <<>> /\ DOMAIN work' = {1, 2} /\ work'[1] = forget /\ work'[2] = last /\ Head(work') = forget
      BY <2>2, OfTwo
    <3>2. QED
      BY <1>5, <2>2, <3>1
  <2>3. CASE work' = <<first, last>> /\ p.id # Default
    <3>1. work' # <<>> /\ DOMAIN work' = {1, 2} /\ work'[1] = first /\ work'[2] = last /\ Head(work') = first
      BY <2>3, OfTwo
    <3>2. first # last
      BY <1>3, <1>5, <2>3
    <3>3. QED
      BY <1>5, <2>3, <3>1, <3>2
  <2>4. CASE work' = <<first, forget, last>> /\ p.id # Default
    <3>1. /\ work' # <<>> /\ DOMAIN work' = {1, 2, 3} /\ work'[1] = first /\ work'[2] = forget /\ work'[3] = last
          /\ Head(work') = first
      BY <2>4, OfThree
    <3>2. first # last
      BY <1>3, <1>5, <2>4
    <3>3. QED
      BY <1>5, <2>4, <3>1, <3>2
  <2>5. QED
    BY <1>3, <2>1, <2>2, <2>3, <2>4
<1>7. SaveFits(d)' /\ SaveFits(q)'
  <2>1. d.file = GetDefault.file
    <3>1. GetDefault \in Profile
      BY <1>2, GetType, DefaultParamsType DEF GetDefault
    <3>2. QED
      BY <1>a, <1>3, <3>1 DEF Profile
  <2>2. SaveFits(d)'
    BY <1>1, <1>3, <2>1, DefaultFits
  <2>3. SaveFits(q)'
    BY <1>1, <1>3, <1>4, SettingsFit
  <2>4. QED
    BY <2>2, <2>3
<1>8. /\ InWork' = {} /\ ~At({"write", "put", "unlink", "clear", "order"})' /\ ~At({"unlink"})' /\ ~At({"put"})'
  BY <1>5, <1>6 DEF InWork, At
<1>9. WorkFits'
  <2>1. ToSave' \subseteq {d, q}
    BY <1>5, <1>6 DEF ToSave, Saves
  <2>2. QED
    BY <1>7, <1>8, <2>1 DEF WorkFits
<1>10. WorkShape'
  <2>1. \A i \in DOMAIN work' : work'[i].do \in Saves \cup {"unlink", "clear", "order", "forget"}
    BY <1>5, <1>6 DEF Saves
  <2>2. ASSUME NEW i \in DOMAIN work', i > 1
        PROVE  /\ work'[i].do \in {"truncate", "forget"}
               /\ work'[i].do = "truncate" =>
                      /\ IsIn(work'[i].with.id, store') /\ Get(work'[i].with.id, store').name = work'[i].with.name
                      /\ work'[i].with.id # Head(work').with.id \/ Head(work').do = "forget"
    <3>1. CASE work'[i] = forget
      BY <1>5, <3>1
    <3>2. CASE work'[i] = last
      <4>1. IsIn(q.id, store') /\ Get(q.id, store').name = q.name
        BY <1>1, <1>3, <1>4
      <4>2. Head(work') = forget \/ (Head(work') = first /\ p.id # Default)
        BY <1>6, <2>2, <3>2
      <4>3. work'[i].do = "truncate" /\ work'[i].with = q
        BY <1>5, <3>2
      <4>4. q.id # Head(work').with.id \/ Head(work').do = "forget"
        BY <1>3, <1>5, <4>2
      <4>5. QED
        BY <4>1, <4>3, <4>4
    <3>3. QED
      BY <1>6, <2>2, <3>1, <3>2
  <2>3. QED
    BY <1>6, <2>1, <2>2 DEF WorkShape, Subject
<1>11. RowsFit' /\ OwnerFits'
  <2>1. CASE closes
    <3>1. ~form'.open
      BY <1>1, <2>1 DEF Accepted, NoForm
    <3>2. QED
      BY <3>1 DEF RowsFit, OwnerFits
  <2>2. CASE ~closes
    <3>1. form' = form
      BY <1>1, <2>2 DEF Accepted
    <3>2. RowsOf(form.rows, store)
      BY <1>1, SettledIdle DEF Kept, RowsFit
    <3>3. RowsOf(form.rows, Settled')
      <4>1. CASE Head(work') = last
        <5>1. Settled' = Put(q, store)
          BY <1>1, <1>5, <1>6, <4>1 DEF Settled, At, Saves, Subject
        <5>2. RowsOf(form.rows, Put(q, store))
          BY <1>2, <1>3, <1>4, <3>2, RowsSaved
        <5>3. QED
          BY <5>1, <5>2
      <4>2. CASE Head(work') = forget
        <5>1. Settled' = store
          BY <1>1, <1>5, <1>6, <4>2 DEF Settled, At, Saves, Subject
        <5>2. QED
          BY <3>2, <5>1
      <4>3. CASE Head(work') = first
        <5>1. Settled' = Put(d, store)
          BY <1>1, <1>5, <1>6, <4>3 DEF Settled, At, Saves, Subject
        <5>2. IsIn(Default, store) => Get(Default, store).name = d.name
          <6>1. SUFFICES ASSUME IsIn(Default, store) PROVE Get(Default, store).name = d.name
            OBVIOUS
          <6>2. Get(Default, store) \in Profile /\ d = [Get(Default, store) EXCEPT !.look = form.look]
            BY <1>2, <1>a, <6>1, GetType DEF GetDefault
          <6>3. QED
            BY <6>2 DEF Profile
        <5>3. RowsOf(form.rows, Put(d, store))
          BY <1>2, <1>3, <3>2, <5>2, RowsSaved
        <5>4. QED
          BY <5>1, <5>3
      <4>4. QED
        BY <1>6, <4>1, <4>2, <4>3
    <3>4. QED
      BY <3>1, <3>3 DEF RowsFit, OwnerFits, Kept
  <2>3. QED
    BY <2>1, <2>2
<1>12. QED
  BY <1>1, <1>8, <1>9, <1>10, <1>11, KeptBegin

\* r has the elements of s, each once.
Shuffled(r, s) ==
    \E g \in [DOMAIN s -> DOMAIN s] :
        /\ \A i \in DOMAIN s : r[i] = s[g[i]]
        /\ \A i, j \in DOMAIN s : g[i] = g[j] => i = j
        /\ \A i \in DOMAIN s : \E j \in DOMAIN s : g[j] = i

\* A drag moves profiles about, and loses none.
LEMMA ReorderedIs ==
    ASSUME NEW s \in Seq(Profile), NEW from, NEW to, NEW r, r = Reordered(from, to, s)
    PROVE  /\ r \in Seq(Profile) /\ DOMAIN r = DOMAIN s
           /\ \/ r = s /\ OrderStep(from, to, s) = <<>>
              \/ \E p \in Profile : OrderStep(from, to, s) = <<Step("clear", p)>>
           /\ Shuffled(r, s)
<1>1. Len(s) \in Nat /\ DOMAIN s = 1..Len(s)
  OBVIOUS
<1>2. CASE {from, to} \subseteq DOMAIN s
  <2>1. PICK a \in 1..Len(s), b \in 1..Len(s) : a = from /\ b = to
    BY <1>1, <1>2
  <2>2. /\ r = Moved(s, a, b) /\ OrderStep(from, to, s) = <<Step("clear", s[a])>> /\ s[a] \in Profile
    BY <1>1, <1>2, <2>1 DEF Reordered, OrderStep
  <2>3. r \in Seq(Profile) /\ Len(r) = Len(s) /\ \A i \in DOMAIN s : From(i, a, b) \in DOMAIN s /\ r[i] = s[From(i, a, b)]
    <3>1. a \in DOMAIN s /\ b \in DOMAIN s
      BY <1>1, <2>1
    <3>2. /\ Moved(s, a, b) \in Seq(Profile) /\ Len(Moved(s, a, b)) = Len(s)
          /\ \A i \in DOMAIN s : From(i, a, b) \in DOMAIN s /\ Moved(s, a, b)[i] = s[From(i, a, b)]
      BY <3>1, MovedIs
    <3>3. QED
      BY <2>2, <3>2
  <2>4. DOMAIN r = DOMAIN s
    BY <1>1, <2>3
  <2>5. /\ \A i, j \in 1..Len(s) : From(i, a, b) = From(j, a, b) => i = j
        /\ \A i \in 1..Len(s) : From(i, b, a) \in 1..Len(s) /\ From(From(i, b, a), a, b) = i
    <3>1. PICK n \in Nat : n = Len(s)
      BY <1>1
    <3>2. /\ \A i, j \in 1..n : From(i, a, b) = From(j, a, b) => i = j
          /\ \A i \in 1..n : From(i, b, a) \in 1..n /\ From(From(i, b, a), a, b) = i
      <4>1. a \in 1..n /\ b \in 1..n
        BY <3>1
      <4>2. QED
        BY <4>1 DEF From
    <3>3. QED
      BY <3>1, <3>2
  <2>6. PICK g : g = [i \in DOMAIN s |-> From(i, a, b)]
    OBVIOUS
  <2>7. g \in [DOMAIN s -> DOMAIN s] /\ \A i \in DOMAIN s : g[i] = From(i, a, b)
    BY <2>3, <2>6
  <2>8. \A i \in DOMAIN s : \E j \in DOMAIN s : g[j] = i
    BY <1>1, <2>5, <2>7
  <2>9. \A i \in DOMAIN s : r[i] = s[g[i]]
    BY <2>3, <2>7
  <2>10. \A i, j \in DOMAIN s : g[i] = g[j] => i = j
    BY <1>1, <2>5, <2>7
  <2>11. Shuffled(r, s)
    BY <2>7, <2>8, <2>9, <2>10 DEF Shuffled
  <2>12. QED
    BY <2>2, <2>3, <2>4, <2>11
<1>3. CASE ~({from, to} \subseteq DOMAIN s)
  <2>1. r = s /\ OrderStep(from, to, s) = <<>>
    BY <1>3 DEF Reordered, OrderStep
  <2>2. PICK g : g = [i \in DOMAIN s |-> i]
    OBVIOUS
  <2>3. g \in [DOMAIN s -> DOMAIN s] /\ \A i \in DOMAIN s : g[i] = i
    BY <2>2
  <2>4. Shuffled(r, s)
    BY <2>1, <2>3 DEF Shuffled
  <2>5. QED
    BY <2>1, <2>4
<1>4. QED
  BY <1>2, <1>3

\* The order to write.
LEMMA OneClear ==
    ASSUME NEW p \in Profile, work' = <<Step("clear", p)>>
    PROVE  /\ WorkFits' /\ WorkShape' /\ InWork' = {} /\ At({"unlink", "clear", "order"})'
           /\ Settled' = store'
<1>1. PICK call : call = Step("clear", p) /\ call.do = "clear" /\ call.with = p
  BY DEF Step
<1>2. work' # <<>> /\ DOMAIN work' = {1} /\ work'[1] = call /\ Head(work') = call
  BY <1>1, OfOne
<1>3. /\ InWork' = {} /\ ~At({"unlink"})' /\ ~At({"put"})' /\ ~At(Saves)' /\ At({"unlink", "clear", "order"})'
  BY <1>1, <1>2 DEF InWork, At, Saves
<1>4. WorkFits'
  <2>1. ToSave' = {}
    BY <1>1, <1>2 DEF ToSave, Saves
  <2>2. QED
    BY <1>3, <2>1 DEF WorkFits
<1>5. WorkShape'
  BY <1>1, <1>2 DEF WorkShape
<1>6. QED
  BY <1>3, <1>4, <1>5 DEF Settled

LEMMA KeptReorder ==
    ASSUME Types, Kept, Types', NEW from \in DOMAIN form.rows, NEW to \in DOMAIN form.rows, ProfileReorder(from, to)
    PROVE  Kept'
<1>1. /\ running /\ work = <<>> /\ form.open /\ UNCHANGED <<files, order, running, used, lost, astray>>
      /\ store' = Reordered(from, to, store) /\ work' = OrderStep(from, to, store)
  BY DEF ProfileReorder, Free, Idle, disk
<1>2. store \in Seq(Profile) /\ form \in Window /\ form.rows \in Seq(Row)
  BY DEF Types, StoreTypes, FormTypes, Window
<1>3. PICK now : now = Reordered(from, to, store)
  OBVIOUS
<1>4. /\ now \in Seq(Profile) /\ DOMAIN now = DOMAIN store /\ store' = now
      /\ \/ now = store /\ work' = <<>>
         \/ \E p \in Profile : work' = <<Step("clear", p)>>
      /\ Shuffled(now, store)
  <2>1. /\ now \in Seq(Profile) /\ DOMAIN now = DOMAIN store
        /\ \/ now = store /\ OrderStep(from, to, store) = <<>>
           \/ \E p \in Profile : OrderStep(from, to, store) = <<Step("clear", p)>>
        /\ Shuffled(now, store)
    BY <1>2, <1>3, ReorderedIs
  <2>2. QED
    BY <1>1, <1>3, <2>1
<1>5. PICK g \in [DOMAIN store -> DOMAIN store] :
          /\ \A i \in DOMAIN store : now[i] = store[g[i]]
          /\ \A i, j \in DOMAIN store : g[i] = g[j] => i = j
          /\ \A i \in DOMAIN store : \E j \in DOMAIN store : g[j] = i
  BY <1>4 DEF Shuffled
<1>a. \A i \in DOMAIN now : g[i] \in DOMAIN store /\ now[i] = store[g[i]]
  BY <1>4, <1>5
<1>6. /\ WorkFits' /\ WorkShape' /\ InWork' = {} /\ Settled' = now
      /\ At({"unlink", "clear", "order"})' \/ store' = store
  BY <1>4, NoWork, OneClear
<1>7. ~At({"write", "put", "unlink"}) /\ ~At({"unlink", "clear", "order"}) /\ InWork = {}
  BY <1>1 DEF At, InWork
<1>8. StoreFits'
  <2>1. \A i \in DOMAIN store : IdFits(store[i]) /\ store[i].file \in GivenOut
    BY DEF Kept, StoreFits
  <2>2. \A i \in DOMAIN store' : IdFits(store'[i]) /\ store'[i].file \in GivenOut'
    <3>1. ASSUME NEW i \in DOMAIN now PROVE IdFits(now[i]) /\ now[i].file \in GivenOut
      <4>1. g[i] \in DOMAIN store /\ now[i] = store[g[i]]
        BY <1>a
      <4>2. QED
        BY <2>1, <4>1
    <3>2. GivenOut' = GivenOut
      BY <1>1 DEF GivenOut
    <3>3. QED
      BY <1>4, <3>1, <3>2
  <2>3. \A i, j \in DOMAIN store : store[i].file = store[j].file => i = j
    BY DEF Kept, StoreFits
  <2>4. \A i, j \in DOMAIN store' : store'[i].file = store'[j].file => i = j
    <3>1. \A i, j \in DOMAIN now : now[i].file = now[j].file => g[i] = g[j]
      BY <1>a, <2>3
    <3>2. QED
      BY <1>4, <1>5, <3>1
  <2>5. QED
    BY <2>2, <2>4 DEF StoreFits
<1>9. FilesFit'
  BY <1>1 DEF Kept, FilesFit, GivenOut
<1>10. IdsKept'
  <2>1. \A i \in DOMAIN store : KeepsId(store[i])
    BY DEF Kept, IdsKept
  <2>2. \A p \in Profile : KeepsId(p) => KeepsId(p)'
    BY <1>1 DEF KeepsId
  <2>3. \A i \in DOMAIN store : store[i] \in Profile
    BY <1>2
  <2>4. ASSUME NEW i \in DOMAIN now, NEW p \in Profile, p = now[i] PROVE KeepsId(p)'
    BY <1>4, <1>5, <2>1, <2>2, <2>4
  <2>5. \A i \in DOMAIN now : now[i] \in Profile
    BY <1>4
  <2>6. QED
    BY <1>4, <2>4, <2>5 DEF IdsKept
<1>11. FilesKnown'
  <2>1. ASSUME NEW f \in AllIds, files[f].state # "missing", f \notin lost PROVE \E i \in DOMAIN now : now[i].file = f
    <3>1. PICK i \in DOMAIN store : store[i].file = f
      BY <1>1, <1>7, <2>1 DEF Kept, FilesKnown
    <3>2. PICK j \in DOMAIN store : g[j] = i
      BY <1>5
    <3>3. QED
      BY <1>4, <1>5, <3>1, <3>2
  <2>2. QED
    BY <1>1, <1>4, <2>1 DEF FilesKnown
<1>12. RowsOf(Rows(now), now)
  <2>1. ASSUME NEW i \in DOMAIN now, NEW j \in DOMAIN now, now[i].id = now[j].id PROVE i = j \/ now[i].id = Default
    <3>1. g[i] \in DOMAIN store /\ g[j] \in DOMAIN store /\ now[i] = store[g[i]] /\ now[j] = store[g[j]]
      BY <1>4, <1>5
    <3>2. g[i] = g[j] \/ now[i].id = Default
      BY <2>1, <3>1, IdsDiffer DEF Kept
    <3>3. QED
      BY <1>4, <1>5, <3>2
  <2>2. QED
    BY <1>4, <2>1, RowsOfItself
<1>13. RowsFit' /\ OwnerFits'
  <2>1. PICK id, index : id = form.rows[from].id /\ index = IF IsIn(id, now) THEN Position(id, now) ELSE 1
    OBVIOUS
  <2>2. PICK w : w = [form EXCEPT !.rows = Rows(now), !.index = index]
    OBVIOUS
  <2>3. index \in Nat \ {0} /\ Rows(now) \in Seq(Row)
    BY <1>4, <2>1, GetType, RowsType
  <2>4. w \in Window /\ w.rows = Rows(now)
    <3>1. w \in Window
      BY <1>2, <2>2, <2>3, WindowWith
    <3>2. w.rows = Rows(now)
      BY <1>2, <2>2 DEF Window
    <3>3. QED
      BY <3>1, <3>2
  <2>5. \/ Show(w, now)
        \/ form' = [w EXCEPT !.dropped = TRUE]
    BY <1>3, <2>1, <2>2 DEF ProfileReorder
  <2>6. CASE Show(w, now)
    <3>1. RowsOf(form'.rows, now) /\ OwnerFits'
      BY <1>4, <1>12, <2>4, <2>6, ShownFits
    <3>2. QED
      BY <1>6, <3>1 DEF RowsFit
  <2>7. CASE form' = [w EXCEPT !.dropped = TRUE]
    <3>1. form'.dropped /\ form'.rows = Rows(now)
      BY <2>4, <2>7 DEF Window
    <3>2. QED
      BY <1>6, <1>12, <3>1 DEF RowsFit, OwnerFits
  <2>8. QED
    BY <2>5, <2>6, <2>7
<1>14. OrderFits'
  <2>1. store' = store => (Agrees' <=> Agrees)
    BY <1>1, AgreesStays
  <2>2. QED
    BY <1>1, <1>6, <1>7, <2>1 DEF Kept, OrderFits
<1>15. FilesHoldStore'
  <2>1. ASSUME NEW i \in DOMAIN now, NEW p, p = now[i] PROVE HoldsIt(p)'
    <3>1. HoldsIt(p)
      <4>1. g[i] \in DOMAIN store /\ p = store[g[i]]
        BY <1>4, <1>5, <2>1
      <4>2. QED
        BY <1>1, <4>1, HoldsAll DEF Kept
    <3>2. Load(p.file)' = Load(p.file)
      BY <1>1 DEF Load
    <3>3. QED
      BY <1>1, <1>6, <1>7, <3>1, <3>2 DEF HoldsIt
  <2>2. (FilesHoldStore <=> (running => \A i \in DOMAIN store : HoldsIt(store[i])))'
    BY HoldsAll, PTL
  <2>3. \A i \in DOMAIN store' : HoldsIt(store[i])'
    BY <1>4, <2>1
  <2>4. QED
    BY <2>2, <2>3
<1>16. Stopped'
  BY <1>1 DEF Stopped
<1>17. QED
  BY <1>6, <1>8, <1>9, <1>10, <1>11, <1>13, <1>14, <1>15, <1>16 DEF Kept

\* Taking one element out leaves the others.
LEMMA CutIs ==
    ASSUME NEW T, NEW s \in Seq(T), NEW k \in DOMAIN s, NEW t, t = Cut(s, k)
    PROVE  /\ t \in Seq(T)
           /\ \A i \in DOMAIN t : Whence(k, i) \in DOMAIN s /\ Whence(k, i) # k /\ t[i] = s[Whence(k, i)]
           /\ \A i, j \in DOMAIN t : Whence(k, i) = Whence(k, j) => i = j
           /\ \A i \in DOMAIN s : i # k => \E m \in DOMAIN t : Whence(k, m) = i
<1>1. Len(s) \in Nat \ {0} /\ DOMAIN s = 1..Len(s) /\ k \in 1..Len(s)
  OBVIOUS
<1>2. t \in Seq(T) /\ DOMAIN t = 1..(Len(s) - 1) /\ \A i \in DOMAIN t : t[i] = s[Whence(k, i)]
  BY RemoveAtCuts DEF Cut, Whence
<1>3. \A i \in DOMAIN t : Whence(k, i) \in DOMAIN s /\ Whence(k, i) # k
  BY <1>1, <1>2 DEF Whence
<1>4. \A i, j \in DOMAIN t : Whence(k, i) = Whence(k, j) => i = j
  BY <1>1, <1>2 DEF Whence
<1>5. ASSUME NEW i \in DOMAIN s, i # k PROVE \E m \in DOMAIN t : Whence(k, m) = i
  <2>1. PICK m : m = IF i < k THEN i ELSE i - 1
    OBVIOUS
  <2>2. m \in DOMAIN t /\ Whence(k, m) = i
    BY <1>1, <1>2, <1>5, <2>1 DEF Whence
  <2>3. QED
    BY <2>2
<1>6. QED
  BY <1>2, <1>3, <1>4, <1>5

LEMMA KeptDelete ==
    ASSUME Types, Kept, Types', ProfileDelete
    PROVE  Kept'
<1>1. /\ running /\ work = <<>> /\ form.open /\ form.index \in DOMAIN form.rows
      /\ UNCHANGED <<files, order, running, used, lost, astray>>
  BY DEF ProfileDelete, Free, Idle, disk
<1>2. store \in Seq(Profile) /\ form \in Window /\ form.rows \in Seq(Row)
  BY DEF Types, StoreTypes, FormTypes, Window
<1>3. PICK k \in DOMAIN store :
          /\ Get(Selected(form), store) = store[k] /\ store[k].id = Selected(form)
          /\ store[k].id # Default /\ store[k] \in Profile
          /\ \A j \in DOMAIN store : store[j].id = store[k].id => j = k
          /\ Without(store[k].id, store) = Cut(store, k) /\ Cut(store, k) \in Seq(Profile)
          /\ Len(Cut(store, k)) = Len(store) - 1
  BY Deleted DEF Kept
<1>4. PICK t \in Seq(Profile) :
          /\ t = Cut(store, k)
          /\ \A i \in DOMAIN t : Whence(k, i) \in DOMAIN store /\ Whence(k, i) # k /\ t[i] = store[Whence(k, i)]
          /\ \A i, j \in DOMAIN t : Whence(k, i) = Whence(k, j) => i = j
          /\ \A i \in DOMAIN store : i # k => \E m \in DOMAIN t : Whence(k, m) = i
  <2>1. PICK t : t = Cut(store, k)
    OBVIOUS
  <2>2. /\ t \in Seq(Profile)
        /\ \A i \in DOMAIN t : Whence(k, i) \in DOMAIN store /\ Whence(k, i) # k /\ t[i] = store[Whence(k, i)]
        /\ \A i, j \in DOMAIN t : Whence(k, i) = Whence(k, j) => i = j
        /\ \A i \in DOMAIN store : i # k => \E m \in DOMAIN t : Whence(k, m) = i
    BY <1>2, <2>1, CutIs
  <2>3. QED
    BY <2>1, <2>2
<1>5. PICK p \in Profile : p = store[k]
  BY <1>3
<1>6. PICK j, rows : j \in DOMAIN form.rows /\ j = form.index /\ rows = RemoveAt(form.rows, form.index)
  BY <1>1
<1>7. /\ store' = t /\ work' = <<Step("unlink", p), Step("forget", p)>>
      /\ Show([form EXCEPT !.rows = rows, !.index = 1], t)
  BY <1>3, <1>4, <1>5, <1>6 DEF ProfileDelete
<1>8. rows = Cut(form.rows, j) /\ rows \in Seq(Row) /\ Selected(form) = form.rows[j].id
  BY <1>2, <1>6, RemoveAtCuts DEF Selected
<1>9. PICK a, b : a = Step("unlink", p) /\ b = Step("forget", p)
                  /\ a.do = "unlink" /\ a.with = p /\ b.do = "forget" /\ b.with = p
  <2>1. PICK a, b : a = Step("unlink", p) /\ b = Step("forget", p)
    OBVIOUS
  <2>2. a.do = "unlink" /\ a.with = p /\ b.do = "forget" /\ b.with = p
    BY <2>1 DEF Step
  <2>3. QED
    BY <2>1, <2>2
<1>10. work' # <<>> /\ DOMAIN work' = {1, 2} /\ work'[1] = a /\ work'[2] = b /\ Head(work') = a
  BY <1>7, <1>9, OfTwo
<1>11. Subject' = p
  BY <1>9, <1>10 DEF Subject
<1>12. /\ InWork' = {} /\ ~At({"put"})' /\ ~At(Saves)' /\ At({"unlink", "clear", "order"})'
       /\ At({"write", "put", "unlink"})'
  BY <1>9, <1>10 DEF InWork, At, Saves
<1>13. InWork = {} /\ ~At({"write", "put", "unlink"})
  BY <1>1 DEF InWork, At
<1>14. StoreFits'
  <2>1. ASSUME NEW i \in DOMAIN t PROVE IdFits(t[i]) /\ t[i].file \in GivenOut
    <3>1. Whence(k, i) \in DOMAIN store /\ t[i] = store[Whence(k, i)]
      BY <1>4
    <3>2. QED
      BY <3>1 DEF Kept, StoreFits
  <2>2. GivenOut' = GivenOut
    BY <1>1 DEF GivenOut
  <2>3. \A i, m \in DOMAIN t : t[i].file = t[m].file => i = m
    <3>1. \A i, m \in DOMAIN t : t[i].file = t[m].file => Whence(k, i) = Whence(k, m)
      BY <1>4 DEF Kept, StoreFits
    <3>2. QED
      BY <1>4, <3>1
  <2>4. QED
    BY <1>7, <2>1, <2>2, <2>3 DEF StoreFits
<1>15. FilesFit'
  BY <1>1 DEF Kept, FilesFit, GivenOut
<1>16. IdsKept'
  <2>1. ASSUME NEW i \in DOMAIN t, NEW q, q = t[i] PROVE KeepsId(q)'
    <3>1. Whence(k, i) \in DOMAIN store /\ q = store[Whence(k, i)]
      BY <1>4, <2>1
    <3>2. KeepsId(q)
      BY <3>1 DEF Kept, IdsKept
    <3>3. QED
      BY <1>1, <3>2 DEF KeepsId
  <2>2. QED
    BY <1>7, <2>1 DEF IdsKept
<1>17. FilesKnown'
  <2>1. ASSUME NEW f \in AllIds, files[f].state # "missing", f \notin lost, f # p.file PROVE \E i \in DOMAIN t : t[i].file = f
    <3>1. PICK i \in DOMAIN store : store[i].file = f
      BY <1>1, <1>13, <2>1 DEF Kept, FilesKnown
    <3>2. i # k
      BY <1>5, <2>1, <3>1
    <3>3. PICK m \in DOMAIN t : Whence(k, m) = i
      BY <1>4, <3>2
    <3>4. t[m].file = f
      BY <1>4, <3>1, <3>3
    <3>5. QED
      BY <3>4
  <2>2. QED
    BY <1>1, <1>7, <1>11, <1>12, <2>1 DEF FilesKnown
<1>18. WorkFits'
  <2>1. ToSave' = {}
    BY <1>9, <1>10 DEF ToSave, Saves
  <2>2. ASSUME NEW i \in DOMAIN t PROVE t[i].file # p.file
    <3>1. Whence(k, i) \in DOMAIN store /\ Whence(k, i) # k /\ t[i] = store[Whence(k, i)]
      BY <1>4
    <3>2. QED
      BY <1>5, <3>1 DEF Kept, StoreFits
  <2>3. QED
    BY <1>7, <1>11, <1>12, <2>1, <2>2 DEF WorkFits
<1>19. WorkShape'
  BY <1>9, <1>10 DEF WorkShape
<1>20. Stopped'
  BY <1>1 DEF Stopped
<1>21. RowsFit' /\ OwnerFits'
  <2>1. PICK w : w = [form EXCEPT !.rows = rows, !.index = 1]
    OBVIOUS
  <2>2. w \in Window /\ w.rows = rows
    <3>1. PICK n \in Nat \ {0} : n = 1
      OBVIOUS
    <3>2. w = [form EXCEPT !.rows = rows, !.index = n]
      BY <2>1, <3>1
    <3>3. w \in Window
      BY <1>2, <1>8, <3>2, WindowWith
    <3>4. w.rows = rows
      BY <1>2, <2>1 DEF Window
    <3>5. QED
      BY <3>3, <3>4
  <2>3. RowsOf(form.rows, store)
    BY <1>1, SettledIdle DEF Kept, RowsFit
  <2>4. RowsOf(Cut(form.rows, j), Cut(store, k))
    <3>1. store[k].id = form.rows[j].id
      BY <1>3, <1>8
    <3>2. PICK s \in Seq(Profile), r \in Seq(Row) : s = store /\ r = form.rows
      BY <1>2
    <3>3. k \in DOMAIN s /\ j \in DOMAIN r /\ s[k].id = r[j].id /\ s[k].id # Default /\ RowsOf(r, s)
      BY <1>3, <1>6, <2>3, <3>1, <3>2
    <3>4. \A i \in DOMAIN s : s[i].id = s[k].id => i = k
      BY <1>3, <3>2
    <3>5. RowsOf(Cut(r, j), Cut(s, k))
      BY <3>3, <3>4, RowsDeleted
    <3>6. QED
      BY <3>2, <3>5
  <2>5. RowsOf(w.rows, t) /\ Show(w, t)
    BY <1>4, <1>7, <1>8, <2>1, <2>2, <2>4
  <2>6. RowsOf(form'.rows, t) /\ OwnerFits'
    BY <2>2, <2>5, ShownFits
  <2>7. Settled' = t
    BY <1>7, <1>12 DEF Settled
  <2>8. QED
    BY <2>6, <2>7 DEF RowsFit
<1>22. OrderFits'
  BY <1>12 DEF OrderFits
<1>23. FilesHoldStore'
  <2>1. ASSUME NEW i \in DOMAIN t, NEW q, q = t[i] PROVE HoldsIt(q)'
    <3>1. Whence(k, i) \in DOMAIN store /\ q = store[Whence(k, i)]
      BY <1>4, <2>1
    <3>2. HoldsIt(q)
      BY <1>1, <3>1, HoldsAll DEF Kept
    <3>3. Load(q.file)' = Load(q.file)
      BY <1>1 DEF Load
    <3>4. QED
      BY <1>1, <1>12, <1>13, <3>2, <3>3 DEF HoldsIt
  <2>2. (FilesHoldStore <=> (running => \A i \in DOMAIN store : HoldsIt(store[i])))'
    BY HoldsAll, PTL
  <2>3. \A i \in DOMAIN store' : HoldsIt(store[i])'
    BY <1>7, <2>1
  <2>4. QED
    BY <2>2, <2>3
<1>24. QED
  BY <1>14, <1>15, <1>16, <1>17, <1>18, <1>19, <1>20, <1>21, <1>22, <1>23 DEF Kept

-----------------------------------------------------------------------------
(* Kept is an invariant: the program starts and ends *)

\* What new_in may start with is in order, ...
LEMMA LoadsAgree ==
    ASSUME Types, NEW s \in Loads, Distinct(s), NEW i \in DOMAIN s, NEW j \in DOMAIN s, i < j, Known(s[j].id)
    PROVE  Known(s[i].id) /\ Place(s[i].id) < Place(s[j].id)
<1>1. CASE Present = {}
  <2>1. s = <<DefaultParams>>
    BY <1>1, LoadsAre
  <2>2. DOMAIN s = {1}
    BY <2>1, OfOne, DefaultParamsType
  <2>3. QED
    BY <2>2
<1>2. CASE Present # {}
  <2>1. Before(s[i], s[j])
    BY <1>2, LoadsAre
  <2>2. Known(s[i].id) /\ Place(s[i].id) <= Place(s[j].id)
    BY <2>1 DEF Before
  <2>3. order \in Seq(AllIds)
    BY DEF Types, DiskTypes
  <2>4. /\ Place(s[i].id) \in DOMAIN order /\ order[Place(s[i].id)] = s[i].id
        /\ Place(s[j].id) \in DOMAIN order /\ order[Place(s[j].id)] = s[j].id
    BY <2>2, <2>3, PlaceIsFirst
  <2>5. s \in Seq(Profile)
    BY LoadsAre
  <2>6. s[i].id # s[j].id
    BY <2>5 DEF Distinct
  <2>7. Place(s[i].id) \in Nat /\ Place(s[j].id) \in Nat
    BY <2>3, <2>4
  <2>8. QED
    BY <2>2, <2>4, <2>6, <2>7
<1>3. QED
  BY <1>1, <1>2

\* ... and is what the files hold, each of which is in it.
LEMMA LoadsFit ==
    ASSUME Types, FilesFit, NEW s \in Loads
    PROVE  /\ s \in Seq(Profile)
           /\ \A i \in DOMAIN s : /\ IdFits(s[i]) /\ s[i].file \in GivenOut /\ KeepsId(s[i])
                                  /\ \/ files[s[i].file].state = "missing" /\ s[i] = DefaultParams
                                     \/ Same(Load(s[i].file), s[i])
           /\ \A i, j \in DOMAIN s : s[i].file = s[j].file => i = j
           /\ \A f \in AllIds : files[f].state # "missing" => \E i \in DOMAIN s : s[i].file = f
<1>1. CASE Present = {}
  <2>1. s = <<DefaultParams>>
    BY <1>1, LoadsAre
  <2>2. s \in Seq(Profile) /\ DOMAIN s = {1} /\ s[1] = DefaultParams
    BY <2>1, OfOne, DefaultParamsType
  <2>3. DefaultParams.id = Default /\ DefaultParams.file = Default
    BY DEF DefaultParams
  <2>4. \A f \in AllIds : files[f].state = "missing"
    BY <1>1 DEF Present
  <2>5. Default \in AllIds /\ files[Default].state = "missing"
    BY <2>4 DEF AllIds
  <2>6. IdFits(DefaultParams) /\ DefaultParams.file \in GivenOut /\ KeepsId(DefaultParams)
    BY <2>3, <2>5 DEF IdFits, GivenOut, KeepsId
  <2>7. QED
    BY <2>2, <2>3, <2>4, <2>5, <2>6
<1>2. CASE Present # {}
  <2>1. /\ s \in Seq(Profile)
        /\ \A i \in DOMAIN s : s[i].file \in Present /\ s[i] = Load(s[i].file)
        /\ \A f \in Present : \E i \in DOMAIN s : s[i] = Load(f)
        /\ \A i, j \in DOMAIN s : s[i].file = s[j].file => i = j
    BY <1>2, LoadsAre
  <2>2. ASSUME NEW i \in DOMAIN s
        PROVE  IdFits(s[i]) /\ s[i].file \in GivenOut /\ KeepsId(s[i]) /\ Same(Load(s[i].file), s[i])
    <3>1. PICK p \in Profile, f \in AllIds : p = s[i] /\ f = p.file /\ p = Load(f) /\ files[f].state # "missing"
      BY <2>1 DEF Present
    <3>2. p.id = IF files[f].state = "whole" THEN files[f].with.id ELSE Default
      BY <3>1, LoadIs
    <3>3. f \in GivenOut /\ (files[f].state = "whole" => files[f].with.file = f /\ IdFits(files[f].with))
      BY <3>1 DEF FilesFit
    <3>4. IdFits(p) /\ KeepsId(p)
      BY <3>1, <3>2, <3>3 DEF IdFits, KeepsId
    <3>5. Same(p, p)
      BY DEF Same, Profile
    <3>6. QED
      BY <3>1, <3>3, <3>4, <3>5
  <2>3. ASSUME NEW f \in AllIds, files[f].state # "missing" PROVE \E i \in DOMAIN s : s[i].file = f
    <3>1. PICK i \in DOMAIN s : s[i] = Load(f)
      BY <2>1, <2>3 DEF Present
    <3>2. s[i].file = f
      BY <3>1, LoadIs
    <3>3. QED
      BY <3>2
  <2>4. QED
    BY <2>1, <2>2, <2>3
<1>3. QED
  BY <1>1, <1>2

LEMMA KeptStart ==
    ASSUME Types, Kept, Start
    PROVE  Kept'
<1>1. /\ ~running /\ running' /\ UNCHANGED <<files, order, work, form, used>> /\ lost' = {}
  BY DEF Start, disk
<1>2. work' = <<>> /\ ~form'.open
  BY <1>1 DEF Kept, Stopped, NoForm
<1>3. PICK s \in Loads : s = store'
  BY DEF Start
<1>4. /\ s \in Seq(Profile)
      /\ \A i \in DOMAIN s : /\ IdFits(s[i]) /\ s[i].file \in GivenOut /\ KeepsId(s[i])
                             /\ \/ files[s[i].file].state = "missing" /\ s[i] = DefaultParams
                                \/ Same(Load(s[i].file), s[i])
      /\ \A i, j \in DOMAIN s : s[i].file = s[j].file => i = j
      /\ \A f \in AllIds : files[f].state # "missing" => \E i \in DOMAIN s : s[i].file = f
  BY LoadsFit DEF Kept
<1>5. GivenOut' = GivenOut
  BY <1>1 DEF GivenOut
<1>6. StoreFits' /\ FilesFit'
  BY <1>1, <1>3, <1>4, <1>5 DEF Kept, StoreFits, FilesFit
<1>7. IdsKept'
  BY <1>1, <1>3, <1>4 DEF IdsKept, KeepsId
<1>8. FilesKnown'
  BY <1>1, <1>3, <1>4 DEF FilesKnown
<1>9. WorkFits' /\ WorkShape' /\ InWork' = {}
  BY <1>2, NoWork
<1>10. Stopped' /\ RowsFit' /\ OwnerFits'
  BY <1>1, <1>2 DEF Stopped, RowsFit, OwnerFits
<1>11. OrderFits'
  <2>1. \A id : (Known(id)' <=> Known(id)) /\ Place(id)' = Place(id)
    BY <1>1 DEF Known, Place
  <2>2. Distinct(s) => \A i, j \in DOMAIN s : i < j /\ Known(s[j].id) => Known(s[i].id) /\ Place(s[i].id) < Place(s[j].id)
    BY LoadsAgree
  <2>3. Distinct(s) =>
            \A i, j \in DOMAIN store' :
                i < j /\ Known(store[j].id)' => Known(store[i].id)' /\ Place(store[i].id)' < Place(store[j].id)'
    BY <1>1, <1>3, <2>2 DEF Known, Place
  <2>4. QED
    BY <1>3, <2>3 DEF OrderFits, Agrees
<1>12. FilesHoldStore'
  <2>1. ASSUME NEW i \in DOMAIN s, NEW p, p = s[i] PROVE HoldsIt(p)'
    <3>1. \/ files[p.file].state = "missing" /\ p = DefaultParams
          \/ Same(Load(p.file), p)
      BY <1>4, <2>1
    <3>2. Load(p.file)' = Load(p.file)
      BY <1>1 DEF Load
    <3>3. QED
      BY <1>1, <3>1, <3>2 DEF HoldsIt
  <2>2. (FilesHoldStore <=> (running => \A i \in DOMAIN store : HoldsIt(store[i])))'
    BY HoldsAll, PTL
  <2>3. \A i \in DOMAIN store' : HoldsIt(store[i])'
    BY <1>3, <2>1
  <2>4. QED
    BY <2>2, <2>3
<1>13. QED
  BY <1>6, <1>7, <1>8, <1>9, <1>10, <1>11, <1>12 DEF Kept

LEMMA KeptStop ==
    ASSUME Types, Kept, Stop
    PROVE  Kept'
<1>1. /\ ~running' /\ store' = <<>> /\ work' = <<>> /\ form' = NoForm /\ fetches' = {} /\ ~form'.open
      /\ UNCHANGED <<files, used>> /\ DOMAIN store' = {}
  BY DEF Stop, disk, NoForm
<1>2. StoreFits' /\ FilesFit' /\ IdsKept' /\ FilesKnown'
  BY <1>1 DEF Kept, StoreFits, FilesFit, GivenOut, IdsKept, FilesKnown
<1>3. WorkFits' /\ WorkShape'
  BY <1>1, NoWork
<1>4. Stopped' /\ RowsFit' /\ OwnerFits' /\ OrderFits' /\ FilesHoldStore'
  BY <1>1 DEF Stopped, RowsFit, OwnerFits, OrderFits, FilesHoldStore
<1>5. QED
  BY <1>2, <1>3, <1>4 DEF Kept

\* Each step keeps types and invariant.
LEMMA KeptNext ==
    ASSUME Types, Kept, Next
    PROVE  Types' /\ Kept'
<1> USE DEF Next
<1>1. CASE Truncate \/ Write \/ WriteFails \/ PutInStore \/ Unlink \/ UnlinkFails \/ ClearOrder \/ WriteOrder \/ OrderFails \/ SpawnDeletion
  <2>1. Types'
    BY <1>1, TypesWork
  <2>2. QED
    BY <1>1, <2>1, KeptFile, KeptPut, KeptAdd, KeptClear, KeptOrdered
<1>2. CASE \/ Open \/ Close \/ Edit \/ FetchInfo
           \/ \E f \in fetches : FetchDone(f)
           \/ \E i \in DOMAIN form.rows : Select(i)
  <2>1. Types'
    BY <1>2, TypesWindow
  <2>2. QED
    BY <1>2, <2>1, KeptWindow
<1>3. CASE ProfileDelete
  <2>1. Types'
    BY <1>3, TypesDelete DEF Kept
  <2>2. QED
    BY <1>3, <2>1, KeptDelete
<1>4. CASE Start \/ Stop
  <2>1. Types'
    BY <1>4, TypesBeside
  <2>2. QED
    BY <1>4, <2>1, KeptStart, KeptStop
<1>5. CASE \E i, j \in DOMAIN form.rows : ProfileReorder(i, j)
  <2>1. PICK i \in DOMAIN form.rows, j \in DOMAIN form.rows : ProfileReorder(i, j)
    BY <1>5
  <2>2. Types'
    BY <2>1, TypesReorder
  <2>3. QED
    BY <2>1, <2>2, KeptReorder
<1>6. CASE \E name \in Names : ProfileRename(name)
  <2>1. PICK name \in Names : ProfileRename(name)
    BY <1>6
  <2>2. Types'
    BY <2>1, TypesRename
  <2>3. QED
    BY <2>1, <2>2, KeptRename
<1>7. CASE \E id \in Ids, name \in Names : ProfileNew(id, name)
  <2>1. PICK id \in Ids, name \in Names : ProfileNew(id, name)
    BY <1>7
  <2>2. Types'
    BY <2>1, TypesNew
  <2>3. QED
    BY <2>1, <2>2, KeptNew
<1>8. CASE \E closes \in BOOLEAN : SaveSettings(closes)
  <2>1. PICK closes \in BOOLEAN : SaveSettings(closes)
    BY <1>8
  <2>2. Types'
    BY <2>1, TypesSave
  <2>3. QED
    BY <2>1, <2>2, KeptSave
<1>9. CASE \/ \E id \in AllIds : SetConnected(id)
           \/ \E id \in AllIds : Login(id) \/ StorePassword(id) \/ DeletePassword(id)
  <2>1. Types'
    BY <1>9, TypesBeside
  <2>2. QED
    BY <1>9, <2>1, KeptBeside
<1>10. QED
  BY <1>1, <1>2, <1>3, <1>4, <1>5, <1>6, <1>7, <1>8, <1>9

\* A step in which nothing changes does.
LEMMA KeptStutter ==
    ASSUME Types, Kept, UNCHANGED vars
    PROVE  Types' /\ Kept'
<1>1. UNCHANGED <<files, order, store, connected, running, work, form, fetches, logins, deletions, keychain,
                  used, lost, astray, changes, faults>>
  BY DEF vars, disk, memory, passwords, history
<1>2. Types'
  BY <1>1 DEF Types, DiskTypes, StoreTypes, WorkTypes, FormTypes, OtherTypes
<1>3. RowsFit' /\ OwnerFits' /\ Stopped'
  <2>1. Settled' = Settled
    BY <1>1 DEF Settled, At, Subject
  <2>2. QED
    BY <1>1, <2>1 DEF Kept, RowsFit, OwnerFits, Stopped
<1>4. QED
  BY <1>1, <1>2, <1>3, KeptStill

THEOREM ProfilesInvariant == Spec => [](Types /\ Kept)
<1>1. Init => Types /\ Kept
  BY TypesInit, KeptInit
<1>2. Types /\ Kept /\ [Next]_vars => (Types /\ Kept)'
  BY KeptNext, KeptStutter
<1>3. QED
  BY <1>1, <1>2, PTL DEF Spec

-----------------------------------------------------------------------------
(* What it implies *)

LEMMA TypesSuffice == Types => TypeOK
<1> SUFFICES ASSUME Types PROVE TypeOK
  OBVIOUS
<1>1. \A f \in AllIds : files[f].state \in {"missing", "empty", "whole"} /\ files[f].with \in Profile
  BY DEF Types, DiskTypes
<1>2. order \in Seq(AllIds) /\ store \in Seq(Profile) /\ connected \in AllIds /\ running \in BOOLEAN
  BY DEF Types, DiskTypes, StoreTypes
<1>3. \A i \in DOMAIN work : work[i].with \in Profile
  <2>1. \A i \in DOMAIN work : work[i] \in Call
    BY DEF Types, WorkTypes
  <2>2. QED
    BY <2>1 DEF Call
<1>4. /\ form.rows \in Seq([id : AllIds, name : Names \cup {0}])
      /\ form.index \in Nat \ {0} /\ form.auth_type \in Nat \ {0}
      /\ fetches \subseteq [server : Servers, login : LoginTypes \cup {NoLogin}]
  BY DEF Types, FormTypes, Window, Request, Row
<1>5. /\ UNION {logins, deletions, keychain, lost} \subseteq AllIds /\ used \subseteq Ids
      /\ changes \in 0..MaxChanges /\ faults \in 0..MaxFaults /\ astray \in BOOLEAN
  BY DEF Types, OtherTypes
<1>6. QED
  BY <1>1, <1>2, <1>3, <1>4, <1>5 DEF TypeOK

\* A profile in memory comes back from its file.
LEMMA ComesBack ==
    ASSUME Types, Kept, running, NEW s \in Loads, NEW p \in Range1(store),
           files[p.file].state # "missing", ~(files[p.file].state = "empty" /\ p.file \in InWork \cup lost)
    PROVE  \E k \in DOMAIN s : s[k].file = p.file /\ s[k].id = p.id
<1>1. PICK i \in DOMAIN store : p = store[i]
  BY DEF Range1
<1>2. p \in Profile
  BY <1>1 DEF Types, StoreTypes
<1>3. PICK f \in Present : f = p.file
  BY <1>2 DEF Present, Profile
<1>4. PICK k \in DOMAIN s : s[k] = Load(f)
  BY <1>3, LoadsAre
<1>5. PICK q \in Profile : q = Load(f) /\ q.file = f /\ q.id = IF files[f].state = "whole" THEN files[f].with.id ELSE Default
  BY <1>3, LoadIs DEF Present
<1>6. CASE files[f].state = "whole"
  <2>1. KeepsId(p)
    BY <1>1 DEF Kept, IdsKept
  <2>2. QED
    BY <1>3, <1>4, <1>5, <1>6, <2>1 DEF KeepsId
<1>7. CASE files[f].state # "whole"
  <2>1. files[f].state = "empty"
    BY <1>3, <1>7 DEF Types, DiskTypes, Present
  <2>2. HoldsIt(p)
    BY <1>1, HoldsAll DEF Kept
  <2>3. Same(q, p)
    BY <1>3, <1>5, <2>1, <2>2 DEF HoldsIt
  <2>4. [q EXCEPT !.look = p.look] = p
    BY <2>3 DEF Same
  <2>5. q.id = p.id
    BY <2>4 DEF Profile
  <2>6. QED
    BY <1>3, <1>4, <1>5, <2>5
<1>8. QED
  BY <1>6, <1>7

\* ... and no other one does.
LEMMA ProfilesSurvive == Types /\ Kept => RestartKeepsProfiles
<1>1. SUFFICES ASSUME Types, Kept, running, NEW s \in Loads
               PROVE  /\ \A p \in Range1(store) :
                             \/ files[p.file].state = "missing"
                             \/ files[p.file].state = "empty" /\ p.file \in InWork \cup lost
                             \/ \E i \in DOMAIN s : s[i].file = p.file /\ s[i].id = p.id
                      /\ \A i \in DOMAIN s :
                             \/ \E p \in Range1(store) : p.file = s[i].file
                             \/ s[i].file \in lost
                             \/ work # <<>> /\ s[i].file = Subject.file
                             \/ files[s[i].file].state = "missing" /\ s[i] = DefaultParams
  BY DEF RestartKeepsProfiles
<1>2. ASSUME NEW i \in DOMAIN s
      PROVE  \/ \E p \in Range1(store) : p.file = s[i].file
             \/ s[i].file \in lost
             \/ work # <<>> /\ s[i].file = Subject.file
             \/ files[s[i].file].state = "missing" /\ s[i] = DefaultParams
  <2>1. CASE Present = {}
    <3>1. s = <<DefaultParams>>
      BY <1>1, <2>1, LoadsAre
    <3>2. s[i] = DefaultParams
      BY <3>1, OfOne, DefaultParamsType
    <3>3. DefaultParams.file = Default /\ Default \in AllIds
      BY DEF DefaultParams, AllIds
    <3>4. QED
      BY <2>1, <3>2, <3>3 DEF Present
  <2>2. CASE Present # {}
    <3>1. PICK f \in AllIds : f = s[i].file /\ files[f].state # "missing"
      BY <1>1, <2>2, LoadsAre DEF Present
    <3>2. \/ f \in lost
          \/ \E k \in DOMAIN store : store[k].file = f
          \/ At({"write", "put", "unlink"}) /\ Subject.file = f
      BY <1>1, <3>1 DEF Kept, FilesKnown
    <3>3. QED
      BY <3>1, <3>2 DEF At, Range1
  <2>3. QED
    BY <2>1, <2>2
<1>3. QED
  BY <1>1, <1>2, ComesBack

LEMMA OrderSurvives == Types /\ Kept => RestartKeepsOrder
<1>1. SUFFICES ASSUME Types, Kept, running, Distinct(store), ~astray, ~At({"unlink", "clear", "order"}),
                      NEW s \in Loads, NEW i \in DOMAIN s, NEW j \in DOMAIN s, Returns(s, i), Returns(s, j), i < j,
                      Known(s[i].id) \/ Known(s[j].id)
               PROVE  Position(s[i].id, store) < Position(s[j].id, store)
  BY DEF RestartKeepsOrder, At
<1>2. store \in Seq(Profile) /\ s \in Seq(Profile)
  BY <1>1, LoadsAre DEF Types, StoreTypes
<1>3. CASE Present = {}
  <2>1. s = <<DefaultParams>>
    BY <1>1, <1>3, LoadsAre
  <2>2. DOMAIN s = {1}
    BY <2>1, OfOne, DefaultParamsType
  <2>3. QED
    BY <1>1, <2>2
<1>4. CASE Present # {}
  <2>1. Before(s[i], s[j]) /\ s[i].file # s[j].file
    <3>1. i # j
      BY <1>1, <1>2
    <3>2. QED
      BY <1>1, <1>4, <3>1, LoadsAre
  <2>2. PICK a \in DOMAIN store : store[a].file = s[i].file /\ store[a].id = s[i].id
    BY <1>1 DEF Returns, Range1
  <2>3. PICK b \in DOMAIN store : store[b].file = s[j].file /\ store[b].id = s[j].id
    BY <1>1 DEF Returns, Range1
  <2>4. Position(s[i].id, store) = a /\ Position(s[j].id, store) = b
    <3>1. Position(store[a].id, store) = a /\ Position(store[b].id, store) = b
      BY <1>1, <1>2, PositionIsIt
    <3>2. QED
      BY <2>2, <2>3, <3>1
  <2>5. a \in Nat /\ b \in Nat /\ a # b
    BY <1>2, <2>1, <2>2, <2>3
  <2>6. Agrees
    BY <1>1 DEF Kept, OrderFits
  <2>7. b < a /\ Known(s[i].id) => Known(s[j].id) /\ Place(s[j].id) < Place(s[i].id)
    BY <2>2, <2>3, <2>6 DEF Agrees
  <2>8. ~(b < a)
    <3>1. order \in Seq(AllIds)
      BY <1>1 DEF Types, DiskTypes
    <3>2. Known(s[i].id)
      BY <1>1, <2>1 DEF Before
    <3>3. Known(s[j].id) => Place(s[i].id) <= Place(s[j].id) /\ Place(s[i].id) \in Nat /\ Place(s[j].id) \in Nat
      BY <2>1, <3>1, <3>2, PlaceIsFirst DEF Before
    <3>4. QED
      BY <2>7, <3>2, <3>3
  <2>9. QED
    BY <2>4, <2>5, <2>8
<1>5. QED
  BY <1>3, <1>4

LEMMA WindowSuffices == Types /\ Kept => WindowFollowsStore
<1> SUFFICES ASSUME Types, Kept PROVE WindowFollowsStore
  OBVIOUS
<1>1. Free /\ Distinct(store) => form.rows \in {Rows(store), Without(Default, Rows(store))}
  BY SettledIdle DEF Free, Idle, Kept, RowsFit, RowsOf
<1>2. Free /\ form.index \in DOMAIN form.rows /\ ~form.dropped => form.owner = Selected(form)
  BY DEF Free, Kept, OwnerFits
<1>3. QED
  BY <1>1, <1>2 DEF WindowFollowsStore

-----------------------------------------------------------------------------
(* Theorems *)

\* Files, memory, the calls of handlers and the window hold what they are meant to.
THEOREM ProfilesTypes == Spec => []TypeOK
<1>1. Types /\ Kept => TypeOK
  BY TypesSuffice
<1>2. QED
  BY <1>1, ProfilesInvariant, PTL

\* Wherever a handler is cut off, and whichever of its writes and removals fail: files say what
\* the memory says, a restart brings back the profiles of the memory and no others, and in their
\* order, with exactly the exceptions that StoreSurvives names, which are the errors and crashes
\* that the code takes no notice of.
THEOREM ProfilesStoreSurvives == Spec => []StoreSurvives
<1>1. Types /\ Kept => StoreSurvives
  BY ProfilesSurvive, OrderSurvives DEF StoreSurvives, Kept
<1>2. QED
  BY <1>1, ProfilesInvariant, PTL

\* The rows of the window are the profiles in memory, and what it saves goes to the profile
\* whose values it shows.
THEOREM ProfilesWindowFollowsStore == Spec => []WindowFollowsStore
<1>1. Types /\ Kept => WindowFollowsStore
  BY WindowSuffices
<1>2. QED
  BY <1>1, ProfilesInvariant, PTL
=============================================================================

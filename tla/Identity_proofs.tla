--------------------------- MODULE Identity_proofs ---------------------------
(* Identity for names of any length.  What getDashedDomain makes of a name *)
(* is proved by the least counterexample: a name for which a fact fails    *)
(* has a shorter one for which it fails.                                   *)
EXTENDS Identity, SequenceTheorems, WellFoundedInduction, TLAPS

(* Any set of natural numbers has a least element: what proofs about names *)
(* of any length go by.                                                    *)
LEMMA Least ==
  ASSUME NEW T \in SUBSET Nat, T # {}
  PROVE  \E n \in T : \A m \in T : n <= m
<1> DEFINE R == OpToRel(<, Nat)
<1>1. IsWellFoundedOn(R, Nat)
  BY NatLessThanWellFounded
<1>2. \A x, y \in Nat : y < x => <<y, x>> \in R
  BY DEF OpToRel
<1> HIDE DEF R
<1>3. PICK x \in T : \A y \in T : ~(<<y, x>> \in R)
  BY <1>1, WFMin
<1>4. ASSUME NEW y \in T
      PROVE  x <= y
  <2>1. x \in Nat /\ y \in Nat /\ ~(y < x)
    BY <1>2, <1>3
  <2>2. QED
    BY <2>1
<1>5. QED
  BY <1>3, <1>4

-----------------------------------------------------------------------------
(* The last dot of a name.                                                 *)

LEMMA LastDot ==
  ASSUME NEW name \in Names
  PROVE  /\ lastDot(name) \in 0..Len(name)
         /\ lastDot(name) # 0 => name[lastDot(name)] = "."
         /\ \A i \in 1..Len(name) : name[i] = "." => i <= lastDot(name)
<1> DEFINE S == {0} \cup {i \in 1..Len(name) : name[i] = "."}
           T == {Len(name) - i : i \in S}
<1>1. Len(name) \in Nat /\ DOMAIN name = 1..Len(name)
  BY DEF Names
<1>2. T \in SUBSET Nat /\ T # {}
  BY <1>1
<1>3. PICK n \in T : \A m \in T : n <= m
  BY <1>2, Least
<1>4. PICK x \in S : n = Len(name) - x
  BY <1>3
<1>5. \A y \in S : x >= y
  <2> SUFFICES ASSUME NEW y \in S
               PROVE  x >= y
    OBVIOUS
  <2>1. Len(name) - x <= Len(name) - y
    BY <1>3, <1>4
  <2>2. x \in Int /\ y \in Int
    BY <1>1
  <2>3. QED
    BY <1>1, <2>1, <2>2
<1>6. lastDot(name) = CHOOSE y \in S : \A z \in S : y >= z
  BY <1>1 DEF lastDot, Max
<1>7. lastDot(name) \in S /\ \A z \in S : lastDot(name) >= z
  BY <1>4, <1>5, <1>6
<1>8. QED
  BY <1>1, <1>7

-----------------------------------------------------------------------------
(* FlattenSeq, a recursive function: it exists, it is the only one, and it *)
(* appends row after row.                                                  *)

IsFlatten(f, rows) ==
  f = [i \in 1..Len(rows) |-> IF i = 1 THEN rows[i] ELSE f[i - 1] \o rows[i]]

LEMMA FlattenExists ==
  ASSUME NEW C, NEW rows \in Seq(Seq(C))
  PROVE  \E f \in [1..Len(rows) -> Seq(C)] : IsFlatten(f, rows)
<1> DEFINE Good(r) == \E f \in [1..Len(r) -> Seq(C)] : IsFlatten(f, r)
           T == {n \in Nat : \E r \in Seq(Seq(C)) : Len(r) = n /\ ~Good(r)}
<1> SUFFICES ASSUME T # {}
             PROVE  FALSE
  BY DEF Good, T
<1>1. PICK n \in T : \A m \in T : n <= m
  BY Least
<1>2. PICK r \in Seq(Seq(C)) : Len(r) = n /\ ~Good(r)
  BY <1>1
<1>3. CASE n = 0
  <2> DEFINE f == [i \in 1..0 |-> <<>>]
  <2>1. f \in [1..Len(r) -> Seq(C)] /\ IsFlatten(f, r)
    BY <1>2, <1>3 DEF IsFlatten
  <2>2. QED
    BY <1>2, <2>1
<1>4. CASE n # 0
  <2>1. n \in Nat \ {0} /\ n - 1 \in Nat /\ n - 1 < n
    BY <1>1, <1>4
  <2> DEFINE q == SubSeq(r, 1, n - 1)
  <2>2. q \in Seq(Seq(C)) /\ Len(q) = n - 1 /\ \A i \in 1..(n - 1) : q[i] = r[i]
    BY <1>2, <2>1
  <2> HIDE DEF q
  <2>3. Good(q)
    <3>1. n - 1 \notin T
      BY <1>1, <2>1
    <3>2. QED
      BY <2>1, <2>2, <3>1
  <2>4. PICK f \in [1..(n - 1) -> Seq(C)] : IsFlatten(f, q)
    BY <2>2, <2>3
  <2> DEFINE g == [i \in 1..n |-> IF i < n THEN f[i]
                                  ELSE IF n = 1 THEN r[1] ELSE f[n - 1] \o r[n]]
  <2>5. \A i \in 1..n : r[i] \in Seq(C)
    BY <1>2
  <2>6. g \in [1..n -> Seq(C)]
    <3>1. n # 1 => f[n - 1] \in Seq(C)
      BY <2>1, <2>4
    <3>2. QED
      BY <2>1, <2>4, <2>5, <3>1
  <2>7. \A i \in 1..n : g[i] = IF i = 1 THEN r[i] ELSE g[i - 1] \o r[i]
    <3> SUFFICES ASSUME NEW i \in 1..n
                 PROVE  g[i] = IF i = 1 THEN r[i] ELSE g[i - 1] \o r[i]
      OBVIOUS
    <3>1. CASE i < n
      <4>1. i \in 1..(n - 1) /\ g[i] = f[i] /\ q[i] = r[i]
        <5>1. i \in 1..(n - 1)
          BY <2>1, <3>1
        <5>2. g[i] = f[i]
          BY <3>1
        <5>3. q[i] = r[i]
          BY <2>2, <5>1
        <5>4. QED
          BY <5>1, <5>2, <5>3
      <4>2. f[i] = IF i = 1 THEN q[i] ELSE f[i - 1] \o q[i]
        BY <2>2, <2>4, <4>1 DEF IsFlatten
      <4>3. i # 1 => i - 1 \in 1..n /\ i - 1 < n
        BY <2>1, <3>1
      <4>4. i # 1 => g[i - 1] = f[i - 1]
        BY <4>3
      <4>5. QED
        BY <4>1, <4>2, <4>4
    <3>2. CASE i = n
      <4>1. i # 1 => i - 1 \in 1..n /\ i - 1 < n
        BY <2>1, <3>2
      <4>2. QED
        BY <3>2, <4>1, <2>1
    <3>3. QED
      BY <2>1, <3>1, <3>2
  <2>8. IsFlatten(g, r)
    BY <1>2, <2>6, <2>7 DEF IsFlatten
  <2>9. QED
    BY <1>2, <2>6, <2>8
<1>5. QED
  BY <1>3, <1>4

LEMMA FlattenStep ==
  ASSUME NEW rows, NEW f, IsFlatten(f, rows), NEW i \in 1..Len(rows)
  PROVE  f[i] = IF i = 1 THEN rows[i] ELSE f[i - 1] \o rows[i]
BY DEF IsFlatten

SameRows(rows, others, k) ==
  \A i \in 1..k : i \in 1..Len(rows) /\ i \in 1..Len(others) /\ rows[i] = others[i]

(* Two of them agree as far as their rows do.                              *)
LEMMA FlattenAgrees ==
  ASSUME NEW rows, NEW others,
         NEW f, NEW g, IsFlatten(f, rows), IsFlatten(g, others),
         NEW k \in Nat \ {0}, SameRows(rows, others, k)
  PROVE  f[k] = g[k]
<1> DEFINE T == {i \in 1..k : f[i] # g[i]}
<1> SUFFICES ASSUME T # {}
             PROVE  FALSE
  OBVIOUS
<1>1. PICK n \in T : \A m \in T : n <= m
  <2>1. T \in SUBSET Nat
    OBVIOUS
  <2>2. QED
    BY <2>1, Least
<1>2. n \in 1..k /\ f[n] # g[n] /\ n \in 1..Len(rows) /\ n \in 1..Len(others)
      /\ rows[n] = others[n]
  BY <1>1 DEF SameRows
<1>3. /\ f[n] = IF n = 1 THEN rows[n] ELSE f[n - 1] \o rows[n]
      /\ g[n] = IF n = 1 THEN others[n] ELSE g[n - 1] \o others[n]
  BY <1>2, FlattenStep
<1>4. n # 1 => f[n - 1] = g[n - 1]
  <2> SUFFICES ASSUME n # 1
               PROVE  f[n - 1] = g[n - 1]
    OBVIOUS
  <2>1. n - 1 \in 1..k /\ ~(n <= n - 1)
    BY <1>2
  <2>2. QED
    BY <1>1, <2>1
<1>5. QED
  BY <1>2, <1>3, <1>4

LEMMA FlattenIs ==
  ASSUME NEW C, NEW rows \in Seq(Seq(C)), rows # <<>>,
         NEW f, IsFlatten(f, rows)
  PROVE  FlattenSeq(rows) = f[Len(rows)]
<1>1. Len(rows) \in Nat \ {0}
  OBVIOUS
<1> DEFINE g == CHOOSE g : IsFlatten(g, rows)
<1>2. IsFlatten(g, rows)
  OBVIOUS
<1>3. FlattenSeq(rows) = g[Len(rows)]
  BY <1>1 DEF FlattenSeq, IsFlatten
<1> HIDE DEF g
<1>4. SameRows(rows, rows, Len(rows))
  BY DEF SameRows
<1>5. g[Len(rows)] = f[Len(rows)]
  BY <1>1, <1>2, <1>4, FlattenAgrees
<1>6. QED
  BY <1>3, <1>5

LEMMA FlattenNext ==
  ASSUME NEW C, NEW front \in Seq(Seq(C)), NEW whole \in Seq(Seq(C)),
         front # <<>>, Len(whole) = Len(front) + 1, SameRows(front, whole, Len(front))
  PROVE  /\ FlattenSeq(front) \in Seq(C)
         /\ FlattenSeq(whole) = FlattenSeq(front) \o whole[Len(whole)]
<1> SUFFICES ASSUME NEW k \in Nat \ {0}, NEW last \in Nat, last = k + 1,
                    Len(front) = k, Len(whole) = last
             PROVE  /\ FlattenSeq(front) \in Seq(C)
                    /\ FlattenSeq(whole) = FlattenSeq(front) \o whole[last]
  OBVIOUS
<1>1. PICK f : f \in [1..k -> Seq(C)] /\ IsFlatten(f, front)
  BY FlattenExists
<1>2. PICK g : IsFlatten(g, whole)
  BY FlattenExists
<1>3. /\ front # <<>> /\ whole # <<>>
      /\ k \in 1..k /\ last \in 1..Len(whole) /\ last # 1 /\ last - 1 = k
  OBVIOUS
<1>4. FlattenSeq(front) = f[k]
  BY <1>1, <1>3, FlattenIs
<1>5. FlattenSeq(whole) = g[last]
  BY <1>2, <1>3, FlattenIs
<1>6. g[last] = g[k] \o whole[last]
  <2>1. last \in 1..Len(whole)
    BY <1>3
  <2>2. g[last] = IF last = 1 THEN whole[last] ELSE g[last - 1] \o whole[last]
    BY <1>2, <2>1, FlattenStep
  <2>3. QED
    BY <1>3, <2>2
<1>7. f[k] = g[k]
  <2>1. SameRows(front, whole, k)
    OBVIOUS
  <2>2. QED
    BY <1>1, <1>2, <2>1, FlattenAgrees
<1>8. QED
  BY <1>1, <1>3, <1>4, <1>5, <1>6, <1>7

LEMMA FlattenEmpty == FlattenSeq(<<>>) = <<>>
BY DEF FlattenSeq

(* What FlattenSeq computes, row by row.                                   *)
LEMMA FlattenLast ==
  ASSUME NEW C, NEW rows \in Seq(Seq(C)), NEW row \in Seq(C)
  PROVE  /\ FlattenSeq(Append(rows, row)) \in Seq(C)
         /\ FlattenSeq(Append(rows, row)) = FlattenSeq(rows) \o row
<1>1. FlattenSeq(<<>>) = <<>>
  BY FlattenEmpty
<1> DEFINE all == Append(rows, row)
<1>2. /\ all \in Seq(Seq(C)) /\ all # <<>> /\ Len(all) = Len(rows) + 1
      /\ all[Len(rows) + 1] = row /\ \A i \in 1..Len(rows) : rows[i] = all[i]
  BY AppendProperties
<1> HIDE DEF all
<1>3. CASE rows = <<>>
  <2>1. 1 \in 1..Len(all) /\ Len(all) = 1 /\ all[1] = row
    BY <1>2, <1>3
  <2>2. PICK f : IsFlatten(f, all)
    BY <1>2, FlattenExists
  <2>3. FlattenSeq(all) = f[1]
    BY <1>2, <2>1, <2>2, FlattenIs
  <2>4. f[1] = row
    BY <2>1, <2>2, FlattenStep
  <2>5. <<>> \o row = row
    OBVIOUS
  <2>6. QED
    BY <1>1, <1>3, <2>3, <2>4, <2>5 DEF all
<1>4. CASE rows # <<>>
  <2>1. SameRows(rows, all, Len(rows))
    BY <1>2 DEF SameRows
  <2>2. FlattenSeq(rows) \in Seq(C) /\ FlattenSeq(all) = FlattenSeq(rows) \o all[Len(all)]
    BY <1>2, <1>4, <2>1, FlattenNext
  <2>3. all[Len(all)] = row
    BY <1>2
  <2>4. QED
    BY <1>1, <2>2, <2>3 DEF all
<1>5. QED
  BY <1>3, <1>4

-----------------------------------------------------------------------------
(* Dashed names, one character after the other.                            *)

LEMMA DashedRow ==
  ASSUME NEW c \in Characters
  PROVE  /\ c \in Words => Dashed(c) = <<c>>
         /\ c = "." => Dashed(c) = <<"-">>
         /\ c = "-" => Dashed(c) = <<"-", "-">>
         /\ Dashed(c) \in Seq(Characters)
<1>1. Words \cap {".", "-"} = {}
  BY IdentityAssumption
<1>2. c \in Words => Dashed(c) = <<c>>
  BY <1>1 DEF Dashed
<1>3. c = "." => Dashed(c) = <<"-">>
  BY DEF Dashed
<1>4. c = "-" => Dashed(c) = <<"-", "-">>
  BY DEF Dashed
<1>5. c \in Words \/ c = "." \/ c = "-"
  BY DEF Characters
<1>6. "-" \in Characters
  BY DEF Characters
<1>7. <<"-">> \in Seq(Characters) /\ <<"-", "-">> \in Seq(Characters)
  BY <1>6
<1>8. <<c>> \in Seq(Characters)
  OBVIOUS
<1>9. Dashed(c) \in Seq(Characters)
  BY <1>2, <1>3, <1>4, <1>5, <1>7, <1>8
<1>10. QED
  BY <1>2, <1>3, <1>4, <1>9

Rows(name) == [i \in DOMAIN name |-> Dashed(name[i])]

LEMMA RowsAppend ==
  ASSUME NEW name \in Names, NEW c \in Characters
  PROVE  /\ Rows(name) \in Seq(Seq(Characters))
         /\ Rows(Append(name, c)) = Append(Rows(name), Dashed(c))
<1>1. /\ Len(name) \in Nat /\ DOMAIN name = 1..Len(name)
      /\ \A i \in 1..Len(name) : name[i] \in Characters
  BY DEF Names
<1>2. Rows(name) \in [1..Len(name) -> Seq(Characters)]
  BY <1>1, DashedRow DEF Rows
<1>3. Rows(name) \in Seq(Seq(Characters)) /\ Len(Rows(name)) = Len(name)
  BY <1>1, <1>2, SeqDef, LenProperties
<1> DEFINE all == Append(name, c)
           rows == Append(Rows(name), Dashed(c))
<1>4. /\ all \in Seq(Characters) /\ Len(all) = Len(name) + 1 /\ all[Len(name) + 1] = c
      /\ \A i \in 1..Len(name) : all[i] = name[i]
  BY AppendProperties DEF Names
<1>5. DOMAIN all = 1..(Len(name) + 1)
  BY <1>4
<1>6. /\ rows \in Seq(Seq(Characters)) /\ Len(rows) = Len(name) + 1
      /\ rows[Len(name) + 1] = Dashed(c)
      /\ \A i \in 1..Len(name) : rows[i] = Dashed(name[i])
  BY <1>1, <1>3, DashedRow, AppendProperties DEF Rows
<1>7. DOMAIN rows = 1..(Len(name) + 1)
  BY <1>6
<1> HIDE DEF all, rows
<1>8. Rows(all) = rows
  <2>1. \A i \in 1..(Len(name) + 1) : i \in 1..Len(name) \/ i = Len(name) + 1
    BY <1>1
  <2>2. \A i \in 1..(Len(name) + 1) : Dashed(all[i]) = rows[i]
    BY <1>4, <1>6, <2>1
  <2>3. rows = [i \in 1..(Len(name) + 1) |-> rows[i]]
    BY <1>6, <1>7
  <2>4. QED
    BY <1>5, <2>2, <2>3 DEF Rows
<1>9. QED
  BY <1>3, <1>8 DEF all, rows

LEMMA DashStep ==
  /\ <<>> \in Names /\ getDashedDomain(<<>>) = <<>>
  /\ \A name \in Names : getDashedDomain(name) \in Names
  /\ \A name \in Names, c \in Characters :
       /\ Append(name, c) \in Names
       /\ getDashedDomain(Append(name, c)) = getDashedDomain(name) \o Dashed(c)
<1>1. <<>> \in Names /\ getDashedDomain(<<>>) = <<>>
  <2>1. Rows(<<>>) = <<>>
    BY DEF Rows
  <2>2. QED
    BY <2>1, FlattenEmpty DEF Names, Rows, getDashedDomain
<1>2. ASSUME NEW name \in Names, NEW c \in Characters
      PROVE  /\ Append(name, c) \in Names /\ getDashedDomain(Append(name, c)) \in Names
             /\ getDashedDomain(Append(name, c)) = getDashedDomain(name) \o Dashed(c)
  <2>1. Append(name, c) \in Names
    BY AppendProperties DEF Names
  <2>2. /\ Rows(name) \in Seq(Seq(Characters)) /\ Dashed(c) \in Seq(Characters)
        /\ Rows(Append(name, c)) = Append(Rows(name), Dashed(c))
    BY RowsAppend, DashedRow
  <2>3. /\ FlattenSeq(Append(Rows(name), Dashed(c))) \in Seq(Characters)
        /\ FlattenSeq(Append(Rows(name), Dashed(c))) = FlattenSeq(Rows(name)) \o Dashed(c)
    BY <2>2, FlattenLast
  <2>4. QED
    BY <2>1, <2>2, <2>3 DEF Rows, getDashedDomain, Names
<1>3. \A name \in Names : getDashedDomain(name) \in Names
  <2> SUFFICES ASSUME NEW name \in Names
               PROVE  getDashedDomain(name) \in Names
    OBVIOUS
  <2>1. CASE name = <<>>
    BY <1>1, <2>1
  <2>2. CASE name # <<>>
    <3>1. PICK front \in Seq(Characters), c \in Characters : name = Append(front, c)
      BY <2>2, SequenceEmptyOrAppend DEF Names
    <3>2. QED
      BY <1>2, <3>1 DEF Names
  <2>3. QED
    BY <2>1, <2>2
<1>4. QED
  BY <1>1, <1>2, <1>3

LEMMA Dashes ==
  ASSUME NEW name \in Names
  PROVE  /\ getDashedDomain(name) \in Names
         /\ Append(getDashedDomain(name), "-") \in Names
         /\ \A w \in Words :
              getDashedDomain(Append(name, w)) = Append(getDashedDomain(name), w)
         /\ getDashedDomain(Append(name, ".")) = Append(getDashedDomain(name), "-")
         /\ getDashedDomain(Append(name, "-"))
              = Append(Append(getDashedDomain(name), "-"), "-")
<1> DEFINE dashed == getDashedDomain(name)
<1>1. dashed \in Seq(Characters)
  BY DashStep DEF Names
<1> HIDE DEF dashed
<1>2. "-" \in Characters /\ "." \in Characters /\ Words \subseteq Characters
  BY DEF Characters
<1>3. \A c \in Characters :
        Append(dashed, c) \in Seq(Characters) /\ dashed \o <<c>> = Append(dashed, c)
  BY <1>1, AppendProperties, AppendIsConcat
<1>4. dashed \o <<"-", "-">> = Append(Append(dashed, "-"), "-")
  <2>1. Append(<<"-">>, "-") = <<"-", "-">>
    <3>1. <<"-">> \in Seq(Characters) /\ <<"-", "-">> \in Seq(Characters)
      BY <1>2
    <3>2. Len(<<"-">>) = 1 /\ Len(<<"-", "-">>) = 2 /\ <<"-">>[1] = "-"
      OBVIOUS
    <3>3. \A i \in 1..2 : <<"-", "-">>[i] = "-"
      OBVIOUS
    <3>4. /\ Append(<<"-">>, "-") \in Seq(Characters)
          /\ Len(Append(<<"-">>, "-")) = 2
          /\ Append(<<"-">>, "-")[1] = "-" /\ Append(<<"-">>, "-")[2] = "-"
      BY <1>2, <3>1, <3>2, AppendProperties
    <3>5. \A i \in 1..2 : Append(<<"-">>, "-")[i] = "-"
      BY <3>4
    <3>6. QED
      BY <3>1, <3>2, <3>3, <3>4, <3>5, SeqEqual
  <2>2. dashed \o Append(<<"-">>, "-") = Append(dashed \o <<"-">>, "-")
    BY <1>1, <1>2
  <2>3. QED
    BY <1>2, <1>3, <2>1, <2>2
<1>5. \A w \in Words : getDashedDomain(Append(name, w)) = Append(dashed, w)
  BY <1>2, <1>3, DashStep, DashedRow DEF dashed
<1>6. getDashedDomain(Append(name, ".")) = Append(dashed, "-")
  BY <1>2, <1>3, DashStep, DashedRow DEF dashed
<1>7. getDashedDomain(Append(name, "-")) = Append(Append(dashed, "-"), "-")
  BY <1>2, <1>4, DashStep, DashedRow DEF dashed
<1>8. QED
  BY <1>1, <1>2, <1>3, <1>5, <1>6, <1>7 DEF dashed, Names

(* A name is empty or ends in a character.                                 *)
LEMMA NameEnds ==
  ASSUME NEW name \in Names, name # <<>>
  PROVE  \E front \in Names, c \in Characters :
           name = Append(front, c) /\ Len(front) \in Nat /\ Len(name) = Len(front) + 1
<1>1. PICK front \in Seq(Characters), c \in Characters : name = Append(front, c)
  BY SequenceEmptyOrAppend DEF Names
<1>2. Len(front) \in Nat /\ Len(name) = Len(front) + 1
  BY <1>1, AppendProperties
<1>3. QED
  BY <1>1, <1>2 DEF Names

LEMMA SameEnd ==
  ASSUME NEW name \in Names, NEW other \in Names,
         NEW first \in Characters, NEW second \in Characters,
         Append(name, first) = Append(other, second)
  PROVE  name = other /\ first = second
BY AppendInjective DEF Names

LEMMA NotEmpty ==
  ASSUME NEW s \in Names, NEW c \in Characters
  PROVE  Append(s, c) # <<>>
BY AppendProperties DEF Names

(* Where a name with parts goes on.                                        *)
LEMMA PartsEnd ==
  ASSUME NEW name \in Names, NEW c \in Characters, HasParts(Append(name, c))
  PROVE  /\ HasParts(name)
         /\ \A front \in Names : name = Append(front, ".") => c \in Words
         /\ c \notin Words => \A d \in Characters : HasParts(Append(name, d))
<1> DEFINE n == Len(name)
           all == Append(name, c)
<1>1. /\ n \in Nat /\ all \in Seq(Characters) /\ Len(all) = n + 1 /\ all[n + 1] = c
      /\ \A i \in 1..n : all[i] = name[i]
  BY AppendProperties DEF Names
<1>2. \A i \in 1..n : name[i] = "." => all[i + 1] \in Words
  BY <1>1 DEF HasParts
<1>3. HasParts(name)
  BY <1>1, <1>2 DEF HasParts
<1>4. ASSUME NEW front \in Names, name = Append(front, ".")
      PROVE  c \in Words
  <2>1. n \in 1..n /\ name[n] = "."
    BY <1>4, AppendProperties DEF Names, Characters
  <2>2. QED
    BY <1>1, <1>2, <2>1
<1>5. ASSUME c \notin Words, NEW d \in Characters
      PROVE  HasParts(Append(name, d))
  <2> DEFINE other == Append(name, d)
  <2>1. /\ Len(other) = n + 1 /\ \A i \in 1..n : other[i] = name[i]
    BY AppendProperties DEF Names
  <2>2. \A i \in 1..n : other[i] = "." => i # n
    BY <1>1, <1>2, <1>5, <2>1
  <2>3. \A i \in 1..n : other[i] = "." => other[i + 1] \in Words
    <3> SUFFICES ASSUME NEW i \in 1..n, other[i] = "."
                 PROVE  other[i + 1] \in Words
      OBVIOUS
    <3>1. i + 1 \in 1..n /\ name[i] = "."
      BY <1>1, <2>1, <2>2
    <3>2. name[i + 1] \in Words
      BY <1>1, <1>2, <3>1
    <3>3. QED
      BY <2>1, <3>1, <3>2
  <2>4. QED
    BY <1>1, <2>1, <2>3 DEF HasParts
<1>6. QED
  BY <1>3, <1>4, <1>5

-----------------------------------------------------------------------------
(* "a-.b" and "a.-b" are dashed alike, but the second has a part that      *)
(* begins with a dash.  Names with parts are not dashed alike when one     *)
(* ends in a dash and the other in a dot.                                  *)

Mixed(a, b) ==
  /\ HasParts(Append(a, "-")) /\ HasParts(Append(b, "."))
  /\ getDashedDomain(Append(a, "-")) = getDashedDomain(Append(b, "."))

LEMMA MixedShrinks ==
  ASSUME NEW a \in Names, NEW b \in Names, Mixed(a, b)
  PROVE  \E x, y \in Names : Mixed(x, y) /\ Len(x) \in Nat /\ Len(x) < Len(a)
<1>1. Words \cap {".", "-"} = {} /\ "-" \in Characters /\ "." \in Characters
  BY IdentityAssumption DEF Characters
<1>2. "." \notin Words /\ "-" \notin Words
  BY <1>1
<1>3. Append(getDashedDomain(a), "-") = getDashedDomain(b)
  <2>1. Append(Append(getDashedDomain(a), "-"), "-") = Append(getDashedDomain(b), "-")
    BY Dashes DEF Mixed
  <2>2. Append(getDashedDomain(a), "-") \in Names /\ getDashedDomain(b) \in Names
    BY Dashes
  <2>3. QED
    BY <1>1, <2>1, <2>2, SameEnd
<1>4. b # <<>>
  BY <1>1, <1>3, Dashes, DashStep, NotEmpty
<1>5. PICK y \in Names, d \in Characters : b = Append(y, d)
  BY <1>4, NameEnds
<1>6. d = "-"
  <2>1. d # "."
    BY <1>1, <1>2, <1>5, PartsEnd DEF Mixed
  <2>2. d \notin Words
    <3> SUFFICES ASSUME d \in Words
                 PROVE  FALSE
      OBVIOUS
    <3>1. Append(getDashedDomain(a), "-") = Append(getDashedDomain(y), d)
      BY <1>3, <1>5, Dashes
    <3>2. d = "-"
      BY <1>1, <3>1, Dashes, SameEnd
    <3>3. QED
      BY <1>2, <3>2
  <2>3. QED
    BY <2>1, <2>2 DEF Characters
<1>7. getDashedDomain(a) = getDashedDomain(Append(y, "."))
  <2>1. Append(getDashedDomain(a), "-") = Append(Append(getDashedDomain(y), "-"), "-")
    BY <1>3, <1>5, <1>6, Dashes
  <2>2. getDashedDomain(a) \in Names /\ Append(getDashedDomain(y), "-") \in Names
    BY Dashes
  <2>3. getDashedDomain(a) = Append(getDashedDomain(y), "-")
    BY <1>1, <2>1, <2>2, SameEnd
  <2>4. QED
    BY <2>3, Dashes
<1>8. HasParts(Append(y, "."))
  <2>1. HasParts(Append(y, "-"))
    BY <1>1, <1>5, <1>6, PartsEnd DEF Mixed
  <2>2. QED
    BY <1>1, <1>2, <2>1, PartsEnd
<1>9. getDashedDomain(a) = Append(getDashedDomain(y), "-")
  BY <1>7, Dashes
<1>10. a # <<>>
  BY <1>1, <1>9, Dashes, DashStep, NotEmpty
<1>11. PICK x \in Names, c \in Characters :
         a = Append(x, c) /\ Len(x) \in Nat /\ Len(a) = Len(x) + 1
  BY <1>10, NameEnds
<1>12. HasParts(a) /\ c # "."
  BY <1>1, <1>2, <1>11, PartsEnd DEF Mixed
<1>13. c \notin Words
  <2> SUFFICES ASSUME c \in Words
               PROVE  FALSE
    OBVIOUS
  <2>1. Append(getDashedDomain(x), c) = Append(getDashedDomain(y), "-")
    BY <1>9, <1>11, Dashes
  <2>2. c = "-"
    BY <1>1, <2>1, Dashes, SameEnd
  <2>3. QED
    BY <1>2, <2>2
<1>14. c = "-"
  BY <1>12, <1>13 DEF Characters
<1>15. Mixed(x, y)
  BY <1>7, <1>8, <1>11, <1>12, <1>14 DEF Mixed
<1>16. QED
  BY <1>11, <1>15

LEMMA NoMix ==
  ASSUME NEW a \in Names, NEW b \in Names, Mixed(a, b)
  PROVE  FALSE
<1> DEFINE T == {n \in Nat : \E x, y \in Names : Mixed(x, y) /\ Len(x) = n}
<1>1. T \in SUBSET Nat
  OBVIOUS
<1>2. T # {}
  <2>1. Len(a) \in Nat
    BY DEF Names
  <2>2. QED
    BY <2>1
<1>3. PICK n \in T : \A m \in T : n <= m
  BY <1>1, <1>2, Least
<1>4. PICK x, y \in Names : Mixed(x, y) /\ Len(x) = n
  BY <1>3
<1>5. PICK v, w \in Names : Mixed(v, w) /\ Len(v) \in Nat /\ Len(v) < Len(x)
  BY <1>4, MixedShrinks
<1>6. Len(v) \in T
  BY <1>5
<1>7. QED
  BY <1>1, <1>3, <1>4, <1>5, <1>6

Alike(s, t) ==
  HasParts(s) /\ HasParts(t) /\ getDashedDomain(s) = getDashedDomain(t)

LEMMA AlikeShrinks ==
  ASSUME NEW s \in Names, NEW t \in Names, Alike(s, t), s # t
  PROVE  \E x, y \in Names :
           Alike(x, y) /\ x # y /\ Len(x) \in Nat /\ Len(x) < Len(s)
<1>1. Words \cap {".", "-"} = {} /\ "-" \in Characters /\ "." \in Characters
  BY IdentityAssumption DEF Characters
<1>2. "." \notin Words /\ "-" \notin Words
  BY <1>1
<1>3. \A name \in Names : getDashedDomain(name) = <<>> => name = <<>>
  <2> SUFFICES ASSUME NEW name \in Names, name # <<>>
               PROVE  getDashedDomain(name) # <<>>
    OBVIOUS
  <2>1. PICK x \in Names, c \in Characters : name = Append(x, c)
    BY NameEnds
  <2>2. c \in Words \/ c = "." \/ c = "-"
    BY DEF Characters
  <2>3. getDashedDomain(x) \in Names /\ Append(getDashedDomain(x), "-") \in Names
    BY Dashes
  <2>4. \/ getDashedDomain(name) = Append(getDashedDomain(x), c)
        \/ getDashedDomain(name) = Append(getDashedDomain(x), "-")
        \/ getDashedDomain(name) = Append(Append(getDashedDomain(x), "-"), "-")
    BY <2>1, <2>2, Dashes
  <2>5. QED
    BY <1>1, <2>3, <2>4, NotEmpty
<1>4. s # <<>> /\ t # <<>>
  BY <1>3, DashStep DEF Alike
<1>5. PICK x \in Names, c \in Characters :
        s = Append(x, c) /\ Len(x) \in Nat /\ Len(s) = Len(x) + 1
  BY <1>4, NameEnds
<1>6. PICK y \in Names, d \in Characters : t = Append(y, d)
  BY <1>4, NameEnds
<1> DEFINE X == getDashedDomain(x)
           Y == getDashedDomain(y)
<1>7. /\ X \in Names /\ Y \in Names /\ Append(X, "-") \in Names /\ Append(Y, "-") \in Names
      /\ \A w \in Words : /\ getDashedDomain(Append(x, w)) = Append(X, w)
                          /\ getDashedDomain(Append(y, w)) = Append(Y, w)
      /\ getDashedDomain(Append(x, ".")) = Append(X, "-")
      /\ getDashedDomain(Append(y, ".")) = Append(Y, "-")
      /\ getDashedDomain(Append(x, "-")) = Append(Append(X, "-"), "-")
      /\ getDashedDomain(Append(y, "-")) = Append(Append(Y, "-"), "-")
  BY Dashes
<1>8. getDashedDomain(Append(x, c)) = getDashedDomain(Append(y, d))
  BY <1>5, <1>6 DEF Alike
<1> HIDE DEF X, Y
<1>9. HasParts(x) /\ HasParts(y)
  BY <1>5, <1>6, PartsEnd DEF Alike
<1>10. c = d /\ X = Y
  <2>1. CASE c \in Words
    <3>1. d \in Words
      <4>1. d = "." => c = "-"
        BY <1>1, <1>7, <1>8, <2>1, SameEnd
      <4>2. d = "-" => c = "-"
        BY <1>1, <1>7, <1>8, <2>1, SameEnd
      <4>3. QED
        BY <1>2, <2>1, <4>1, <4>2 DEF Characters
    <3>2. Append(X, c) = Append(Y, d)
      BY <1>7, <1>8, <2>1, <3>1
    <3>3. X \in Names /\ Y \in Names
      BY <1>7
    <3>4. \A u, v \in Characters : Append(X, u) = Append(Y, v) => X = Y /\ u = v
      BY <3>3, SameEnd
    <3>5. QED
      BY <3>2, <3>4
  <2>2. CASE c = "."
    <3>1. d \notin Words
      <4> SUFFICES ASSUME d \in Words
                   PROVE  FALSE
        OBVIOUS
      <4>1. Append(X, "-") = Append(Y, d)
        BY <1>7, <1>8, <2>2
      <4>2. QED
        BY <1>1, <1>2, <1>7, <4>1, SameEnd
    <3>2. d # "-"
      BY <1>5, <1>6, <1>8, <2>2, NoMix DEF Alike, Mixed
    <3>3. d = "."
      BY <3>1, <3>2 DEF Characters
    <3>4. Append(X, "-") = Append(Y, "-")
      BY <1>7, <1>8, <2>2, <3>3
    <3>5. QED
      BY <1>1, <1>7, <2>2, <3>3, <3>4, SameEnd
  <2>3. CASE c = "-"
    <3>1. d \notin Words
      <4> SUFFICES ASSUME d \in Words
                   PROVE  FALSE
        OBVIOUS
      <4>1. Append(Append(X, "-"), "-") = Append(Y, d)
        BY <1>7, <1>8, <2>3
      <4>2. QED
        BY <1>1, <1>2, <1>7, <4>1, SameEnd
    <3>2. d # "."
      BY <1>5, <1>6, <1>8, <2>3, NoMix DEF Alike, Mixed
    <3>3. d = "-"
      BY <3>1, <3>2 DEF Characters
    <3>4. Append(Append(X, "-"), "-") = Append(Append(Y, "-"), "-")
      BY <1>7, <1>8, <2>3, <3>3
    <3>5. Append(X, "-") = Append(Y, "-")
      BY <1>1, <1>7, <3>4, SameEnd
    <3>6. QED
      BY <1>1, <1>7, <2>3, <3>3, <3>5, SameEnd
  <2>4. QED
    BY <2>1, <2>2, <2>3 DEF Characters
<1>11. Alike(x, y) /\ x # y
  BY <1>5, <1>6, <1>9, <1>10 DEF Alike, X, Y
<1>12. QED
  BY <1>5, <1>11

(* getDashedDomain (evaluator/util.go) gives different names to different  *)
(* domains, of any length, whose parts are neither empty nor begin with a  *)
(* dash: the namespace that a domain names is nobody else's.               *)
THEOREM DashedDiffer ==
  ASSUME NEW s \in Names, NEW t \in Names, Alike(s, t)
  PROVE  s = t
<1> SUFFICES ASSUME s # t
             PROVE  FALSE
  OBVIOUS
<1> DEFINE T == {n \in Nat : \E x, y \in Names : Alike(x, y) /\ x # y /\ Len(x) = n}
<1>1. T \in SUBSET Nat
  OBVIOUS
<1>2. T # {}
  <2>1. Len(s) \in Nat
    BY DEF Names
  <2>2. QED
    BY <2>1
<1>3. PICK n \in T : \A m \in T : n <= m
  BY <1>1, <1>2, Least
<1>4. PICK x, y \in Names : Alike(x, y) /\ x # y /\ Len(x) = n
  BY <1>3
<1>5. PICK v, w \in Names : Alike(v, w) /\ v # w /\ Len(v) \in Nat /\ Len(v) < Len(x)
  BY <1>4, AlikeShrinks
<1>6. Len(v) \in T
  BY <1>5
<1>7. QED
  BY <1>1, <1>3, <1>4, <1>5, <1>6

-----------------------------------------------------------------------------
(* Names that end in others.                                               *)

LEMMA Joined ==
  ASSUME NEW domain \in Names, NEW name \in Names
  PROVE  /\ Join(domain, name) \in Names
         /\ Len(domain) \in Nat /\ Len(name) \in Nat
         /\ Len(Join(domain, name)) = Len(domain) + 1 + Len(name)
         /\ \A i \in 1..Len(domain) : Join(domain, name)[i] = domain[i]
         /\ Join(domain, name)[Len(domain) + 1] = "."
         /\ \A i \in 1..Len(name) : Join(domain, name)[Len(domain) + 1 + i] = name[i]
<1> DEFINE dotted == domain \o <<".">>
<1>1. "." \in Characters /\ <<".">> \in Seq(Characters) /\ Len(<<".">>) = 1 /\ <<".">>[1] = "."
  BY DEF Characters
<1>2. /\ domain \in Seq(Characters) /\ Len(domain) \in Nat
      /\ name \in Seq(Characters) /\ Len(name) \in Nat
  BY DEF Names
<1>3. /\ dotted \in Seq(Characters) /\ Len(dotted) = Len(domain) + 1
      /\ \A i \in 1..(Len(domain) + 1) :
           dotted[i] = IF i <= Len(domain) THEN domain[i] ELSE <<".">>[i - Len(domain)]
  BY <1>1, <1>2, ConcatProperties
<1>4. dotted[Len(domain) + 1] = "." /\ \A i \in 1..Len(domain) : dotted[i] = domain[i]
  BY <1>1, <1>2, <1>3
<1> HIDE DEF dotted
<1>5. /\ dotted \o name \in Seq(Characters)
      /\ Len(dotted \o name) = Len(domain) + 1 + Len(name)
      /\ \A i \in 1..(Len(dotted) + Len(name)) :
           (dotted \o name)[i] = IF i <= Len(dotted) THEN dotted[i] ELSE name[i - Len(dotted)]
  <2>1. /\ dotted \o name \in Seq(Characters)
        /\ Len(dotted \o name) = Len(dotted) + Len(name)
        /\ \A i \in 1..(Len(dotted) + Len(name)) :
             (dotted \o name)[i] = IF i <= Len(dotted) THEN dotted[i] ELSE name[i - Len(dotted)]
    BY <1>2, <1>3, ConcatProperties
  <2>2. QED
    BY <1>3, <2>1
<1>6. Join(domain, name) = dotted \o name
  BY DEF Join, dotted
<1> DEFINE both == dotted \o name
<1> HIDE DEF both
<1>7. both[Len(domain) + 1] = "."
  BY <1>2, <1>3, <1>4, <1>5 DEF both
<1>8. \A i \in 1..Len(domain) : both[i] = domain[i]
  BY <1>2, <1>3, <1>4, <1>5 DEF both
<1>9. \A i \in 1..Len(name) : both[Len(domain) + 1 + i] = name[i]
  BY <1>2, <1>3, <1>5 DEF both
<1>10. QED
  BY <1>2, <1>5, <1>6, <1>7, <1>8, <1>9 DEF both, Names

EndsIn(name, end) ==
  /\ Len(end) <= Len(name)
  /\ \A i \in 0..(Len(end) - 1) : end[Len(end) - i] = name[Len(name) - i]

LEMMA SuffixIs ==
  ASSUME NEW name \in Names, NEW end \in Names, EndsIn(name, end)
  PROVE  IsSuffix(end, name)
<1>1. Len(name) \in Nat /\ Len(end) \in Nat
  BY DEF Names
<1>2. \A i \in 1..Len(end) : end[(Len(end) - i) + 1] = name[(Len(name) - i) + 1]
  <2> SUFFICES ASSUME NEW i \in 1..Len(end)
               PROVE  end[(Len(end) - i) + 1] = name[(Len(name) - i) + 1]
    OBVIOUS
  <2>1. PICK j \in 0..(Len(end) - 1) : j = i - 1
    BY <1>1
  <2>2. end[Len(end) - j] = name[Len(name) - j]
    BY <1>1 DEF EndsIn
  <2>3. Len(end) - j = (Len(end) - i) + 1 /\ Len(name) - j = (Len(name) - i) + 1
    BY <1>1, <2>1
  <2>4. QED
    BY <2>2, <2>3
<1>3. QED
  BY <1>1, <1>2 DEF EndsIn, IsSuffix, IsPrefix, Reverse, Names

LEMMA Dotted ==
  ASSUME NEW name \in Names
  PROVE  /\ <<".">> \o name \in Names /\ Len(name) \in Nat
         /\ Len(<<".">> \o name) = Len(name) + 1
         /\ (<<".">> \o name)[1] = "."
         /\ \A i \in 1..Len(name) : (<<".">> \o name)[i + 1] = name[i]
<1>1. "." \in Characters /\ <<".">> \in Seq(Characters) /\ Len(<<".">>) = 1 /\ <<".">>[1] = "."
  BY DEF Characters
<1>2. name \in Seq(Characters) /\ Len(name) \in Nat
  BY DEF Names
<1>3. /\ <<".">> \o name \in Seq(Characters)
      /\ Len(<<".">> \o name) = 1 + Len(name)
      /\ \A i \in 1..(1 + Len(name)) :
           (<<".">> \o name)[i] = IF i <= 1 THEN <<".">>[i] ELSE name[i - 1]
  BY <1>1, <1>2, ConcatProperties
<1> DEFINE dotted == <<".">> \o name
<1> HIDE DEF dotted
<1>4. dotted[1] = "."
  BY <1>1, <1>2, <1>3 DEF dotted
<1>5. \A i \in 1..Len(name) : dotted[i + 1] = name[i]
  BY <1>2, <1>3 DEF dotted
<1>6. QED
  BY <1>2, <1>3, <1>4, <1>5 DEF dotted, Names

(* The longer of two names that a component ends in, each behind a dot,    *)
(* ends in the shorter one, behind a dot.                                  *)
LEMMA Shorter ==
  ASSUME NEW d \in Names, NEW short \in Names, NEW e \in Names, NEW long \in Names,
         Join(d, short) = Join(e, long), Len(short) < Len(long)
  PROVE  IsSuffix(<<".">> \o short, long)
<1> DEFINE both == Join(d, short)
           end == <<".">> \o short
<1>1. /\ Len(d) \in Nat /\ Len(short) \in Nat
      /\ Len(both) = Len(d) + 1 + Len(short)
      /\ both[Len(d) + 1] = "."
      /\ \A i \in 1..Len(short) : both[Len(d) + 1 + i] = short[i]
  BY Joined
<1>2. /\ Len(e) \in Nat /\ Len(long) \in Nat
      /\ Len(both) = Len(e) + 1 + Len(long)
      /\ \A i \in 1..Len(long) : both[Len(e) + 1 + i] = long[i]
  <2> HIDE DEF both
  <2>1. both = Join(e, long)
    BY DEF both
  <2>2. QED
    BY <2>1, Joined
<1>3. /\ end \in Names /\ Len(end) = Len(short) + 1 /\ end[1] = "."
      /\ \A i \in 1..Len(short) : end[i + 1] = short[i]
  BY Dotted
<1> HIDE DEF both, end
<1>4. ASSUME NEW i \in 0..(Len(end) - 1)
      PROVE  end[Len(end) - i] = long[Len(long) - i]
  <2>1. PICK j \in 1..Len(long) : j = Len(long) - i
    <3>1. Len(long) - i \in 1..Len(long)
      BY <1>1, <1>2, <1>3
    <3>2. QED
      BY <3>1
  <2>2. long[j] = both[Len(both) - i]
    <3>1. both[Len(e) + 1 + j] = long[j]
      BY <1>2
    <3>2. Len(e) + 1 + j = Len(both) - i
      BY <1>2, <1>3, <2>1
    <3>3. QED
      BY <3>1, <3>2
  <2>3. CASE i = Len(short)
    <3>1. Len(end) - i = 1 /\ Len(both) - i = Len(d) + 1
      BY <1>1, <1>3, <2>3
    <3>2. QED
      BY <1>1, <1>3, <2>1, <2>2, <3>1
  <2>4. CASE i # Len(short)
    <3>1. PICK k \in 1..Len(short) : k = Len(short) - i
      <4>1. Len(short) - i \in 1..Len(short)
        BY <1>1, <1>3, <2>4
      <4>2. QED
        BY <4>1
    <3>2. end[k + 1] = short[k] /\ both[Len(d) + 1 + k] = short[k]
      BY <1>1, <1>3
    <3>3. k + 1 = Len(end) - i /\ Len(d) + 1 + k = Len(both) - i
      BY <1>1, <1>3, <3>1
    <3>4. QED
      BY <2>1, <2>2, <3>2, <3>3
  <2>5. QED
    BY <2>3, <2>4
<1>5. EndsIn(long, end)
  BY <1>1, <1>2, <1>3, <1>4 DEF EndsIn
<1>6. QED
  BY <1>3, <1>5, SuffixIs DEF end

LEMMA AsLong ==
  ASSUME NEW d \in Names, NEW one \in Names, NEW e \in Names, NEW other \in Names,
         Join(d, one) = Join(e, other), Len(one) = Len(other)
  PROVE  one = other
<1> DEFINE both == Join(d, one)
<1>1. /\ Len(d) \in Nat /\ Len(one) \in Nat
      /\ Len(both) = Len(d) + 1 + Len(one)
      /\ \A i \in 1..Len(one) : both[Len(d) + 1 + i] = one[i]
  BY Joined
<1>2. /\ Len(e) \in Nat /\ Len(both) = Len(e) + 1 + Len(one)
      /\ \A i \in 1..Len(one) : both[Len(e) + 1 + i] = other[i]
  <2> HIDE DEF both
  <2>1. both = Join(e, other)
    BY DEF both
  <2>2. /\ Len(e) \in Nat /\ Len(both) = Len(e) + 1 + Len(other)
        /\ \A i \in 1..Len(other) : both[Len(e) + 1 + i] = other[i]
    BY <2>1, Joined
  <2>3. QED
    BY <2>2
<1> HIDE DEF both
<1>3. Len(d) = Len(e)
  BY <1>1, <1>2
<1>4. \A i \in 1..Len(one) : one[i] = other[i]
  BY <1>1, <1>2, <1>3
<1>5. QED
  BY <1>4, SeqEqual DEF Names

LEMMA EndOfJoined ==
  ASSUME NEW domain \in Names, NEW name \in Names
  PROVE  IsSuffix(<<".">> \o name, Join(domain, name))
<1> DEFINE all == Join(domain, name)
           end == <<".">> \o name
<1>1. /\ Len(domain) \in Nat /\ Len(name) \in Nat /\ all \in Names
      /\ Len(all) = Len(domain) + 1 + Len(name)
      /\ all[Len(domain) + 1] = "."
      /\ \A i \in 1..Len(name) : all[Len(domain) + 1 + i] = name[i]
  BY Joined
<1>2. /\ end \in Names /\ Len(end) = Len(name) + 1 /\ end[1] = "."
      /\ \A i \in 1..Len(name) : end[i + 1] = name[i]
  BY Dotted
<1> HIDE DEF all, end
<1>3. ASSUME NEW i \in 0..(Len(end) - 1)
      PROVE  end[Len(end) - i] = all[Len(all) - i]
  <2>1. CASE i = Len(name)
    <3>1. Len(end) - i = 1 /\ Len(all) - i = Len(domain) + 1
      BY <1>1, <1>2, <2>1
    <3>2. QED
      BY <1>1, <1>2, <3>1
  <2>2. CASE i # Len(name)
    <3>1. PICK k \in 1..Len(name) : k = Len(name) - i
      <4>1. Len(name) - i \in 1..Len(name)
        BY <1>1, <1>2, <2>2
      <4>2. QED
        BY <4>1
    <3>2. end[k + 1] = name[k] /\ all[Len(domain) + 1 + k] = name[k]
      BY <1>1, <1>2
    <3>3. k + 1 = Len(end) - i /\ Len(domain) + 1 + k = Len(all) - i
      BY <1>1, <1>2, <3>1
    <3>4. QED
      BY <3>2, <3>3
  <2>3. QED
    BY <2>1, <2>2
<1>4. EndsIn(all, end)
  BY <1>1, <1>2, <1>3 DEF EndsIn
<1>5. QED
  BY <1>1, <1>2, <1>4, SuffixIs DEF all, end

(* What can follow "sa/" in an identity of a pod with that service account. *)
ComponentOf(name, component) ==
  component = name \/ \E domain \in Names : component = Join(domain, name)

LEMMA OneComponent ==
  ASSUME NEW component, NEW one \in Names, NEW other \in Names,
         ComponentOf(one, component), ComponentOf(other, component)
  PROVE  \/ one = other
         \/ IsSuffix(<<".">> \o one, other)
         \/ IsSuffix(<<".">> \o other, one)
<1>1. CASE component = one
  BY <1>1, EndOfJoined DEF ComponentOf
<1>2. CASE component = other
  BY <1>2, EndOfJoined DEF ComponentOf
<1>3. CASE component # one /\ component # other
  <2>1. PICK d \in Names, e \in Names :
          component = Join(d, one) /\ component = Join(e, other)
    BY <1>3 DEF ComponentOf
  <2>2. Len(one) \in Nat /\ Len(other) \in Nat
    BY DEF Names
  <2>3. Len(one) = Len(other) \/ Len(one) < Len(other) \/ Len(other) < Len(one)
    BY <2>2
  <2>4. QED
    BY <2>1, <2>3, AsLong, Shorter
<1>4. QED
  BY <1>1, <1>2, <1>3

-----------------------------------------------------------------------------
(* The domain in front of a service account's name.                        *)

LEMMA Begins ==
  ASSUME NEW name \in Names, NEW n \in 0..Len(name)
  PROVE  /\ SubSeq(name, 1, n) \in Names
         /\ HasParts(name) => HasParts(SubSeq(name, 1, n))
         /\ n # 0 => SubSeq(name, 1, n) # <<>>
<1> SUFFICES ASSUME NEW front, front = SubSeq(name, 1, n)
             PROVE  /\ front \in Names
                    /\ HasParts(name) => HasParts(front)
                    /\ n # 0 => front # <<>>
  OBVIOUS
<1>1. Len(name) \in Nat /\ \A i \in 1..Len(name) : name[i] \in Characters
  BY DEF Names
<1>2. /\ front \in Seq(Characters) /\ Len(front) = n
      /\ \A i \in 1..n : front[i] = name[i]
  BY <1>1, SubSeqProperties
<1>3. ASSUME HasParts(name)
      PROVE  HasParts(front)
  <2>1. \A i \in 1..(n - 1) : front[i] = "." => front[i + 1] \in Words
    <3> SUFFICES ASSUME NEW i \in 1..(n - 1), front[i] = "."
                 PROVE  front[i + 1] \in Words
      OBVIOUS
    <3>1. i \in 1..n /\ i + 1 \in 1..n /\ i \in 1..(Len(name) - 1)
      BY <1>1
    <3>2. QED
      BY <1>2, <1>3, <3>1 DEF HasParts
  <2>2. QED
    BY <1>2, <2>1 DEF HasParts
<1>4. n # 0 => front # <<>>
  BY <1>2
<1>5. front \in Names
  BY <1>2 DEF Names
<1>6. QED
  BY <1>3, <1>4, <1>5

LEMMA Extracted ==
  ASSUME NEW name \in Names
  PROVE  /\ extractDomain(name) \in Names
         /\ getDomainFromServiceAccount(name) \in Names
         /\ HasParts(name) => HasParts(getDomainFromServiceAccount(name))
         /\ extractDomain(name) # <<>> =>
              /\ lastDot(name) > 1
              /\ getDomainFromServiceAccount(name) = extractDomain(name)
<1>1. Len(name) \in Nat /\ lastDot(name) \in 0..Len(name)
  BY LastDot DEF Names
<1>2. CASE lastDot(name) \in {0, 1}
  <2>1. extractDomain(name) = <<>>
    BY <1>2, SubSeqEmpty DEF extractDomain
  <2>2. HasParts(<<>>) /\ <<>> \in Names
    BY DEF HasParts, Names
  <2>3. QED
    BY <2>1, <2>2 DEF getDomainFromServiceAccount
<1>3. CASE lastDot(name) \notin {0, 1}
  <2>1. PICK k \in 0..Len(name) : k = lastDot(name) - 1 /\ lastDot(name) > 1
    <3>1. lastDot(name) - 1 \in 0..Len(name) /\ lastDot(name) > 1
      BY <1>1, <1>3
    <3>2. QED
      BY <3>1
  <2>2. /\ extractDomain(name) \in Names
        /\ HasParts(name) => HasParts(extractDomain(name))
    <3>1. /\ SubSeq(name, 1, k) \in Names
          /\ HasParts(name) => HasParts(SubSeq(name, 1, k))
      BY Begins
    <3>2. extractDomain(name) = SubSeq(name, 1, k)
      BY <2>1 DEF extractDomain
    <3>3. QED
      BY <3>1, <3>2
  <2>3. QED
    BY <2>1, <2>2 DEF getDomainFromServiceAccount
<1>4. QED
  BY <1>2, <1>3

LEMMA JoinedDot ==
  ASSUME NEW domain \in Names, NEW name \in Names, domain # <<>>
  PROVE  lastDot(Join(domain, name)) > 1
<1>1. Len(domain) \in Nat \ {0}
  BY DEF Names
<1> DEFINE all == Join(domain, name)
<1>2. /\ all \in Names /\ Len(name) \in Nat /\ Len(all) = Len(domain) + 1 + Len(name)
      /\ all[Len(domain) + 1] = "."
  BY Joined
<1> HIDE DEF all
<1>3. Len(domain) + 1 \in 1..Len(all)
  BY <1>1, <1>2
<1>4. lastDot(all) \in 0..Len(all) /\ Len(domain) + 1 <= lastDot(all)
  BY <1>2, <1>3, LastDot
<1>5. QED
  BY <1>1, <1>2, <1>4 DEF all

-----------------------------------------------------------------------------
(* The inductive invariant.                                                *)

(* A request is what NewRequest made of it, but for its state and excuse.  *)
Made(r) ==
  request[r] = [state |-> request[r].state, excused |-> request[r].excused,
                form |-> request[r].form, uris |-> request[r].uris]

(* Who was asked for, once that was compared.                              *)
NamesItsPod(r) ==
  request[r].state \in {"identified", "approved"} =>
    /\ request[r].uris[1].namespace = pod[r].namespace
    /\ \/ request[r].uris[1].component = pod[r].serviceAccount
       \/ \E d \in Domains \cup {<<>>} :
            request[r].uris[1].component = Join(d, pod[r].serviceAccount)

(* Where the domain has been compared, and where it is still to be.        *)
DomainCompared(r) ==
  /\ request[r].state = "identified" => multiTenancy /\ ~InOwnDomain(r)
  /\ request[r].state = "approved" /\ multiTenancy =>
       InOwnDomain(r) \/ pod[r].namespace \in annotated

RequestRight(r) ==
  /\ \/ request[r] = Absent
     \/ Made(r) /\ request[r].excused \in BOOLEAN
  /\ NamesItsPod(r)
  /\ DomainCompared(r)

(* As long as nothing excuses it, the request of a volume is the one the   *)
(* driver would make again.                                                *)
VolumeRight(v) ==
  /\ request[v] # Absent /\ ~request[v].excused =>
       /\ athenzDomain(pod[v]) # <<>>
       /\ request[v].form = DriverForm
       /\ request[v].uris = <<driverID(pod[v]), instanceId>>
  /\ request[v].state = "denied" =>
       \/ request[v].excused \/ DurationsDiffer
       \/ multiTenancy /\ pod[v].namespace # getDashedDomain(athenzDomain(pod[v]))

Inv ==
  /\ TypeOK
  /\ request = [r \in Requests |-> request[r]]
  /\ \A n \in Namespaces : annotation[n] # <<>> => n \in annotated
  /\ \A r \in Requests : RequestRight(r)
  /\ \A v \in Volumes : VolumeRight(v)

LEMMA PodNames ==
  ASSUME TypeOK, NEW r \in Requests
  PROVE  /\ pod[r].namespace \in Namespaces
         /\ pod[r].serviceAccount \in Names /\ HasParts(pod[r].serviceAccount)
         /\ pod[r].useNSForDomain \in BOOLEAN
         /\ annotation[pod[r].namespace] \in Domains \cup {<<>>}
         /\ annotation[pod[r].namespace] \in Names
         /\ athenzDomain(pod[r]) \in Names
<1>1. /\ pod[r].namespace \in Namespaces /\ pod[r].serviceAccount \in ServiceAccounts
      /\ pod[r].useNSForDomain \in BOOLEAN
  BY DEF TypeOK, Pods
<1>2. pod[r].serviceAccount \in Names /\ HasParts(pod[r].serviceAccount)
  BY <1>1, IdentityAssumption
<1>3. /\ annotation[pod[r].namespace] \in Domains \cup {<<>>}
      /\ annotation[pod[r].namespace] \in Names
  BY <1>1, DashStep, IdentityAssumption DEF TypeOK
<1>4. athenzDomain(pod[r]) \in Names
  BY <1>2, <1>3, Extracted DEF athenzDomain
<1>5. QED
  BY <1>1, <1>2, <1>3, <1>4

LEMMA InitInv == Init => Inv
<1> SUFFICES ASSUME Init
             PROVE  Inv
  OBVIOUS
<1>1. \A r \in Requests : request[r] = Absent /\ request[r].state = "absent"
  BY DEF Init, Absent
<1>2. Volumes \subseteq Requests
  BY DEF Requests
<1>3. TypeOK
  BY <1>1, <1>2, IdentityAssumption DEF Init, TypeOK, States
<1>4. \A r \in Requests : RequestRight(r)
  BY <1>1 DEF RequestRight, NamesItsPod, DomainCompared
<1>5. \A v \in Volumes : VolumeRight(v)
  BY <1>1, <1>2 DEF VolumeRight
<1>6. QED
  BY <1>3, <1>4, <1>5 DEF Init, Inv

-----------------------------------------------------------------------------
(* Steps that decide or make one request.                                  *)

others == <<config, annotation, annotations, annotated, pod>>

(* What a volume's request has besides VolumeRight.                        *)
NamesDomain(v) ==
  request[v] # Absent => lastDot(request[v].uris[1].component) > 1

LEMMA OneRequest ==
  ASSUME Inv, NEW r \in Requests, UNCHANGED others,
         request' = [q \in Requests |-> request'[q]],
         \A q \in Requests \ {r} : request'[q] = request[q],
         (request[r].state \in States)', RequestRight(r)',
         r \in Volumes => NamesDomain(r)' /\ VolumeRight(r)'
  PROVE  Inv'
<1>1. Volumes \subseteq Requests
  BY DEF Requests
<1>2. ASSUME NEW q \in Requests
      PROVE  (request[q].state \in States)' /\ RequestRight(q)'
  <2>1. CASE q = r
    BY <2>1
  <2>2. CASE q # r
    <3>1. request'[q] = request[q] /\ RequestRight(q) /\ request[q].state \in States
      BY <2>2 DEF Inv, TypeOK
    <3>2. RequestRight(q)'
      BY <3>1 DEF RequestRight, Made, NamesItsPod, DomainCompared, InOwnDomain, others, config
    <3>3. QED
      BY <3>1, <3>2
  <2>3. QED
    BY <2>1, <2>2
<1>3. ASSUME NEW v \in Volumes
      PROVE  NamesDomain(v)' /\ VolumeRight(v)'
  <2>1. CASE v = r
    BY <2>1
  <2>2. CASE v # r
    <3>1. request'[v] = request[v] /\ VolumeRight(v) /\ NamesDomain(v)
      BY <1>1, <2>2 DEF Inv, TypeOK, NamesDomain
    <3>2. VolumeRight(v)'
      BY <3>1 DEF VolumeRight, athenzDomain, DriverForm, Form, certificateRequestDuration,
           driver, approver, driverID, commonName, DurationsDiffer, others, config
    <3>3. QED
      BY <3>1, <3>2 DEF NamesDomain
  <2>3. QED
    BY <2>1, <2>2
<1>4. TypeOK'
  BY <1>2, <1>3 DEF Inv, TypeOK, NamesDomain, others, config
<1>5. QED
  BY <1>2, <1>3, <1>4 DEF Inv, others

LEMMA Decided ==
  ASSUME Inv, NEW r \in Requests, NEW state \in States,
         request[r].state \in {"pending", "identified"}, Decide(r, state)
  PROVE  /\ request' = [q \in Requests |-> request'[q]]
         /\ \A q \in Requests \ {r} : request'[q] = request[q]
         /\ request[r] # Absent /\ request'[r] # Absent /\ Made(r)'
         /\ request'[r].state = state
         /\ request'[r].excused = request[r].excused /\ request[r].excused \in BOOLEAN
         /\ request'[r].form = request[r].form
         /\ request'[r].uris = request[r].uris
<1>1. Made(r) /\ request[r].excused \in BOOLEAN
  BY DEF Inv, RequestRight, Absent
<1>2. request = [q \in Requests |-> request[q]]
  BY DEF Inv
<1>3. request' = [request EXCEPT ![r].state = state]
  BY DEF Decide
<1>4. /\ request' = [q \in Requests |-> request'[q]]
      /\ \A q \in Requests \ {r} : request'[q] = request[q]
      /\ request'[r] = [request[r] EXCEPT !.state = state]
  BY <1>2, <1>3
<1>5. request'[r] = [state |-> state, excused |-> request[r].excused,
                     form |-> request[r].form, uris |-> request[r].uris]
  BY <1>1, <1>4 DEF Made
<1>6. request[r] # Absent /\ request'[r] # Absent
  BY <1>1, <1>5 DEF Made, Absent
<1>7. QED
  BY <1>1, <1>4, <1>5, <1>6 DEF Made

(* Whatever flags are given, the programs agree about them, except about a *)
(* duration of zero.                                                       *)
LEMMA Programs ==
  /\ driver.trustDomain = approver.trustDomain
  /\ ~DurationsDiffer => certificateRequestDuration = approver.duration
<1> DEFINE of(defaults, flag) == IF flag \in DOMAIN flags THEN flags[flag] ELSE defaults[flag]
<1>1. /\ driverDefaults.trustDomain = "cluster.local" /\ driverDefaults.duration = "1h"
      /\ approverDefaults.trustDomain = "cluster.local" /\ approverDefaults.duration = "1h"
      /\ {"trustDomain", "duration"} \subseteq DOMAIN driverDefaults
      /\ {"trustDomain", "duration"} \subseteq DOMAIN approverDefaults
  BY DEF driverDefaults, approverDefaults
<1>2. /\ driver.trustDomain = of(driverDefaults, "trustDomain")
      /\ driver.duration = of(driverDefaults, "duration")
      /\ approver.trustDomain = of(approverDefaults, "trustDomain")
      /\ approver.duration = of(approverDefaults, "duration")
  BY <1>1 DEF driver, approver, Given
<1>3. driver.trustDomain = approver.trustDomain /\ driver.duration = approver.duration
  BY <1>1, <1>2
<1>4. QED
  BY <1>3 DEF DurationsDiffer, certificateRequestDuration

LEMMA DriverFormValid ==
  ASSUME ~DurationsDiffer
  PROVE  ValidForm(DriverForm) /\ DriverForm.byServiceAccount
<1>1. /\ DriverForm.duration = approver.duration /\ DriverForm.isCA = FALSE
      /\ DriverForm.usages = requiredUsages /\ DriverForm.byServiceAccount = TRUE
  BY Programs DEF DriverForm, Form
<1>2. DriverForm.extensions = {[id |-> "subjectAltName", values |-> {"URI", "DNS"}]}
  BY DEF DriverForm, Form
<1>3. \A e \in DriverForm.extensions : ValidExtension(e)
  <2> SUFFICES ASSUME NEW e \in DriverForm.extensions
               PROVE  ValidExtension(e)
    OBVIOUS
  <2>1. e.id = "subjectAltName" /\ e.values = {"URI", "DNS"}
    BY <1>2
  <2>2. QED
    BY <2>1 DEF ValidExtension
<1>4. QED
  BY <1>1, <1>3 DEF ValidForm

(* What a driver asks for is not denied before domains are compared.       *)
LEMMA OwnIdentified ==
  ASSUME Inv, NEW v \in Volumes, request[v] # Absent, ~request[v].excused, ~DurationsDiffer
  PROVE  Readable(v) /\ (Named(v) \/ NamedByAnnotation(v))
<1>1. v \in Requests
  BY DEF Requests
<1>2. /\ request[v].form = DriverForm
      /\ request[v].uris = <<driverID(pod[v]), instanceId>>
  BY DEF Inv, VolumeRight
<1>3. request[v].uris[1] = SpiffeID(pod[v].namespace, commonName(pod[v]))
  BY <1>2, Programs DEF driverID, SpiffeID
<1>4. Readable(v)
  BY <1>2, <1>3, DriverFormValid DEF Readable, SpiffeID, SpiffeOf
<1>5. Named(v) \/ NamedByAnnotation(v)
  BY <1>3 DEF Named, NamedByAnnotation, commonName, athenzDomain
<1>6. QED
  BY <1>4, <1>5

LEMMA EvaluateInv ==
  ASSUME Inv, NEW r \in Requests, Evaluate(r)
  PROVE  Inv'
<1> DEFINE identified == Readable(r) /\ (Named(r) \/ NamedByAnnotation(r))
<1>1. PICK state \in States :
        /\ Decide(r, state)
        /\ \/ state = "denied" /\ ~identified
           \/ state = "identified" /\ identified /\ multiTenancy /\ ~InOwnDomain(r)
           \/ state = "approved" /\ identified /\ (~multiTenancy \/ InOwnDomain(r))
  <2> HIDE DEF identified
  <2>1. Decide(r, IF ~identified THEN "denied"
                  ELSE IF multiTenancy /\ ~InOwnDomain(r) THEN "identified" ELSE "approved")
    BY DEF Evaluate, identified
  <2>2. {"denied", "identified", "approved"} \subseteq States
    BY DEF States
  <2>3. CASE ~identified
    BY <2>1, <2>2, <2>3
  <2>4. CASE identified /\ multiTenancy /\ ~InOwnDomain(r)
    BY <2>1, <2>2, <2>4
  <2>5. CASE identified /\ ~(multiTenancy /\ ~InOwnDomain(r))
    BY <2>1, <2>2, <2>5
  <2>6. QED
    BY <2>3, <2>4, <2>5
<1>2. request[r].state \in {"pending", "identified"}
  BY DEF Evaluate, Decidable
<1>3. /\ request' = [q \in Requests |-> request'[q]]
      /\ \A q \in Requests \ {r} : request'[q] = request[q]
      /\ request[r] # Absent /\ request'[r] # Absent /\ Made(r)'
      /\ request'[r].state = state
      /\ request'[r].excused = request[r].excused /\ request[r].excused \in BOOLEAN
      /\ request'[r].form = request[r].form
      /\ request'[r].uris = request[r].uris
  BY <1>1, <1>2, Decided
<1>4. UNCHANGED others
  BY <1>1 DEF Decide, others
<1>5. RequestRight(r)'
  <2>1. NamesItsPod(r)'
    <3>1. CASE state = "denied"
      BY <1>3, <3>1 DEF NamesItsPod
    <3>2. CASE state # "denied"
      <4>1. Named(r) \/ NamedByAnnotation(r)
        BY <1>1, <3>2
      <4>2. annotation[pod[r].namespace] \in Domains \cup {<<>>}
        BY PodNames DEF Inv
      <4>3. /\ request[r].uris[1].namespace = pod[r].namespace
            /\ \/ request[r].uris[1].component = pod[r].serviceAccount
               \/ \E d \in Domains \cup {<<>>} :
                    request[r].uris[1].component = Join(d, pod[r].serviceAccount)
        BY <4>1, <4>2 DEF Named, NamedByAnnotation, SpiffeID, SpiffeOf
      <4>4. QED
        BY <1>3, <1>4, <4>3 DEF NamesItsPod, others
    <3>3. QED
      BY <3>1, <3>2
  <2>2. DomainCompared(r)'
    BY <1>1, <1>3, <1>4 DEF DomainCompared, InOwnDomain, others, config
  <2>3. QED
    BY <1>3, <2>1, <2>2 DEF RequestRight
<1>6. ASSUME r \in Volumes
      PROVE  NamesDomain(r)' /\ VolumeRight(r)'
  <2>1. NamesDomain(r)'
    BY <1>3, <1>6 DEF NamesDomain, Inv, TypeOK
  <2>2. state = "denied" => request[r].excused \/ DurationsDiffer
    BY <1>1, <1>3, <1>6, OwnIdentified
  <2>3. ~request[r].excused =>
          /\ athenzDomain(pod[r]) # <<>>
          /\ request[r].form = DriverForm
          /\ request[r].uris = <<driverID(pod[r]), instanceId>>
    BY <1>3, <1>6 DEF Inv, VolumeRight
  <2>4. VolumeRight(r)'
    BY <1>3, <1>4, <2>2, <2>3 DEF VolumeRight, athenzDomain, DriverForm, Form,
         certificateRequestDuration, driver, approver, driverID, commonName,
         DurationsDiffer, others, config
  <2>5. QED
    BY <2>1, <2>4
<1>7. QED
  BY <1>3, <1>4, <1>5, <1>6, OneRequest

LEMMA DomainInv ==
  ASSUME Inv, NEW r \in Requests, validateIdentityDomain(r)
  PROVE  Inv'
<1>1. PICK state \in States :
        /\ Decide(r, state)
        /\ \/ state = "denied" /\ ~AnnotationAllows(r)
           \/ state = "approved" /\ AnnotationAllows(r)
  BY DEF validateIdentityDomain, States
<1>2. request[r].state = "identified"
  BY DEF validateIdentityDomain
<1>3. /\ request' = [q \in Requests |-> request'[q]]
      /\ \A q \in Requests \ {r} : request'[q] = request[q]
      /\ request[r] # Absent /\ request'[r] # Absent /\ Made(r)'
      /\ request'[r].state = state
      /\ request'[r].excused = request[r].excused /\ request[r].excused \in BOOLEAN
      /\ request'[r].form = request[r].form
      /\ request'[r].uris = request[r].uris
  BY <1>1, <1>2, Decided
<1>4. UNCHANGED others
  BY <1>1 DEF Decide, others
<1>5. RequestRight(r)'
  <2>1. NamesItsPod(r) /\ multiTenancy /\ ~InOwnDomain(r)
    BY <1>2 DEF Inv, RequestRight, DomainCompared
  <2>2. NamesItsPod(r)'
    BY <1>2, <1>3, <1>4, <2>1 DEF NamesItsPod, others
  <2>3. state = "approved" => pod[r].namespace \in annotated
    <3>1. pod[r].namespace \in Namespaces
      BY PodNames DEF Inv
    <3>2. QED
      BY <1>1, <3>1 DEF AnnotationAllows, Inv
  <2>4. DomainCompared(r)'
    BY <1>1, <1>3, <1>4, <2>3 DEF DomainCompared, others
  <2>5. QED
    BY <1>3, <2>2, <2>4 DEF RequestRight
<1>6. ASSUME r \in Volumes
      PROVE  NamesDomain(r)' /\ VolumeRight(r)'
  <2>1. NamesDomain(r)'
    BY <1>3, <1>6 DEF NamesDomain, Inv, TypeOK
  <2>2. ~request[r].excused =>
          /\ athenzDomain(pod[r]) # <<>>
          /\ request[r].form = DriverForm
          /\ request[r].uris = <<driverID(pod[r]), instanceId>>
    BY <1>3, <1>6 DEF Inv, VolumeRight
  <2>3. state = "denied" =>
          \/ request[r].excused
          \/ multiTenancy /\ pod[r].namespace # getDashedDomain(athenzDomain(pod[r]))
    <3> SUFFICES ASSUME ~AnnotationAllows(r), ~request[r].excused
                 PROVE  multiTenancy /\ pod[r].namespace # getDashedDomain(athenzDomain(pod[r]))
      BY <1>1
    <3>1. multiTenancy /\ ~InOwnDomain(r)
      BY <1>2 DEF Inv, RequestRight, DomainCompared
    <3>2. CASE pod[r].useNSForDomain
      <4>1. athenzDomain(pod[r]) = annotation[pod[r].namespace]
        BY <3>2 DEF athenzDomain
      <4>2. QED
        BY <2>2, <3>1, <4>1 DEF AnnotationAllows
    <3>3. CASE ~pod[r].useNSForDomain
      <4>1. athenzDomain(pod[r]) = extractDomain(pod[r].serviceAccount)
        BY <3>3 DEF athenzDomain
      <4>2. extractDomain(pod[r].serviceAccount)
              = getDomainFromServiceAccount(pod[r].serviceAccount)
        BY <2>2, <4>1, PodNames, Extracted DEF Inv
      <4>3. QED
        BY <3>1, <4>1, <4>2 DEF InOwnDomain
    <3>4. QED
      BY <3>2, <3>3
  <2>4. VolumeRight(r)'
    BY <1>3, <1>4, <2>2, <2>3 DEF VolumeRight, athenzDomain, DriverForm, Form,
         certificateRequestDuration, driver, approver, driverID, commonName,
         DurationsDiffer, others, config
  <2>5. QED
    BY <2>1, <2>4
<1>7. QED
  BY <1>3, <1>4, <1>5, <1>6, OneRequest

LEMMA ReadFailsInv ==
  ASSUME Inv, NEW r \in Requests, ReadFails(r)
  PROVE  Inv'
<1>1. request[r].state \in {"pending", "identified"}
  BY DEF ReadFails, Decidable
<1>2. Made(r)
  BY <1>1 DEF Inv, RequestRight, Absent
<1>3. request' = [request EXCEPT ![r] = [@ EXCEPT !.state = "denied", !.excused = TRUE]]
  BY DEF ReadFails
<1>4. request = [q \in Requests |-> request[q]]
  BY DEF Inv
<1>5. /\ request' = [q \in Requests |-> request'[q]]
      /\ \A q \in Requests \ {r} : request'[q] = request[q]
      /\ request'[r] = [request[r] EXCEPT !.state = "denied", !.excused = TRUE]
  BY <1>3, <1>4
<1>6. request'[r] = [state |-> "denied", excused |-> TRUE,
                     form |-> request[r].form, uris |-> request[r].uris]
  BY <1>2, <1>5 DEF Made
<1>7. UNCHANGED others
  BY DEF ReadFails, others
<1>8. RequestRight(r)'
  BY <1>6 DEF RequestRight, Made, NamesItsPod, DomainCompared
<1>9. ASSUME r \in Volumes
      PROVE  NamesDomain(r)' /\ VolumeRight(r)'
  <2>1. request[r] # Absent
    BY <1>2 DEF Made, Absent
  <2>2. NamesDomain(r)'
    <3>1. lastDot(request[r].uris[1].component) > 1
      BY <1>9, <2>1 DEF Inv, TypeOK
    <3>2. request'[r].uris = request[r].uris
      BY <1>6
    <3>3. QED
      BY <3>1, <3>2 DEF NamesDomain
  <2>3. VolumeRight(r)'
    BY <1>6 DEF VolumeRight
  <2>4. QED
    BY <2>2, <2>3
<1>10. (request[r].state \in States)'
  BY <1>6 DEF States
<1>11. QED
  BY <1>5, <1>7, <1>8, <1>9, <1>10, OneRequest

LEMMA Submitted ==
  ASSUME Inv, NEW r \in Requests, NEW form, NEW uris,
         request' = [request EXCEPT ![r] = NewRequest(form, uris)]
  PROVE  /\ request' = [q \in Requests |-> request'[q]]
         /\ \A q \in Requests \ {r} : request'[q] = request[q]
         /\ request'[r] = NewRequest(form, uris)
         /\ (request[r].state \in States)' /\ RequestRight(r)'
<1>1. request = [q \in Requests |-> request[q]]
  BY DEF Inv
<1>2. /\ request' = [q \in Requests |-> request'[q]]
      /\ \A q \in Requests \ {r} : request'[q] = request[q]
      /\ request'[r] = NewRequest(form, uris)
  BY <1>1
<1>3. RequestRight(r)'
  BY <1>2 DEF RequestRight, Made, NamesItsPod, DomainCompared, NewRequest
<1>4. (request[r].state \in States)'
  BY <1>2 DEF NewRequest, States
<1>5. QED
  BY <1>2, <1>3, <1>4

LEMMA GenerateInv ==
  ASSUME Inv, NEW v \in Volumes, generateRequest(v)
  PROVE  Inv'
<1>1. v \in Requests
  BY DEF Requests
<1>2. UNCHANGED others
  BY DEF generateRequest, others
<1>3. /\ request' = [request EXCEPT ![v] =
           NewRequest(DriverForm, <<driverID(pod[v]), instanceId>>)]
      /\ athenzDomain(pod[v]) # <<>>
  BY DEF generateRequest
<1>4. /\ request' = [q \in Requests |-> request'[q]]
      /\ \A q \in Requests \ {v} : request'[q] = request[q]
      /\ request'[v] = NewRequest(DriverForm, <<driverID(pod[v]), instanceId>>)
      /\ (request[v].state \in States)' /\ RequestRight(v)'
  BY <1>1, <1>3, Submitted
<1>5. /\ request'[v].state = "pending" /\ request'[v].excused = FALSE
      /\ request'[v].form = DriverForm
      /\ request'[v].uris = <<driverID(pod[v]), instanceId>>
  BY <1>4 DEF NewRequest
<1>6. NamesDomain(v)'
  <2>1. request'[v].uris[1].component = commonName(pod[v])
    BY <1>5 DEF driverID, SpiffeOf
  <2>2. lastDot(commonName(pod[v])) > 1
    <3>1. CASE pod[v].useNSForDomain
      BY <1>1, <1>3, <3>1, PodNames, JoinedDot DEF Inv, commonName
    <3>2. CASE ~pod[v].useNSForDomain
      BY <1>1, <1>3, <3>2, PodNames, Extracted DEF Inv, commonName, athenzDomain
    <3>3. QED
      BY <3>1, <3>2
  <2>3. QED
    BY <2>1, <2>2 DEF NamesDomain
<1>7. VolumeRight(v)'
  BY <1>2, <1>3, <1>5 DEF VolumeRight, athenzDomain, DriverForm, Form,
       certificateRequestDuration, driver, driverID, commonName, others, config
<1>8. QED
  BY <1>1, <1>2, <1>4, <1>6, <1>7, OneRequest

LEMMA SubmitInv ==
  ASSUME Inv, NEW o \in Others, Submit(o)
  PROVE  Inv'
<1>1. o \in Requests /\ o \notin Volumes
  BY IdentityAssumption DEF Requests
<1>2. UNCHANGED others
  BY DEF Submit, others
<1>3. PICK form, uris : request' = [request EXCEPT ![o] = NewRequest(form, uris)]
  BY DEF Submit
<1>4. /\ request' = [q \in Requests |-> request'[q]]
      /\ \A q \in Requests \ {o} : request'[q] = request[q]
      /\ (request[o].state \in States)' /\ RequestRight(o)'
  BY <1>1, <1>3, Submitted
<1>5. QED
  BY <1>1, <1>2, <1>4, OneRequest

LEMMA AnnotateInv ==
  ASSUME Inv, NEW n \in Namespaces, NEW domain \in Domains \cup {<<>>}, Annotate(n, domain)
  PROVE  Inv'
<1>1. /\ annotations < MaxAnnotations /\ annotations' = annotations + 1
      /\ annotation' = [annotation EXCEPT ![n] = domain]
      /\ annotated' = annotated \cup {n}
      /\ UNCHANGED <<config, pod>>
  BY DEF Annotate
<1>2. request' = [r \in Requests |->
        IF pod[r].namespace = n /\ request[r] # Absent
        THEN [request[r] EXCEPT !.excused = TRUE] ELSE request[r]]
  BY DEF Annotate
<1>3. ASSUME NEW r \in Requests
      PROVE  \/ request'[r] = request[r] /\ (request[r] = Absent \/ pod[r].namespace # n)
             \/ /\ Made(r) /\ request[r] # Absent
                /\ request'[r] = [state |-> request[r].state, excused |-> TRUE,
                                  form |-> request[r].form, uris |-> request[r].uris]
  <2>1. CASE pod[r].namespace = n /\ request[r] # Absent
    <3>1. Made(r)
      BY <2>1 DEF Inv, RequestRight
    <3>2. request'[r] = [request[r] EXCEPT !.excused = TRUE]
      BY <1>2, <2>1
    <3>3. QED
      BY <2>1, <3>1, <3>2 DEF Made
  <2>2. CASE ~(pod[r].namespace = n /\ request[r] # Absent)
    BY <1>2, <2>2
  <2>3. QED
    BY <2>1, <2>2
<1>4. ASSUME NEW r \in Requests
      PROVE  RequestRight(r)' /\ (request[r].state \in States)'
  <2>1. RequestRight(r) /\ request[r].state \in States
    BY DEF Inv, TypeOK
  <2>2. CASE request'[r] = request[r]
    BY <1>1, <2>1, <2>2 DEF RequestRight, Made, NamesItsPod, DomainCompared, InOwnDomain, config
  <2>3. CASE request'[r] = [state |-> request[r].state, excused |-> TRUE,
                            form |-> request[r].form, uris |-> request[r].uris]
    BY <1>1, <2>1, <2>3 DEF RequestRight, Made, NamesItsPod, DomainCompared, InOwnDomain, config
  <2>4. QED
    BY <1>3, <2>2, <2>3
<1>5. ASSUME NEW v \in Volumes
      PROVE  NamesDomain(v)' /\ VolumeRight(v)'
  <2>1. v \in Requests
    BY DEF Requests
  <2>2. NamesDomain(v) /\ VolumeRight(v)
    BY DEF Inv, TypeOK, NamesDomain
  <2>3. CASE request'[v] = request[v] /\ request[v] = Absent
    BY <2>3 DEF NamesDomain, VolumeRight, Absent
  <2>4. CASE request'[v] = request[v] /\ pod[v].namespace # n
    <3>1. annotation'[pod[v].namespace] = annotation[pod[v].namespace]
      BY <1>1, <2>1, <2>4, PodNames DEF Inv, TypeOK
    <3>2. athenzDomain(pod[v])' = athenzDomain(pod[v])
      BY <1>1, <3>1 DEF athenzDomain
    <3>3. QED
      BY <1>1, <2>2, <2>4, <3>2 DEF NamesDomain, VolumeRight, DriverForm, Form,
           certificateRequestDuration, driver, approver, driverID, commonName,
           DurationsDiffer, config
  <2>5. CASE request[v] # Absent
             /\ request'[v] = [state |-> request[v].state, excused |-> TRUE,
                               form |-> request[v].form, uris |-> request[v].uris]
    BY <2>2, <2>5 DEF NamesDomain, VolumeRight
  <2>6. QED
    BY <1>3, <2>1, <2>3, <2>4, <2>5
<1>6. TypeOK'
  <2>1. /\ multiTenancy \in BOOLEAN /\ flags \in Flags
        /\ annotation \in [Namespaces -> Domains \cup {<<>>}]
        /\ annotations \in 0..MaxAnnotations
        /\ annotated \subseteq Namespaces
        /\ pod \in [Requests -> Pods]
    BY DEF Inv, TypeOK
  <2>2. /\ annotation' \in [Namespaces -> Domains \cup {<<>>}]
        /\ annotations' \in 0..MaxAnnotations
        /\ annotated' \subseteq Namespaces
    BY <1>1, <2>1, IdentityAssumption
  <2>3. QED
    BY <1>1, <1>4, <1>5, <2>1, <2>2 DEF TypeOK, NamesDomain, config
<1>7. request' = [r \in Requests |-> request'[r]]
  BY <1>2
<1>8. \A m \in Namespaces : annotation'[m] # <<>> => m \in annotated'
  BY <1>1 DEF Inv, TypeOK
<1>9. QED
  BY <1>4, <1>5, <1>6, <1>7, <1>8 DEF Inv

-----------------------------------------------------------------------------

LEMMA NextInv == Inv /\ [Next]_vars => Inv'
<1> SUFFICES ASSUME Inv, [Next]_vars
             PROVE  Inv'
  OBVIOUS
<1>1. CASE \E n \in Namespaces, d \in Domains \cup {<<>>} : Annotate(n, d)
  BY <1>1, AnnotateInv
<1>2. CASE \E v \in Volumes : generateRequest(v)
  BY <1>2, GenerateInv
<1>3. CASE \E o \in Others : Submit(o)
  BY <1>3, SubmitInv
<1>4. CASE \E r \in Requests : Evaluate(r)
  BY <1>4, EvaluateInv
<1>5. CASE \E r \in Requests : validateIdentityDomain(r)
  BY <1>5, DomainInv
<1>6. CASE \E r \in Requests : ReadFails(r)
  BY <1>6, ReadFailsInv
<1>7. CASE UNCHANGED vars
  BY <1>7 DEF vars, config, Inv, TypeOK, RequestRight, Made, NamesItsPod, DomainCompared,
       InOwnDomain, VolumeRight, athenzDomain, DriverForm, Form, certificateRequestDuration,
       driver, approver, driverID, commonName, DurationsDiffer
<1>8. QED
  BY <1>1, <1>2, <1>3, <1>4, <1>5, <1>6, <1>7 DEF Next

LEMMA InvHolds == Spec => []Inv
BY InitInv, NextInv, PTL DEF Spec

(* The state is of the declared types, and every driver's request names a  *)
(* domain that is not empty in front of the service (driver.go:304).       *)
THEOREM TypeCorrect == Spec => []TypeOK
<1>1. Inv => TypeOK
  BY DEF Inv
<1>2. QED
  BY <1>1, InvHolds, PTL

(* Whatever flags both programs are given, and whatever the names of       *)
(* domains and service accounts, the evaluator denies what a driver asks   *)
(* for only for the reasons OwnRequestsApproved has (driver.go:304,        *)
(* evaluator.go:92, identity.go).                                          *)
THEOREM OwnApproved == Spec => []OwnRequestsApproved
<1>1. Inv => OwnRequestsApproved
  BY DEF Inv, VolumeRight, OwnRequestsApproved
<1>2. QED
  BY <1>1, InvHolds, PTL

LEMMA InvNotShared == Inv => IdentityNotShared
<1> SUFFICES ASSUME Inv, NEW q \in Requests, NEW r \in Requests,
                    Approved(q), Approved(r), request[q].uris[1] = request[r].uris[1]
             PROVE  /\ pod[q].namespace = pod[r].namespace
                    /\ \/ pod[q].serviceAccount = pod[r].serviceAccount
                       \/ IsSuffix(<<".">> \o pod[q].serviceAccount, pod[r].serviceAccount)
                       \/ IsSuffix(<<".">> \o pod[r].serviceAccount, pod[q].serviceAccount)
  BY DEF IdentityNotShared
<1> DEFINE component == request[q].uris[1].component
<1>1. NamesItsPod(q) /\ NamesItsPod(r)
  BY DEF Inv, RequestRight
<1>2. pod[q].namespace = pod[r].namespace
  BY <1>1 DEF NamesItsPod, Approved
<1>3. pod[q].serviceAccount \in Names /\ pod[r].serviceAccount \in Names
  BY PodNames DEF Inv
<1>4. Domains \cup {<<>>} \subseteq Names
  BY IdentityAssumption, DashStep
<1>5. /\ ComponentOf(pod[q].serviceAccount, component)
      /\ ComponentOf(pod[r].serviceAccount, component)
  BY <1>1, <1>4 DEF NamesItsPod, Approved, ComponentOf
<1> HIDE DEF component
<1>6. QED
  BY <1>2, <1>3, <1>5, OneComponent

(* Approved requests share an identity only within a namespace, and only   *)
(* if one service account's name is the other's with a domain in front,    *)
(* whatever is asked for and however namespaces are annotated meanwhile    *)
(* (identity.go).                                                          *)
THEOREM NotShared == Spec => []IdentityNotShared
BY InvHolds, InvNotShared, PTL

LEMMA InvApart == Inv => TenantsApart
<1> SUFFICES ASSUME Inv, multiTenancy, NEW q \in Requests, NEW r \in Requests,
                    Approved(q), Approved(r),
                    {pod[q].namespace, pod[r].namespace} \cap annotated = {}
             PROVE  pod[q].namespace = pod[r].namespace <=>
                      getDomainFromServiceAccount(pod[q].serviceAccount)
                        = getDomainFromServiceAccount(pod[r].serviceAccount)
  BY DEF TenantsApart
<1>1. InOwnDomain(q) /\ InOwnDomain(r)
  BY DEF Inv, RequestRight, DomainCompared, Approved
<1> DEFINE D(s) == getDomainFromServiceAccount(pod[s].serviceAccount)
<1>2. D(q) \in Names /\ D(r) \in Names /\ HasParts(D(q)) /\ HasParts(D(r))
  BY PodNames, Extracted DEF Inv
<1> HIDE DEF D
<1>3. /\ pod[q].namespace = getDashedDomain(D(q))
      /\ pod[r].namespace = getDashedDomain(D(r))
  BY <1>1 DEF InOwnDomain, D
<1>4. getDashedDomain(D(q)) = getDashedDomain(D(r)) => D(q) = D(r)
  BY <1>2, DashedDiffer DEF Alike
<1>5. pod[q].namespace = pod[r].namespace <=> D(q) = D(r)
  BY <1>3, <1>4
<1>6. QED
  BY <1>5 DEF D

(* With multi-tenancy, service accounts of namespaces that never had an    *)
(* annotation get certificates for one domain per namespace and for one    *)
(* namespace per domain: dashing keeps domains apart (getDashedDomain,     *)
(* identity.go), as long as no part of a service account's name begins     *)
(* with a dash.                                                            *)
THEOREM TenantsKeptApart == Spec => []TenantsApart
BY InvHolds, InvApart, PTL

=============================================================================

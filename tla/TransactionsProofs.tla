------------------------- MODULE TransactionsProofs -------------------------
(***************************************************************************)
(* What holds of Transactions for any models, transactions, keys and       *)
(* savepoints: what was rolled back is gone (UndoneGone), and a change is  *)
(* replaced unread only in the known ways (LostOnlyKnownWays).             *)
(***************************************************************************)
EXTENDS Transactions, SequenceTheorems, WellFoundedInduction, TLAPS

(* Transactions are told from savepoints, which are numbers, and from none.*)
HandlesApart == None \notin Handles /\ \A h \in Handles : h \notin Nat

RowType == [alive : BOOLEAN, ver : Nat, write : Nat, life : Nat, zeroed : BOOLEAN]
Undone == [key : Keys, row : RowType]
Mark == [name : Nat, at : Nat]

Typed ==
  /\ table \in [Keys -> RowType]
  /\ state \in [Handles -> {"new", "open", "ended"}]
  /\ undo \in [Handles -> Seq(Undone)] /\ marks \in [Handles -> Seq(Mark)]
  /\ points \in [Handles -> Seq(Nat)]
  /\ trans \in [Models -> Executors] /\ held \in [Models -> Struct \cup {None}]
  /\ tags \in Seq(SUBSET (Handles \cup Nat)) /\ named \in Nat
  /\ undone \subseteq Handles \cup Nat

(* The transactions and savepoints the last change of a row was made under.*)
TagsOf(row) == IF row.write = 0 THEN {} ELSE tags[row.write]

(* Changes are known, under transactions given out and savepoints named.   *)
WritesKnown ==
  /\ \A k \in Keys : table[k].write <= Len(tags)
  /\ \A h \in Handles : \A i \in DOMAIN undo[h] : undo[h][i].row.write <= Len(tags)
  /\ \A i \in DOMAIN tags : \A t \in tags[i] :
       /\ t \in Handles => state[t] # "new"
       /\ t \in Nat => t <= named

(* A savepoint is on one stack, once; once popped it is on none.           *)
NamesApart ==
  /\ \A t \in undone : (t \in Handles => state[t] = "ended") /\ (t \in Nat => t <= named)
  /\ \A h \in Handles : \A i \in DOMAIN points[h] : points[h][i] <= named /\ points[h][i] \notin undone
  /\ \A h, g \in Handles : \A i \in DOMAIN points[h], j \in DOMAIN points[g] :
       points[h][i] = points[g][j] => h = g /\ i = j
  /\ \A h \in Handles : \A i \in DOMAIN marks[h] : marks[h][i].name <= named
  /\ \A h, g \in Handles : \A i \in DOMAIN points[h], j \in DOMAIN marks[g] :
       points[h][i] = marks[g][j].name => h = g

(* Only open transactions have changed rows, no two of them the same one.  *)
LocksApart ==
  /\ \A h \in Handles : ~Open(h) => undo[h] = <<>> /\ marks[h] = <<>>
  /\ \A h, g \in Handles : h # g => Changed(h) \cap Changed(g) = {}

(* The marks of a transaction are in the order of the changes they are at. *)
MarksOrdered ==
  \A h \in Handles : \A i \in DOMAIN marks[h] :
    /\ marks[h][i].at <= Len(undo[h])
    /\ \A j \in DOMAIN marks[h] : i <= j => marks[h][i].at <= marks[h][j].at

(* No row that h would leave when it goes back to its n-th change, and no  *)
(* row others would leave, was changed under t.                            *)
Free(h, t, n) ==
  /\ \A k \in Keys : t \notin TagsOf(Before(h, n, k))
  /\ \A g \in Handles : \A i \in DOMAIN undo[g] : g # h \/ i <= n => t \notin TagsOf(undo[g][i].row)

AllFree ==
  \A h \in Handles : Open(h) =>
    /\ Free(h, h, 0)
    /\ \A i \in DOMAIN marks[h] : Free(h, marks[h][i].name, marks[h][i].at)

(* What was rolled back is in no row, and in none that may come back.      *)
Clean ==
  /\ \A k \in Keys : TagsOf(table[k]) \cap undone = {}
  /\ \A h \in Handles : \A i \in DOMAIN undo[h] : TagsOf(undo[h][i].row) \cap undone = {}

IndInv == Typed /\ WritesKnown /\ NamesApart /\ LocksApart /\ MarksOrdered /\ AllFree /\ Clean

-----------------------------------------------------------------------------
(* Sequences of changes *)

Smaller == {ss \in Nat \X Nat : ss[1] < ss[2]}

(* A set of numbers has a least one.                                       *)
LEMMA Least ==
  ASSUME NEW T \in SUBSET Nat, T # {}
  PROVE  \E x \in T : \A y \in T : x <= y
<1>1. IsWellFoundedOn(Smaller, Nat)
  BY NatLessThanWellFounded DEF OpToRel, Smaller
<1>2. PICK x \in T : \A y \in T : <<y, x>> \notin Smaller
  BY <1>1, WFMin
<1>3. ASSUME NEW y \in T, y < x PROVE <<y, x>> \in Smaller
  <2>1. <<y, x>> \in Nat \X Nat /\ <<y, x>>[1] < <<y, x>>[2]
    BY <1>3
  <2> QED
    BY <2>1 DEF Smaller
<1>4. \A y \in T : ~(y < x)
  BY <1>2, <1>3
<1>5. \A y \in T : x <= y
  BY <1>4
<1> QED
  BY <1>5

(* What a transaction that changed u leaves of the row of k when it goes   *)
(* back to its n-th change: row, or what there was before the next.        *)
LaterIn(u, n, k) == {i \in DOMAIN u : i > n /\ u[i].key = k}
BeforeIn(u, row, n, k) ==
  IF LaterIn(u, n, k) = {} THEN row
  ELSE u[CHOOSE i \in LaterIn(u, n, k) : \A j \in LaterIn(u, n, k) : i <= j].row

(* Before is the row of a transaction's changes.                           *)
LEMMA BeforeEquals ==
  ASSUME NEW h \in Handles, NEW n, NEW k \in Keys
  PROVE  /\ Before(h, n, k) = BeforeIn(undo[h], table[k], n, k)
         /\ Before(h, n, k)' = BeforeIn(undo'[h], table'[k], n, k)
BY DEF Before, BeforeIn, LaterIn

(* Changes are numbered from 1.                                            *)
LEMMA Numbered ==
  ASSUME NEW S, NEW u \in Seq(S)
  PROVE  /\ DOMAIN u = 1..Len(u) /\ Len(u) \in Nat
         /\ \A i \in DOMAIN u : u[i] \in S /\ i \in Nat /\ i <= Len(u) /\ i > 0
BY LenProperties, ElementOfSeq

(* A first part of a sequence.                                             *)
LEMMA Cut ==
  ASSUME NEW S, NEW u \in Seq(S), NEW n \in Nat, n <= Len(u)
  PROVE  /\ UpTo(u, n) \in Seq(S) /\ Len(UpTo(u, n)) = n /\ DOMAIN UpTo(u, n) = 1..n
         /\ \A i \in 1..n : i \in DOMAIN u /\ UpTo(u, n)[i] = u[i]
<1>1. /\ SubSeq(u, 1, n) \in Seq(S) /\ Len(SubSeq(u, 1, n)) = n
      /\ \A i \in 1..n : SubSeq(u, 1, n)[i] = u[i]
  BY SubSeqProperties, Numbered
<1>2. DOMAIN SubSeq(u, 1, n) = 1..n
  BY <1>1, LenProperties
<1> QED
  BY <1>1, <1>2, Numbered DEF UpTo

(* The row before is that of the first change after the n-th.              *)
LEMMA BeforeFirst ==
  ASSUME NEW u \in Seq(Undone), NEW row, NEW n \in Nat, NEW k, NEW i \in LaterIn(u, n, k),
         \A j \in LaterIn(u, n, k) : i <= j
  PROVE  BeforeIn(u, row, n, k) = u[i].row
<1> DEFINE c == CHOOSE a \in LaterIn(u, n, k) : \A j \in LaterIn(u, n, k) : a <= j
<1>1. c \in LaterIn(u, n, k) /\ \A j \in LaterIn(u, n, k) : c <= j
  OBVIOUS
<1>2. c \in Nat /\ i \in Nat
  BY <1>1, Numbered DEF LaterIn
<1>3. c = i
  BY <1>1, <1>2
<1> QED
  BY <1>3 DEF BeforeIn

(* What Before gives: the row, or a row of a change that is later.         *)
LEMMA BeforeIs ==
  ASSUME NEW u \in Seq(Undone), NEW row, NEW n \in Nat, NEW k
  PROVE  \/ LaterIn(u, n, k) = {} /\ BeforeIn(u, row, n, k) = row
         \/ \E i \in LaterIn(u, n, k) : /\ \A j \in LaterIn(u, n, k) : i <= j
                                        /\ BeforeIn(u, row, n, k) = u[i].row
<1>1. CASE LaterIn(u, n, k) = {}
  BY <1>1 DEF BeforeIn
<1>2. CASE LaterIn(u, n, k) # {}
  <2>1. LaterIn(u, n, k) \in SUBSET Nat
    BY Numbered DEF LaterIn
  <2>2. PICK i \in LaterIn(u, n, k) : \A j \in LaterIn(u, n, k) : i <= j
    BY <1>2, <2>1, Least
  <2> QED
    BY <2>2, BeforeFirst
<1> QED
  BY <1>1, <1>2

(* One more change takes nothing from what there was before.               *)
LEMMA BeforeAppend ==
  ASSUME NEW u \in Seq(Undone), NEW x \in Undone, NEW row, NEW n \in Nat, n <= Len(u), NEW k
  PROVE  BeforeIn(Append(u, x), row, n, k) = BeforeIn(u, IF x.key = k THEN x.row ELSE row, n, k)
<1> DEFINE v == Append(u, x)
           was == IF x.key = k THEN x.row ELSE row
<1>1. /\ v \in Seq(Undone) /\ Len(v) = Len(u) + 1 /\ v[Len(u) + 1] = x
      /\ \A i \in 1..Len(u) : v[i] = u[i]
  BY AppendProperties
<1>2. DOMAIN v = 1..(Len(u) + 1) /\ DOMAIN u = 1..Len(u) /\ Len(u) \in Nat
  BY <1>1, Numbered
<1> HIDE DEF v
<1>3. LaterIn(v, n, k) = LaterIn(u, n, k) \cup (IF x.key = k THEN {Len(u) + 1} ELSE {})
  BY <1>1, <1>2 DEF LaterIn
<1>4. CASE LaterIn(u, n, k) = {} /\ x.key = k
  <2>1. Len(u) + 1 \in LaterIn(v, n, k) /\ \A j \in LaterIn(v, n, k) : Len(u) + 1 <= j
    BY <1>2, <1>3, <1>4
  <2>2. BeforeIn(v, row, n, k) = x.row
    BY <1>1, <2>1, BeforeFirst
  <2>3. BeforeIn(u, was, n, k) = x.row
    BY <1>4 DEF BeforeIn
  <2> QED
    BY <2>2, <2>3 DEF v
<1>5. CASE LaterIn(u, n, k) = {} /\ x.key # k
  <2>1. LaterIn(v, n, k) = {}
    BY <1>3, <1>5
  <2> QED
    BY <1>5, <2>1 DEF BeforeIn, v
<1>6. CASE LaterIn(u, n, k) # {}
  <2>1. PICK i \in LaterIn(u, n, k) : (\A j \in LaterIn(u, n, k) : i <= j) /\ BeforeIn(u, was, n, k) = u[i].row
    BY <1>6, BeforeIs
  <2>2. i \in 1..Len(u)
    BY <1>2 DEF LaterIn
  <2>3. i \in LaterIn(v, n, k) /\ \A j \in LaterIn(v, n, k) : i <= j
    BY <1>2, <1>3, <2>1, <2>2
  <2>4. BeforeIn(v, row, n, k) = v[i].row
    BY <1>1, <2>3, BeforeFirst
  <2> QED
    BY <1>1, <2>1, <2>2, <2>4 DEF v
<1> QED
  BY <1>4, <1>5, <1>6

(* Going back to the m-th change and then to the n-th is going back to the *)
(* n-th.                                                                   *)
LEMMA BeforeCut ==
  ASSUME NEW u \in Seq(Undone), NEW row, NEW m \in Nat, m <= Len(u), NEW n \in Nat, n <= m, NEW k
  PROVE  BeforeIn(UpTo(u, m), BeforeIn(u, row, m, k), n, k) = BeforeIn(u, row, n, k)
<1> DEFINE v == UpTo(u, m)
           was == BeforeIn(u, row, m, k)
<1>1. v \in Seq(Undone) /\ DOMAIN v = 1..m /\ \A i \in 1..m : i \in DOMAIN u /\ v[i] = u[i]
  BY Cut
<1> HIDE DEF v
<1>2. DOMAIN u = 1..Len(u) /\ Len(u) \in Nat
  BY Numbered
<1>3. LaterIn(u, n, k) = LaterIn(v, n, k) \cup LaterIn(u, m, k)
  BY <1>1, <1>2 DEF LaterIn
<1>4. CASE LaterIn(v, n, k) = {}
  <2>1. LaterIn(u, n, k) = LaterIn(u, m, k)
    BY <1>3, <1>4
  <2>2. BeforeIn(v, was, n, k) = was
    BY <1>4 DEF BeforeIn
  <2> QED
    BY <2>1, <2>2 DEF BeforeIn, v
<1>5. CASE LaterIn(v, n, k) # {}
  <2>1. PICK i \in LaterIn(v, n, k) : (\A j \in LaterIn(v, n, k) : i <= j) /\ BeforeIn(v, was, n, k) = v[i].row
    BY <1>1, <1>5, BeforeIs
  <2>2. i \in 1..m /\ \A j \in LaterIn(u, m, k) : j > m /\ j \in Nat
    BY <1>1, <1>2 DEF LaterIn
  <2>3. i \in LaterIn(u, n, k) /\ \A j \in LaterIn(u, n, k) : i <= j
    BY <1>3, <2>1, <2>2
  <2>4. BeforeIn(u, row, n, k) = u[i].row
    BY <2>3, BeforeFirst
  <2> QED
    BY <1>1, <2>1, <2>2, <2>4 DEF v
<1> QED
  BY <1>4, <1>5

(* A row before is the row itself when the transaction did not change it,  *)
(* or one it keeps to restore.                                             *)
LEMMA BeforeOne ==
  ASSUME NEW u \in Seq(Undone), NEW row, NEW n \in Nat, NEW k
  PROVE  /\ (\A i \in DOMAIN u : u[i].key # k) => BeforeIn(u, row, n, k) = row
         /\ BeforeIn(u, row, n, k) = row \/ \E i \in DOMAIN u : u[i].key = k /\ BeforeIn(u, row, n, k) = u[i].row
<1>1. \A i \in LaterIn(u, n, k) : i \in DOMAIN u /\ u[i].key = k
  BY DEF LaterIn
<1> QED
  BY <1>1, BeforeIs

-----------------------------------------------------------------------------
(* Statements that change a row *)

(* What a change through e is made under.                                  *)
Under(e) == IF e = None THEN {} ELSE {e} \cup {points[e][i] : i \in DOMAIN points[e]}

(* The types of what a transaction changed, marked and named.              *)
LEMMA ChangesTyped ==
  ASSUME Typed, NEW h \in Handles
  PROVE  /\ undo[h] \in Seq(Undone) /\ DOMAIN undo[h] = 1..Len(undo[h]) /\ Len(undo[h]) \in Nat
         /\ \A i \in DOMAIN undo[h] : undo[h][i] \in Undone /\ i \in Nat /\ i > 0 /\ i <= Len(undo[h])
         /\ marks[h] \in Seq(Mark) /\ DOMAIN marks[h] = 1..Len(marks[h]) /\ Len(marks[h]) \in Nat
         /\ \A i \in DOMAIN marks[h] : marks[h][i] \in Mark
         /\ points[h] \in Seq(Nat) /\ DOMAIN points[h] = 1..Len(points[h]) /\ Len(points[h]) \in Nat
         /\ \A i \in DOMAIN points[h] : points[h][i] \in Nat
BY Numbered DEF Typed

(* Any row there is, or that may come back, and what it was changed under. *)
LEMMA RowsBefore ==
  ASSUME Typed, WritesKnown, NEW h \in Handles, NEW n \in Nat, NEW k \in Keys
  PROVE  Before(h, n, k) \in RowType /\ Before(h, n, k).write <= Len(tags)
<1>1. Before(h, n, k) = table[k] \/ \E i \in DOMAIN undo[h] : Before(h, n, k) = undo[h][i].row
  <2>1. Before(h, n, k) = BeforeIn(undo[h], table[k], n, k)
    BY BeforeEquals
  <2>2. undo[h] \in Seq(Undone)
    BY DEF Typed
  <2>3. PICK row : row = table[k]
    OBVIOUS
  <2>4. \/ BeforeIn(undo[h], row, n, k) = row
        \/ \E i \in DOMAIN undo[h] : BeforeIn(undo[h], row, n, k) = undo[h][i].row
    BY <2>2, BeforeOne
  <2> QED
    BY <2>1, <2>3, <2>4
<1>2. table[k] \in RowType /\ table[k].write <= Len(tags)
  BY DEF Typed, WritesKnown
<1>3. \A i \in DOMAIN undo[h] : undo[h][i].row \in RowType /\ undo[h][i].row.write <= Len(tags)
  BY ChangesTyped DEF Undone, WritesKnown
<1> QED
  BY <1>1, <1>2, <1>3

(* What rows were changed under is given out or named already.             *)
LEMMA TagsKnown ==
  ASSUME Typed, WritesKnown, NEW row \in RowType, row.write <= Len(tags), NEW t \in TagsOf(row)
  PROVE  (t \in Handles => state[t] # "new") /\ (t \in Nat => t <= named)
<1>1. row.write # 0 /\ row.write \in Nat /\ t \in tags[row.write]
  BY DEF TagsOf, RowType
<1>2. row.write \in DOMAIN tags
  BY <1>1, Numbered DEF Typed
<1> QED
  BY <1>1, <1>2 DEF WritesKnown

(* What Write does.                                                        *)
LEMMA WriteIs ==
  ASSUME HandlesApart, Typed, WritesKnown, NEW k \in Keys, NEW e \in Executors, e = None \/ Open(e),
         NEW row \in RowType, Write(k, e, row)
  PROVE  /\ tags' = Append(tags, Under(e)) /\ Len(tags') = Len(tags) + 1 /\ Len(tags) \in Nat
         /\ tags' \in Seq(SUBSET (Handles \cup Nat)) /\ DOMAIN tags' = DOMAIN tags \cup {Len(tags) + 1}
         /\ \A i \in DOMAIN tags : tags'[i] = tags[i]
         /\ tags'[Len(tags) + 1] = Under(e)
         /\ table' \in [Keys -> RowType] /\ table'[k].write = Len(tags) + 1
         /\ \A q \in Keys : q # k => table'[q] = table[q]
         /\ \A g \in Handles : undo'[g] = IF g = e THEN Append(undo[g], [key |-> k, row |-> table[k]]) ELSE undo[g]
         /\ undo' \in [Handles -> Seq(Undone)]
         /\ UNCHANGED <<state, marks, points, trans, named, undone>>
<1>1. /\ tags' = Append(tags, Under(e)) /\ table' = [table EXCEPT ![k] = [row EXCEPT !.write = Len(tags) + 1]]
      /\ undo' = IF e = None THEN undo ELSE [undo EXCEPT ![e] = Append(@, [key |-> k, row |-> table[k]])]
      /\ UNCHANGED <<state, marks, points, trans, named, undone>>
  BY DEF Write, Under, Change
<1>2. Under(e) \in SUBSET (Handles \cup Nat)
  BY ChangesTyped DEF Under, Executors
<1>3. /\ tags' \in Seq(SUBSET (Handles \cup Nat)) /\ Len(tags') = Len(tags) + 1
      /\ \A i \in 1..Len(tags) : tags'[i] = tags[i]
      /\ tags'[Len(tags) + 1] = Under(e)
  BY <1>1, <1>2, AppendProperties DEF Typed
<1>4. DOMAIN tags = 1..Len(tags) /\ Len(tags) \in Nat /\ DOMAIN tags' = 1..(Len(tags) + 1)
  BY <1>3, Numbered DEF Typed
<1>5. table' \in [Keys -> RowType] /\ table'[k].write = Len(tags) + 1 /\ \A q \in Keys : q # k => table'[q] = table[q]
  <2> DEFINE w == [row EXCEPT !.write = Len(tags) + 1]
  <2>1. w \in RowType /\ w.write = Len(tags) + 1
    BY <1>4 DEF RowType
  <2>2. table' = [table EXCEPT ![k] = w]
    BY <1>1
  <2> HIDE DEF w
  <2> QED
    BY <2>1, <2>2 DEF Typed
<1>6. [key |-> k, row |-> table[k]] \in Undone
  BY DEF Typed, Undone
<1>7. ASSUME e \in Handles PROVE Append(undo[e], [key |-> k, row |-> table[k]]) \in Seq(Undone)
  BY <1>6, <1>7, AppendProperties DEF Typed
<1>8. undo' \in [Handles -> Seq(Undone)]
        /\ \A g \in Handles : undo'[g] = IF g = e THEN Append(undo[g], [key |-> k, row |-> table[k]]) ELSE undo[g]
  BY <1>1, <1>7 DEF Typed, HandlesApart, Executors
<1> QED
  BY <1>1, <1>3, <1>4, <1>5, <1>8

(* The changes kept to be undone: the old ones, and the one of the write.  *)
LEMMA WriteUndo ==
  ASSUME HandlesApart, Typed, WritesKnown, NEW k \in Keys, NEW e \in Executors, e = None \/ Open(e),
         NEW row \in RowType, Write(k, e, row), NEW g \in Handles
  PROVE  /\ Len(undo[g]) <= Len(undo'[g])
         /\ \A i \in DOMAIN undo'[g] : \/ i \in DOMAIN undo[g] /\ undo'[g][i] = undo[g][i]
                                       \/ g = e /\ i > Len(undo[g]) /\ undo'[g][i] = [key |-> k, row |-> table[k]]
<1> DEFINE x == [key |-> k, row |-> table[k]]
<1>1. x \in Undone
  BY DEF Typed, Undone
<1>2. undo[g] \in Seq(Undone) /\ DOMAIN undo[g] = 1..Len(undo[g]) /\ Len(undo[g]) \in Nat
  BY ChangesTyped
<1>3. undo'[g] = IF g = e THEN Append(undo[g], x) ELSE undo[g]
  BY WriteIs
<1> HIDE DEF x
<1>4. CASE g = e
  <2>1. /\ Append(undo[g], x) \in Seq(Undone) /\ Len(Append(undo[g], x)) = Len(undo[g]) + 1
        /\ \A i \in 1..Len(undo[g]) : Append(undo[g], x)[i] = undo[g][i]
        /\ Append(undo[g], x)[Len(undo[g]) + 1] = x
    BY <1>1, <1>2, AppendProperties
  <2>2. DOMAIN Append(undo[g], x) = 1..(Len(undo[g]) + 1)
    BY <2>1, Numbered
  <2> QED
    BY <1>2, <1>3, <1>4, <2>1, <2>2 DEF x
<1>5. CASE g # e
  BY <1>2, <1>3, <1>5
<1> QED
  BY <1>4, <1>5

(* It does not change what older changes were made under.                  *)
LEMMA WriteTags ==
  ASSUME HandlesApart, Typed, WritesKnown, NEW k \in Keys, NEW e \in Executors, e = None \/ Open(e),
         NEW row \in RowType, Write(k, e, row)
  PROVE  /\ TagsOf(table[k])' = Under(e)
         /\ \A r \in RowType : r.write <= Len(tags) => TagsOf(r)' = TagsOf(r)
<1>1. TagsOf(table[k])' = Under(e)
  <2>1. table'[k].write = Len(tags) + 1 /\ tags'[Len(tags) + 1] = Under(e) /\ Len(tags) \in Nat
    BY WriteIs
  <2> QED
    BY <2>1 DEF TagsOf
<1>2. ASSUME NEW r \in RowType, r.write <= Len(tags) PROVE TagsOf(r)' = TagsOf(r)
  <2>1. r.write # 0 => r.write \in DOMAIN tags
    BY <1>2, Numbered DEF RowType, Typed
  <2>2. r.write # 0 => tags'[r.write] = tags[r.write]
    BY <2>1, WriteIs
  <2> QED
    BY <2>2 DEF TagsOf
<1> QED
  BY <1>1, <1>2

(* A row that others than e have changed is not written through e.         *)
LEMMA WriteLocked ==
  ASSUME HandlesApart, Typed, LocksApart, NEW k \in Keys, NEW e \in Executors, NEW row, Write(k, e, row),
         NEW g \in Handles, g # e
  PROVE  /\ \A i \in DOMAIN undo[g] : undo[g][i].key # k
         /\ \A n \in Nat : Before(g, n, k) = table[k]
<1>1. k \notin Changed(g)
  <2>1. CASE Open(g)
    BY <2>1 DEF Write, LockedBy
  <2>2. CASE ~Open(g)
    BY <2>2 DEF LocksApart, Changed
  <2> QED
    BY <2>1, <2>2
<1>2. \A i \in DOMAIN undo[g] : undo[g][i].key # k
  BY <1>1 DEF Changed
<1> QED
  BY <1>2, BeforeEquals, BeforeOne, ChangesTyped

(* What keeps Write from touching a row that must stay free of t.          *)
LEMMA WriteFree ==
  ASSUME HandlesApart, Typed, WritesKnown, LocksApart,
         NEW k \in Keys, NEW e \in Executors, e = None \/ Open(e), NEW row \in RowType, Write(k, e, row),
         NEW g \in Handles, NEW t, NEW n \in Nat, n <= Len(undo[g]), Free(g, t, n),
         e # g => t \notin Under(e)
  PROVE  Free(g, t, n)'
<1> DEFINE x == [key |-> k, row |-> table[k]]
<1>1. undo[g] \in Seq(Undone) /\ x \in Undone
  BY ChangesTyped DEF Typed, Undone
<1>2. ASSUME NEW q \in Keys PROVE t \notin TagsOf(Before(g, n, q))'
  <2>1. CASE Before(g, n, q)' = Before(g, n, q)
    <3>1. TagsOf(Before(g, n, q))' = TagsOf(Before(g, n, q))
      <4>1. PICK r \in RowType : r = Before(g, n, q) /\ r.write <= Len(tags)
        BY RowsBefore
      <4>2. TagsOf(r)' = TagsOf(r)
        BY <4>1, WriteTags
      <4> QED
        BY <2>1, <4>1, <4>2 DEF TagsOf
    <3> QED
      BY <3>1 DEF Free
  <2>2. CASE g = e
    <3>1. undo'[g] = Append(undo[g], x)
      BY <2>2, WriteIs
    <3>2. PICK w : w = table'[q]
      OBVIOUS
    <3>3. Before(g, n, q)' = BeforeIn(Append(undo[g], x), w, n, q)
      BY <3>1, <3>2, BeforeEquals
    <3>4. (IF x.key = q THEN x.row ELSE w) = table[q]
      BY <3>2, WriteIs
    <3> HIDE DEF x
    <3>5. BeforeIn(Append(undo[g], x), w, n, q) = BeforeIn(undo[g], IF x.key = q THEN x.row ELSE w, n, q)
      BY <1>1, BeforeAppend
    <3>6. Before(g, n, q)' = Before(g, n, q)
      BY <3>3, <3>4, <3>5, BeforeEquals
    <3> QED
      BY <2>1, <3>6
  <2>3. CASE g # e /\ q # k
    <3>1. undo'[g] = undo[g] /\ table'[q] = table[q]
      BY <2>3, WriteIs
    <3> QED
      BY <2>1, <3>1, BeforeEquals
  <2>4. CASE g # e /\ q = k
    <3>0. undo'[g] = undo[g]
      BY <2>4, WriteIs
    <3>1. \A i \in DOMAIN undo[g] : undo[g][i].key # k
      BY <2>4, WriteLocked
    <3>2. Before(g, n, q)' = table'[k]
      <4>1. PICK w : w = table'[k]
        OBVIOUS
      <4>2. BeforeIn(undo[g], w, n, k) = w
        BY <1>1, <3>1, BeforeOne
      <4> QED
        BY <2>4, <3>0, <4>1, <4>2, BeforeEquals
    <3>3. TagsOf(Before(g, n, q))' = Under(e)
      BY <3>2, WriteTags DEF TagsOf
    <3> QED
      BY <2>4, <3>3
  <2> QED
    BY <2>2, <2>3, <2>4
<1>3. ASSUME NEW f \in Handles, NEW i \in DOMAIN undo'[f], f # g \/ i <= n
      PROVE  t \notin TagsOf(undo[f][i].row)'
  <2>1. \/ i \in DOMAIN undo[f] /\ undo'[f][i] = undo[f][i]
        \/ f = e /\ i > Len(undo[f]) /\ undo'[f][i] = x
    BY WriteUndo
  <2>2. PICK r \in RowType : undo'[f][i].row = r /\ r.write <= Len(tags) /\ t \notin TagsOf(r)
    <3>1. CASE i \in DOMAIN undo[f] /\ undo'[f][i] = undo[f][i]
      BY <1>3, <3>1, ChangesTyped DEF Undone, WritesKnown, Free
    <3>2. CASE f = e /\ i > Len(undo[f]) /\ undo'[f][i] = x
      <4>1. f # g
        BY <1>3, <3>2, ChangesTyped, WriteUndo DEF Typed
      <4>2. Before(g, n, k) = table[k]
        BY <3>2, <4>1, WriteLocked
      <4> QED
        BY <3>2, <4>2, RowsBefore DEF Free
    <3> QED
      BY <2>1, <3>1, <3>2
  <2> QED
    BY <2>2, WriteTags DEF TagsOf
<1> QED
  BY <1>2, <1>3 DEF Free

(* A write leaves everything right: the new row is free of what others     *)
(* hold, and what it was changed under is not undone.                      *)
LEMMA WriteRight ==
  ASSUME HandlesApart, IndInv, NEW k \in Keys, NEW e \in Executors, e = None \/ Open(e),
         NEW row \in RowType, Write(k, e, row), held' \in [Models -> Struct \cup {None}]
  PROVE  IndInv'
<1> USE DEF IndInv
<1>0. /\ UNCHANGED <<state, marks, points, trans, named, undone>> /\ table' \in [Keys -> RowType]
      /\ tags' \in Seq(SUBSET (Handles \cup Nat)) /\ undo' \in [Handles -> Seq(Undone)]
      /\ Len(tags') = Len(tags) + 1 /\ Len(tags) \in Nat /\ DOMAIN tags' = DOMAIN tags \cup {Len(tags) + 1}
      /\ \A i \in DOMAIN tags : tags'[i] = tags[i]
      /\ tags'[Len(tags) + 1] = Under(e)
      /\ table'[k].write = Len(tags) + 1
      /\ \A q \in Keys : q # k => table'[q] = table[q]
  BY WriteIs
<1>1. Typed'
  BY <1>0 DEF Typed
<1>2. \A g \in Handles : Open(g)' = Open(g)
  BY <1>0 DEF Open
<1>3. ASSUME NEW g \in Handles, NEW i \in DOMAIN undo'[g]
      PROVE  \/ i \in DOMAIN undo[g] /\ undo'[g][i] = undo[g][i]
             \/ g = e /\ undo'[g][i].key = k /\ undo'[g][i].row = table[k]
  <2>1. \/ i \in DOMAIN undo[g] /\ undo'[g][i] = undo[g][i]
        \/ g = e /\ undo'[g][i] = [key |-> k, row |-> table[k]]
    BY WriteUndo
  <2> QED
    BY <2>1
<1>4. ASSUME NEW t \in Under(e)
      PROVE  (t \in Handles => state[t] = "open" /\ t = e) /\ (t \in Nat => t <= named /\ t \notin Handles) /\ t \notin undone
  <2>1. e # None /\ Open(e) /\ e \in Handles
    BY <1>4 DEF Under, Open
  <2>2. CASE t = e
    BY <2>1, <2>2 DEF Open, NamesApart, HandlesApart
  <2>3. CASE \E i \in DOMAIN points[e] : t = points[e][i]
    BY <2>1, <2>3, ChangesTyped DEF NamesApart, HandlesApart
  <2> QED
    BY <1>4, <2>1, <2>2, <2>3 DEF Under
<1>5. WritesKnown'
  <2>1. ASSUME NEW q \in Keys PROVE table'[q].write <= Len(tags')
    <3>1. CASE q = k
      BY <1>0, <3>1
    <3>2. CASE q # k
      <4>1. table[q].write <= Len(tags) /\ table[q].write \in Nat
        BY DEF WritesKnown, Typed, RowType
      <4> QED
        BY <1>0, <3>2, <4>1
    <3> QED
      BY <3>1, <3>2
  <2>2. ASSUME NEW g \in Handles, NEW i \in DOMAIN undo'[g] PROVE undo'[g][i].row.write <= Len(tags')
    <3>1. undo'[g][i].row.write <= Len(tags) /\ undo'[g][i].row.write \in Nat
      <4>1. CASE i \in DOMAIN undo[g] /\ undo'[g][i] = undo[g][i]
        BY <4>1, ChangesTyped DEF WritesKnown, RowType, Undone
      <4>2. CASE undo'[g][i].row = table[k]
        BY <4>2 DEF WritesKnown, Typed, RowType
      <4> QED
        BY <1>3, <4>1, <4>2
    <3> QED
      BY <1>0, <3>1
  <2>3. ASSUME NEW i \in DOMAIN tags', NEW t \in tags'[i]
        PROVE  (t \in Handles => state'[t] # "new") /\ (t \in Nat => t <= named')
    <3>1. CASE i \in DOMAIN tags
      BY <1>0, <2>3, <3>1 DEF WritesKnown
    <3>2. CASE i = Len(tags) + 1
      BY <1>0, <1>4, <2>3, <3>2
    <3> QED
      BY <1>0, <3>1, <3>2
  <2> QED
    BY <2>1, <2>2, <2>3 DEF WritesKnown
<1>6. NamesApart'
  BY <1>0 DEF NamesApart
<1>7. LocksApart'
  <2>1. ASSUME NEW g \in Handles, ~Open(g) PROVE undo'[g] = <<>> /\ marks'[g] = <<>>
    <3>1. g # e
      BY <2>1 DEF HandlesApart
    <3> QED
      BY <1>0, <2>1, <3>1, WriteIs DEF LocksApart
  <2>2. ASSUME NEW g \in Handles, NEW q \in Changed(g)' PROVE q \in Changed(g) \/ (g = e /\ q = k)
    <3>1. PICK i \in DOMAIN undo'[g] : q = undo'[g][i].key
      BY <2>2 DEF Changed
    <3> QED
      BY <1>3, <3>1 DEF Changed
  <2>3. ASSUME NEW g \in Handles, g # e PROVE k \notin Changed(g)
    BY <2>3, WriteLocked DEF Changed
  <2>4. ASSUME NEW g \in Handles, NEW h \in Handles, g # h, NEW q, q \in Changed(g)', q \in Changed(h)' PROVE FALSE
    <3>1. q \in Changed(g) \/ (g = e /\ q = k)
      BY <2>2, <2>4
    <3>2. q \in Changed(h) \/ (h = e /\ q = k)
      BY <2>2, <2>4
    <3>3. g # e => k \notin Changed(g)
      BY <2>3
    <3>4. h # e => k \notin Changed(h)
      BY <2>3
    <3> QED
      BY <2>4, <3>1, <3>2, <3>3, <3>4 DEF LocksApart
  <2>5. \A g, h \in Handles : g # h => Changed(g)' \cap Changed(h)' = {}
    BY <2>4
  <2> QED
    BY <1>2, <2>1, <2>5 DEF LocksApart
<1>8. MarksOrdered'
  <2>1. ASSUME NEW g \in Handles, NEW i \in DOMAIN marks[g] PROVE marks[g][i].at <= Len(undo'[g])
    <3>1. marks[g][i].at \in Nat /\ Len(undo[g]) \in Nat /\ Len(undo'[g]) \in Nat
      BY <1>0, ChangesTyped, Numbered DEF Mark
    <3>2. Len(undo[g]) <= Len(undo'[g])
      BY WriteUndo
    <3> QED
      BY <3>1, <3>2 DEF MarksOrdered
  <2> QED
    BY <1>0, <2>1 DEF MarksOrdered
<1>9. AllFree'
  <2> SUFFICES ASSUME NEW g \in Handles, Open(g)
               PROVE  Free(g, g, 0)' /\ \A i \in DOMAIN marks[g] : Free(g, marks[g][i].name, marks[g][i].at)'
    BY <1>0, <1>2 DEF AllFree, Free
  <2>1. Free(g, g, 0)'
    <3>1. e # g => g \notin Under(e)
      BY <1>4
    <3>2. Free(g, g, 0) /\ 0 <= Len(undo[g])
      BY ChangesTyped DEF AllFree
    <3> QED
      BY <3>1, <3>2, WriteFree
  <2>2. ASSUME NEW i \in DOMAIN marks[g] PROVE Free(g, marks[g][i].name, marks[g][i].at)'
    <3>1. PICK t \in Nat, n \in Nat : t = marks[g][i].name /\ n = marks[g][i].at
      BY ChangesTyped DEF Mark
    <3>2. Free(g, t, n) /\ n <= Len(undo[g])
      BY <3>1 DEF AllFree, MarksOrdered
    <3>3. e # g => t \notin Under(e)
      <4> SUFFICES ASSUME e # g, t \in Under(e) PROVE FALSE
        OBVIOUS
      <4>1. e # None /\ e \in Handles
        BY DEF Under, Executors
      <4>2. t # e
        BY <4>1 DEF HandlesApart
      <4>3. PICK j \in DOMAIN points[e] : t = points[e][j]
        BY <4>1, <4>2 DEF Under
      <4> QED
        BY <3>1, <4>1, <4>3 DEF NamesApart
    <3>4. Free(g, t, n)'
      BY <3>2, <3>3, WriteFree
    <3> QED
      BY <1>0, <3>1, <3>4 DEF Free
  <2> QED
    BY <2>1, <2>2
<1>10. Clean'
  <2>1. ASSUME NEW q \in Keys PROVE TagsOf(table[q])' \cap undone = {}
    <3>1. CASE q = k
      BY <1>4, <3>1, WriteTags
    <3>2. CASE q # k
      <4>1. PICK r \in RowType : r = table[q] /\ r.write <= Len(tags)
        BY DEF Typed, WritesKnown
      <4>2. TagsOf(r)' = TagsOf(r) /\ table'[q] = r
        BY <1>0, <3>2, <4>1, WriteTags
      <4>3. TagsOf(r) \cap undone = {}
        BY <4>1 DEF Clean
      <4> QED
        BY <4>2, <4>3 DEF TagsOf
    <3> QED
      BY <3>1, <3>2
  <2>2. ASSUME NEW g \in Handles, NEW i \in DOMAIN undo'[g] PROVE TagsOf(undo[g][i].row)' \cap undone = {}
    <3>1. PICK r \in RowType : undo'[g][i].row = r /\ r.write <= Len(tags) /\ TagsOf(r) \cap undone = {}
      BY <1>3, ChangesTyped DEF Typed, Undone, WritesKnown, Clean
    <3>2. TagsOf(r)' = TagsOf(r)
      BY <3>1, WriteTags
    <3> QED
      BY <3>1, <3>2 DEF TagsOf
  <2> QED
    BY <1>0, <2>1, <2>2 DEF Clean
<1> QED
  BY <1>1, <1>5, <1>6, <1>7, <1>8, <1>9, <1>10

-----------------------------------------------------------------------------
(* Going back *)

(* The changes of h up to the n-th.                                        *)
LEMMA UndoCut ==
  ASSUME Typed, NEW h \in Handles, NEW n \in Nat, n <= Len(undo[h])
  PROVE  /\ UpTo(undo[h], n) \in Seq(Undone) /\ Len(UpTo(undo[h], n)) = n /\ DOMAIN UpTo(undo[h], n) = 1..n
         /\ \A i \in 1..n : i \in DOMAIN undo[h] /\ UpTo(undo[h], n)[i] = undo[h][i] /\ i <= n
<1>1. undo[h] \in Seq(Undone)
  BY DEF Typed
<1>2. /\ UpTo(undo[h], n) \in Seq(Undone) /\ Len(UpTo(undo[h], n)) = n /\ DOMAIN UpTo(undo[h], n) = 1..n
      /\ \A i \in 1..n : i \in DOMAIN undo[h] /\ UpTo(undo[h], n)[i] = undo[h][i]
  BY <1>1, Cut
<1> QED
  BY <1>2

(* The row of k in sequences of changes u, and before the n-th change of h.*)
LEMMA BeforeRow ==
  ASSUME Typed, NEW h \in Handles, NEW n \in Nat, NEW k \in Keys
  PROVE  /\ k \notin Changed(h) => Before(h, n, k) = table[k]
         /\ \A w : k \notin Changed(h) => BeforeIn(undo[h], w, n, k) = w
         /\ Before(h, n, k) = table[k] \/ \E i \in DOMAIN undo[h] : Before(h, n, k) = undo[h][i].row
<1>1. undo[h] \in Seq(Undone)
  BY DEF Typed
<1>2. Before(h, n, k) = BeforeIn(undo[h], table[k], n, k)
  BY BeforeEquals
<1>3. k \notin Changed(h) => \A i \in DOMAIN undo[h] : undo[h][i].key # k
  BY DEF Changed
<1>4. ASSUME NEW w, k \notin Changed(h) PROVE BeforeIn(undo[h], w, n, k) = w
  BY <1>1, <1>3, <1>4, BeforeOne
<1>5. BeforeIn(undo[h], table[k], n, k) = table[k] \/ \E i \in DOMAIN undo[h] : BeforeIn(undo[h], table[k], n, k) = undo[h][i].row
  BY <1>1, BeforeOne
<1> QED
  BY <1>2, <1>4, <1>5

(* When h goes back to its n-th change, what others hold stays free of     *)
(* what it was free of, and so does what h still holds.                    *)
LEMMA BackFree ==
  ASSUME Typed, LocksApart, NEW h \in Handles, NEW n \in Nat, n <= Len(undo[h]),
         table' = [k \in Keys |-> Before(h, n, k)], tags' = tags, undo'[h] = UpTo(undo[h], n),
         \A f \in Handles : f # h => undo'[f] = undo[f],
         NEW g \in Handles, NEW t, NEW m \in Nat, g = h => m <= n, Free(g, t, m)
  PROVE  Free(g, t, m)'
<1>1. DOMAIN undo'[h] = 1..n /\ \A i \in 1..n : i \in DOMAIN undo[h] /\ undo'[h][i] = undo[h][i]
  BY UndoCut
<1>2. ASSUME NEW q \in Keys PROVE t \notin TagsOf(Before(g, m, q))'
  <2>0. table'[q] = Before(h, n, q)
    OBVIOUS
  <2>1. CASE Before(g, m, q)' = Before(g, m, q)
    BY <2>1 DEF Free, TagsOf
  <2>2. CASE g = h
    <3>1. Before(h, m, q)' = BeforeIn(UpTo(undo[h], n), BeforeIn(undo[h], table[q], n, q), m, q)
      BY <2>0, BeforeEquals
    <3>2. Before(h, m, q)' = BeforeIn(undo[h], table[q], m, q)
      BY <2>2, <3>1, ChangesTyped, BeforeCut
    <3> QED
      BY <2>1, <2>2, <3>2, BeforeEquals
  <2>3. CASE g # h /\ q \notin Changed(h)
    <3>1. table'[q] = table[q]
      BY <2>0, <2>3, BeforeRow
    <3> QED
      BY <2>1, <2>3, <3>1, BeforeEquals
  <2>4. CASE g # h /\ q \in Changed(h)
    <3>1. q \notin Changed(g)
      BY <2>4 DEF LocksApart
    <3>2. PICK w : w = table'[q]
      OBVIOUS
    <3>3. BeforeIn(undo[g], w, m, q) = w /\ BeforeIn(undo[g], table[q], m, q) = table[q]
      BY <3>1, BeforeRow
    <3>4. Before(g, m, q)' = w /\ Before(g, m, q) = table[q]
      BY <2>4, <3>2, <3>3, BeforeEquals
    <3>5. w = table[q] \/ \E i \in DOMAIN undo[h] : w = undo[h][i].row
      BY <2>0, <3>2, BeforeRow
    <3>6. t \notin TagsOf(w)
      BY <2>4, <3>4, <3>5 DEF Free
    <3> QED
      BY <3>4, <3>6 DEF TagsOf
  <2> QED
    BY <2>2, <2>3, <2>4
<1>3. ASSUME NEW f \in Handles, NEW i \in DOMAIN undo'[f], f # g \/ i <= m
      PROVE  t \notin TagsOf(undo[f][i].row)'
  <2>1. i \in DOMAIN undo[f] /\ undo'[f][i] = undo[f][i]
    BY <1>1
  <2>2. t \notin TagsOf(undo[f][i].row)
    BY <1>3, <2>1 DEF Free
  <2> QED
    BY <2>1, <2>2 DEF TagsOf
<1> QED
  BY <1>2, <1>3 DEF Free

(* What it took back is gone then, if what it left was free of it.         *)
LEMMA BackClean ==
  ASSUME Typed, Clean, NEW h \in Handles, NEW n \in Nat, n <= Len(undo[h]),
         table' = [k \in Keys |-> Before(h, n, k)], tags' = tags, undo'[h] = UpTo(undo[h], n),
         \A f \in Handles : f # h => undo'[f] = undo[f],
         NEW t, Free(h, t, n), undone' = undone \cup {t}
  PROVE  Clean'
<1>1. DOMAIN undo'[h] = 1..n /\ \A i \in 1..n : i \in DOMAIN undo[h] /\ undo'[h][i] = undo[h][i] /\ i <= n
  BY UndoCut
<1>2. ASSUME NEW q \in Keys PROVE TagsOf(table[q])' \cap undone' = {}
  <2>1. table'[q] = Before(h, n, q) /\ t \notin TagsOf(Before(h, n, q))
    BY DEF Free
  <2>2. TagsOf(table[q])' = TagsOf(Before(h, n, q))
    BY <2>1 DEF TagsOf
  <2>3. Before(h, n, q) = table[q] \/ \E i \in DOMAIN undo[h] : Before(h, n, q) = undo[h][i].row
    BY BeforeRow
  <2>4. TagsOf(Before(h, n, q)) \cap undone = {}
    BY <2>3 DEF Clean
  <2> QED
    BY <2>1, <2>2, <2>4
<1>3. ASSUME NEW f \in Handles, NEW i \in DOMAIN undo'[f] PROVE TagsOf(undo[f][i].row)' \cap undone' = {}
  <2>1. i \in DOMAIN undo[f] /\ undo'[f][i] = undo[f][i] /\ (f # h \/ i <= n)
    BY <1>1
  <2>2. TagsOf(undo[f][i].row)' = TagsOf(undo[f][i].row)
    BY <2>1 DEF TagsOf
  <2> QED
    BY <2>1, <2>2 DEF Clean, Free
<1> QED
  BY <1>2, <1>3 DEF Clean

(* Fewer changes to undo, and no other rows.                               *)
LEMMA BackKnown ==
  ASSUME Typed, WritesKnown, NEW h \in Handles, NEW n \in Nat, n <= Len(undo[h]),
         table' = [k \in Keys |-> Before(h, n, k)], undo' = [undo EXCEPT ![h] = UpTo(@, n)],
         UNCHANGED <<tags, named>>, \A g \in Handles : state[g] # "new" => state'[g] # "new"
  PROVE  /\ table' \in [Keys -> RowType] /\ undo' \in [Handles -> Seq(Undone)]
         /\ Len(undo'[h]) = n
         /\ \A g \in Handles : Changed(g)' \subseteq Changed(g)
         /\ WritesKnown'
<1>1. /\ UpTo(undo[h], n) \in Seq(Undone) /\ Len(UpTo(undo[h], n)) = n /\ DOMAIN UpTo(undo[h], n) = 1..n
      /\ \A i \in 1..n : i \in DOMAIN undo[h] /\ UpTo(undo[h], n)[i] = undo[h][i]
  BY UndoCut
<1>2. undo'[h] = UpTo(undo[h], n) /\ undo' \in [Handles -> Seq(Undone)] /\ \A g \in Handles : g # h => undo'[g] = undo[g]
  BY <1>1 DEF Typed
<1>3. ASSUME NEW g \in Handles, NEW i \in DOMAIN undo'[g] PROVE i \in DOMAIN undo[g] /\ undo'[g][i] = undo[g][i]
  BY <1>1, <1>2
<1>4. \A k \in Keys : table'[k] \in RowType /\ table'[k].write <= Len(tags)
  BY RowsBefore
<1>5. table' \in [Keys -> RowType]
  BY <1>4
<1>6. \A g \in Handles : Changed(g)' \subseteq Changed(g)
  BY <1>3 DEF Changed
<1>7. \A g \in Handles : \A i \in DOMAIN undo'[g] : undo'[g][i].row.write <= Len(tags)
  BY <1>3 DEF WritesKnown
<1>8. WritesKnown'
  BY <1>4, <1>7 DEF WritesKnown
<1> QED
  BY <1>1, <1>2, <1>5, <1>6, <1>8

-----------------------------------------------------------------------------
(* Transactions and savepoints *)

(* Nothing but savepoints, structs and transactions in use changes.        *)
LEMMA FreeStays ==
  ASSUME UNCHANGED <<table, undo, tags>>, NEW g \in Handles, NEW t, NEW n, Free(g, t, n)
  PROVE  Free(g, t, n)'
<1>1. \A k \in Keys : Before(g, n, k)' = Before(g, n, k)
  BY BeforeEquals
<1>2. \A k \in Keys : t \notin TagsOf(Before(g, n, k))'
  BY <1>1 DEF Free, TagsOf
<1>3. \A f \in Handles : \A i \in DOMAIN undo'[f] : f # g \/ i <= n => t \notin TagsOf(undo[f][i].row)'
  BY DEF Free, TagsOf
<1> QED
  BY <1>2, <1>3 DEF Free

(* A step that leaves rows and rollbacks alone leaves them clean.          *)
LEMMA CleanStays ==
  ASSUME UNCHANGED <<table, undo, tags, undone>>, Clean
  PROVE  Clean'
BY DEF Clean, TagsOf

(* A step that leaves rows and marks alone keeps them apart and free.      *)
LEMMA RowsStay ==
  ASSUME UNCHANGED <<table, undo, tags, state, marks>>, LocksApart, AllFree
  PROVE  LocksApart' /\ AllFree'
<1>1. \A g \in Handles : Changed(g)' = Changed(g) /\ (Open(g)' => Open(g)) /\ (~Open(g)' => ~Open(g))
  BY DEF Changed, Open
<1>2. LocksApart'
  BY <1>1 DEF LocksApart
<1>3. AllFree'
  <2> SUFFICES ASSUME NEW g \in Handles, Open(g)
               PROVE  Free(g, g, 0)' /\ \A i \in DOMAIN marks[g] : Free(g, marks[g][i].name, marks[g][i].at)'
    BY <1>1 DEF AllFree
  <2>1. Free(g, g, 0)'
    BY FreeStays DEF AllFree
  <2>2. ASSUME NEW i \in DOMAIN marks[g] PROVE Free(g, marks[g][i].name, marks[g][i].at)'
    <3>1. PICK t, n : t = marks[g][i].name /\ n = marks[g][i].at
      OBVIOUS
    <3>2. Free(g, t, n)'
      BY <3>1, FreeStays DEF AllFree
    <3> QED
      BY <3>1, <3>2 DEF Free
  <2> QED
    BY <2>1, <2>2
<1> QED
  BY <1>2, <1>3

(* A savepoint has a name of its own, under which nothing was changed yet. *)
LEMMA SavepointRight ==
  ASSUME HandlesApart, IndInv, NEW h \in Handles, Open(h), Savepoint(h), trans' \in [Models -> Executors]
  PROVE  IndInv'
<1> USE DEF IndInv
<1> DEFINE s == named + 1
           mark == [name |-> s, at |-> Len(undo[h])]
<1>0. /\ named' = s /\ points' = [points EXCEPT ![h] = Append(@, s)] /\ s \in Nat
      /\ marks' = [marks EXCEPT ![h] = Append(@, mark)] \/ marks' = marks
      /\ UNCHANGED <<table, state, undo, held, tags, undone>>
  BY DEF Savepoint, Typed
<1>1. mark \in Mark /\ mark.name = s /\ mark.at = Len(undo[h])
  BY <1>0, ChangesTyped DEF Mark
<1> HIDE DEF mark
<1>2. /\ Append(points[h], s) \in Seq(Nat) /\ DOMAIN Append(points[h], s) = DOMAIN points[h] \cup {Len(points[h]) + 1}
      /\ \A i \in DOMAIN points[h] : Append(points[h], s)[i] = points[h][i] /\ i # Len(points[h]) + 1
      /\ Append(points[h], s)[Len(points[h]) + 1] = s
  <2>1. points[h] \in Seq(Nat) /\ DOMAIN points[h] = 1..Len(points[h]) /\ Len(points[h]) \in Nat
    BY ChangesTyped
  <2>2. /\ Append(points[h], s) \in Seq(Nat) /\ Len(Append(points[h], s)) = Len(points[h]) + 1
        /\ \A i \in 1..Len(points[h]) : Append(points[h], s)[i] = points[h][i]
        /\ Append(points[h], s)[Len(points[h]) + 1] = s
    BY <1>0, <2>1, AppendProperties
  <2>3. DOMAIN Append(points[h], s) = 1..(Len(points[h]) + 1)
    BY <2>2, Numbered
  <2> QED
    BY <2>1, <2>2, <2>3
<1>3. /\ Append(marks[h], mark) \in Seq(Mark) /\ DOMAIN Append(marks[h], mark) = DOMAIN marks[h] \cup {Len(marks[h]) + 1}
      /\ \A i \in DOMAIN marks[h] : Append(marks[h], mark)[i] = marks[h][i] /\ i < Len(marks[h]) + 1
      /\ Append(marks[h], mark)[Len(marks[h]) + 1] = mark /\ Len(marks[h]) \in Nat
  <2>1. marks[h] \in Seq(Mark) /\ DOMAIN marks[h] = 1..Len(marks[h]) /\ Len(marks[h]) \in Nat
    BY ChangesTyped
  <2>2. /\ Append(marks[h], mark) \in Seq(Mark) /\ Len(Append(marks[h], mark)) = Len(marks[h]) + 1
        /\ \A i \in 1..Len(marks[h]) : Append(marks[h], mark)[i] = marks[h][i]
        /\ Append(marks[h], mark)[Len(marks[h]) + 1] = mark
    BY <1>1, <2>1, AppendProperties
  <2>3. DOMAIN Append(marks[h], mark) = 1..(Len(marks[h]) + 1)
    BY <2>2, Numbered
  <2> QED
    BY <2>1, <2>2, <2>3
<1>4. Typed'
  BY <1>0, <1>2, <1>3 DEF Typed
(* The savepoints and marks there are: the old ones, and s.                *)
<1>5. ASSUME NEW g \in Handles, NEW i \in DOMAIN points'[g]
      PROVE  \/ i \in DOMAIN points[g] /\ points'[g][i] = points[g][i]
             \/ g = h /\ i = Len(points[h]) + 1 /\ points'[g][i] = s
  BY <1>0, <1>2 DEF Typed
<1>6. ASSUME NEW g \in Handles, NEW i \in DOMAIN marks'[g]
      PROVE  \/ i \in DOMAIN marks[g] /\ marks'[g][i] = marks[g][i]
             \/ g = h /\ i = Len(marks[h]) + 1 /\ marks'[g][i] = mark
  BY <1>0, <1>3 DEF Typed
<1>7. named \in Nat /\ (\A g \in Handles : \A i \in DOMAIN points[g] : points[g][i] # s)
      /\ \A g \in Handles : \A i \in DOMAIN marks[g] : marks[g][i].name # s
  <2>1. named \in Nat
    BY DEF Typed
  <2>2. ASSUME NEW g \in Handles, NEW i \in DOMAIN points[g] PROVE points[g][i] # s
    BY <2>1, ChangesTyped DEF NamesApart
  <2>3. ASSUME NEW g \in Handles, NEW i \in DOMAIN marks[g] PROVE marks[g][i].name # s
    BY <2>1, ChangesTyped DEF NamesApart, Mark
  <2> QED
    BY <2>1, <2>2, <2>3
<1>8. WritesKnown'
  BY <1>0, <1>7 DEF WritesKnown
<1>9. NamesApart'
  <2>a. \A f, g \in Handles : \A i \in DOMAIN points[f], j \in DOMAIN points[g] : points[f][i] = points[g][j] => f = g /\ i = j
    BY DEF NamesApart
  <2>b. \A f, g \in Handles : \A i \in DOMAIN points[f], j \in DOMAIN marks[g] : points[f][i] = marks[g][j].name => f = g
    BY DEF NamesApart
  <2>1. ASSUME NEW t \in undone PROVE (t \in Handles => state[t] = "ended") /\ (t \in Nat => t <= s /\ t # s)
    BY <1>7 DEF NamesApart
  <2>2. ASSUME NEW g \in Handles, NEW i \in DOMAIN points'[g] PROVE points'[g][i] <= s /\ points'[g][i] \notin undone
    <3>1. CASE i \in DOMAIN points[g] /\ points'[g][i] = points[g][i]
      BY <1>7, <3>1, ChangesTyped DEF NamesApart
    <3>2. CASE points'[g][i] = s
      BY <1>0, <1>7, <2>1, <3>2
    <3> QED
      BY <1>5, <3>1, <3>2
  <2>3. ASSUME NEW f \in Handles, NEW g \in Handles, NEW i \in DOMAIN points'[f], NEW j \in DOMAIN points'[g],
               points'[f][i] = points'[g][j]
        PROVE  f = g /\ i = j
    <3>1. CASE i \in DOMAIN points[f] /\ points'[f][i] = points[f][i] /\ j \in DOMAIN points[g] /\ points'[g][j] = points[g][j]
      <4>1. points[f][i] = points[g][j]
        BY <2>3, <3>1
      <4> QED
        BY <2>a, <3>1, <4>1
    <3>2. CASE points'[f][i] = s
      <4>1. f = h /\ i = Len(points[h]) + 1
        BY <1>5, <1>7, <3>2
      <4>2. g = h /\ j = Len(points[h]) + 1
        BY <1>5, <1>7, <2>3, <3>2
      <4> QED
        BY <4>1, <4>2
    <3>3. CASE points'[g][j] = s
      <4>1. points'[f][i] = s
        BY <2>3, <3>3
      <4> QED
        BY <3>2, <4>1
    <3> QED
      BY <1>5, <3>1, <3>2, <3>3
  <2>4. ASSUME NEW g \in Handles, NEW i \in DOMAIN marks'[g] PROVE marks'[g][i].name <= s
    <3>1. CASE i \in DOMAIN marks[g] /\ marks'[g][i] = marks[g][i]
      BY <1>7, <3>1, ChangesTyped DEF NamesApart, Mark
    <3>2. CASE marks'[g][i] = mark
      BY <1>0, <1>1, <3>2
    <3> QED
      BY <1>6, <3>1, <3>2
  <2>5. ASSUME NEW f \in Handles, NEW g \in Handles, NEW i \in DOMAIN points'[f], NEW j \in DOMAIN marks'[g],
               points'[f][i] = marks'[g][j].name
        PROVE  f = g
    <3>1. CASE i \in DOMAIN points[f] /\ points'[f][i] = points[f][i]
      <4>1. CASE j \in DOMAIN marks[g] /\ marks'[g][j] = marks[g][j]
        <5>1. points[f][i] = marks[g][j].name
          BY <2>5, <3>1, <4>1
        <5> QED
          BY <2>b, <3>1, <4>1, <5>1
      <4>2. CASE marks'[g][j] = mark
        BY <1>1, <1>7, <2>5, <3>1, <4>2
      <4> QED
        BY <1>6, <4>1, <4>2
    <3>2. CASE f = h /\ points'[f][i] = s
      <4>1. CASE j \in DOMAIN marks[g] /\ marks'[g][j] = marks[g][j]
        BY <1>7, <2>5, <3>2, <4>1
      <4> QED
        BY <1>6, <3>2, <4>1
    <3> QED
      BY <1>5, <3>1, <3>2
  <2> QED
    BY <1>0, <2>1, <2>2, <2>3, <2>4, <2>5 DEF NamesApart
<1>10. LocksApart'
  <2>1. \A g \in Handles : ~Open(g) => undo[g] = <<>> /\ marks'[g] = <<>>
    BY <1>0 DEF LocksApart, Typed
  <2>2. \A g \in Handles : Changed(g)' = Changed(g) /\ Open(g)' = Open(g)
    BY <1>0 DEF Changed, Open
  <2>3. \A f, g \in Handles : f # g => Changed(f)' \cap Changed(g)' = {}
    BY <2>2 DEF LocksApart
  <2>4. \A g \in Handles : ~Open(g)' => undo'[g] = <<>> /\ marks'[g] = <<>>
    BY <1>0, <2>1, <2>2
  <2> QED
    BY <2>3, <2>4 DEF LocksApart
<1>11. MarksOrdered'
  <2>1. ASSUME NEW g \in Handles, NEW i \in DOMAIN marks'[g] PROVE marks'[g][i].at <= Len(undo[g])
    <3>1. CASE i \in DOMAIN marks[g] /\ marks'[g][i] = marks[g][i]
      BY <3>1 DEF MarksOrdered
    <3>2. CASE g = h /\ marks'[g][i] = mark
      BY <1>1, <3>2, ChangesTyped
    <3> QED
      BY <1>6, <3>1, <3>2
  <2>2. ASSUME NEW g \in Handles, NEW i \in DOMAIN marks'[g], NEW j \in DOMAIN marks'[g], i <= j
        PROVE  marks'[g][i].at <= marks'[g][j].at
    <3>1. CASE j \in DOMAIN marks[g] /\ marks'[g][j] = marks[g][j]
      <4>1. i \in DOMAIN marks[g] /\ marks'[g][i] = marks[g][i]
        BY <1>3, <1>6, <2>2, <3>1, ChangesTyped
      <4> QED
        BY <2>2, <3>1, <4>1 DEF MarksOrdered
    <3>2. CASE g = h /\ marks'[g][j] = mark
      BY <1>1, <2>1, <3>2
    <3> QED
      BY <1>6, <3>1, <3>2
  <2> QED
    BY <1>0, <2>1, <2>2 DEF MarksOrdered
<1>12. Free(h, s, Len(undo[h]))
  <2>1. ASSUME NEW row \in RowType, row.write <= Len(tags) PROVE s \notin TagsOf(row)
    BY <1>0, <1>7, <2>1, TagsKnown
  <2>2. \A k \in Keys : s \notin TagsOf(Before(h, Len(undo[h]), k))
    BY <2>1, RowsBefore, ChangesTyped
  <2>3. \A g \in Handles : \A i \in DOMAIN undo[g] : s \notin TagsOf(undo[g][i].row)
    BY <2>1, ChangesTyped DEF WritesKnown, Undone
  <2> QED
    BY <2>2, <2>3 DEF Free
<1>13. AllFree'
  <2> SUFFICES ASSUME NEW g \in Handles, Open(g)
               PROVE  Free(g, g, 0)' /\ \A i \in DOMAIN marks'[g] : Free(g, marks[g][i].name, marks[g][i].at)'
    BY <1>0 DEF AllFree, Open
  <2>1. Free(g, g, 0)'
    BY <1>0, FreeStays DEF AllFree
  <2>2. ASSUME NEW i \in DOMAIN marks'[g] PROVE Free(g, marks[g][i].name, marks[g][i].at)'
    <3>1. PICK t, n : t = marks'[g][i].name /\ n = marks'[g][i].at
      OBVIOUS
    <3>2. Free(g, t, n)
      <4>1. CASE i \in DOMAIN marks[g] /\ marks'[g][i] = marks[g][i]
        BY <3>1, <4>1 DEF AllFree
      <4>2. CASE g = h /\ marks'[g][i] = mark
        BY <1>1, <1>12, <3>1, <4>2
      <4> QED
        BY <1>6, <4>1, <4>2
    <3>3. Free(g, t, n)'
      BY <1>0, <3>2, FreeStays
    <3> QED
      BY <3>1, <3>3 DEF Free
  <2> QED
    BY <2>1, <2>2
<1> QED
  BY <1>0, <1>4, <1>8, <1>9, <1>10, <1>11, <1>13, CleanStays

(* A transaction begins with nothing changed under it.                     *)
LEMMA BeginRight ==
  ASSUME HandlesApart, IndInv, NEW m \in Models, NEW h \in Handles, Begin(m, h)
  PROVE  IndInv'
<1> USE DEF IndInv
<1>0. /\ state[h] = "new" /\ state' = [state EXCEPT ![h] = "open"] /\ trans' = [trans EXCEPT ![m] = h]
      /\ UNCHANGED <<table, undo, marks, points, held, tags, named, undone>>
  BY DEF Begin, history
<1>1. Typed'
  BY <1>0 DEF Typed, Executors
<1>2. \A g \in Handles : Open(g)' = (Open(g) \/ g = h)
  BY <1>0 DEF Open, Typed
<1>3. WritesKnown'
  BY <1>0 DEF WritesKnown, Typed
<1>4. NamesApart'
  <2>1. ASSUME NEW t \in undone PROVE (t \in Handles => state'[t] = "ended") /\ (t \in Nat => t <= named)
    BY <1>0 DEF NamesApart, Typed
  <2> QED
    BY <1>0, <2>1 DEF NamesApart
<1>5. LocksApart'
  <2>1. \A g \in Handles : Changed(g)' = Changed(g)
    BY <1>0 DEF Changed
  <2> QED
    BY <1>0, <1>2, <2>1 DEF LocksApart
<1>6. MarksOrdered'
  BY <1>0 DEF MarksOrdered
<1>7. undo[h] = <<>> /\ marks[h] = <<>> /\ ~Open(h)
  BY <1>0 DEF LocksApart, Open
<1>8. Free(h, h, 0)
  <2>1. ASSUME NEW row \in RowType, row.write <= Len(tags) PROVE h \notin TagsOf(row)
    BY <1>0, <2>1, TagsKnown
  <2>2. \A k \in Keys : h \notin TagsOf(Before(h, 0, k))
    BY <2>1, RowsBefore
  <2>3. \A g \in Handles : \A i \in DOMAIN undo[g] : h \notin TagsOf(undo[g][i].row)
    BY <2>1, ChangesTyped DEF WritesKnown, Undone
  <2> QED
    BY <2>2, <2>3 DEF Free
<1>9. AllFree'
  <2> SUFFICES ASSUME NEW g \in Handles, Open(g) \/ g = h
               PROVE  Free(g, g, 0)' /\ \A i \in DOMAIN marks[g] : Free(g, marks[g][i].name, marks[g][i].at)'
    BY <1>0, <1>2 DEF AllFree
  <2>1. Free(g, g, 0)'
    BY <1>0, <1>8, FreeStays DEF AllFree
  <2>2. ASSUME NEW i \in DOMAIN marks[g] PROVE Free(g, marks[g][i].name, marks[g][i].at)'
    <3>1. PICK t, n : t = marks[g][i].name /\ n = marks[g][i].at
      OBVIOUS
    <3>2. Open(g)
      BY <1>7
    <3>3. Free(g, t, n)
      BY <3>1, <3>2 DEF AllFree
    <3>4. Free(g, t, n)'
      BY <1>0, <3>3, FreeStays
    <3> QED
      BY <1>0, <3>1, <3>4 DEF Free
  <2> QED
    BY <2>1, <2>2
<1> QED
  BY <1>0, <1>1, <1>3, <1>4, <1>5, <1>6, <1>9, CleanStays

(* Marks that are among those there were stay free and in order.           *)
LEMMA FewerMarks ==
  ASSUME Typed, MarksOrdered, NEW h \in Handles, NEW n \in Nat, n <= Len(marks[h]),
         marks' = [marks EXCEPT ![h] = UpTo(@, n)]
  PROVE  /\ marks' \in [Handles -> Seq(Mark)]
         /\ \A g \in Handles : \A i \in DOMAIN marks'[g] :
              i \in DOMAIN marks[g] /\ marks'[g][i] = marks[g][i] /\ (g = h => i <= n)
         /\ \A g \in Handles : marks[g] = <<>> => marks'[g] = <<>>
<1>1. marks[h] \in Seq(Mark) /\ marks \in [Handles -> Seq(Mark)]
  BY DEF Typed
<1>2. /\ UpTo(marks[h], n) \in Seq(Mark) /\ DOMAIN UpTo(marks[h], n) = 1..n /\ Len(UpTo(marks[h], n)) = n
      /\ \A i \in 1..n : i \in DOMAIN marks[h] /\ UpTo(marks[h], n)[i] = marks[h][i]
  BY <1>1, Cut
<1>3. marks'[h] = UpTo(marks[h], n) /\ \A g \in Handles : g # h => marks'[g] = marks[g]
  BY <1>1
<1>4. marks[h] = <<>> => marks'[h] = <<>>
  BY <1>1, <1>2, <1>3, EmptySeq
<1> QED
  BY <1>1, <1>2, <1>3, <1>4

(* The savepoint on top goes off the stack.                                *)
LEMMA Popped ==
  ASSUME Typed, NEW h \in Handles, points[h] # <<>>, points' = [points EXCEPT ![h] = Pop(@)]
  PROVE  /\ points' \in [Handles -> Seq(Nat)] /\ Len(points[h]) \in DOMAIN points[h] /\ Top(points[h]) = points[h][Len(points[h])]
         /\ \A g \in Handles : \A i \in DOMAIN points'[g] :
              i \in DOMAIN points[g] /\ points'[g][i] = points[g][i] /\ (g = h => i # Len(points[h]))
<1>1. points[h] \in Seq(Nat) /\ DOMAIN points[h] = 1..Len(points[h]) /\ Len(points[h]) \in Nat /\ Len(points[h]) # 0
  BY ChangesTyped, EmptySeq
<1>2. Len(points[h]) - 1 \in Nat
  BY <1>1
<1>3. /\ Pop(points[h]) \in Seq(Nat) /\ DOMAIN Pop(points[h]) = 1..(Len(points[h]) - 1)
      /\ \A i \in 1..(Len(points[h]) - 1) : i \in DOMAIN points[h] /\ Pop(points[h])[i] = points[h][i]
  <2> DEFINE n == Len(points[h]) - 1
  <2>1. n \in Nat /\ n <= Len(points[h]) /\ Pop(points[h]) = UpTo(points[h], n)
    BY <1>1, <1>2 DEF Pop
  <2> HIDE DEF n
  <2>2. PICK S : S = Nat
    OBVIOUS
  <2>3. points[h] \in Seq(S)
    BY <1>1, <2>2
  <2>4. /\ UpTo(points[h], n) \in Seq(S) /\ DOMAIN UpTo(points[h], n) = 1..n
        /\ \A i \in 1..n : i \in DOMAIN points[h] /\ UpTo(points[h], n)[i] = points[h][i]
    BY <2>1, <2>3, Cut
  <2> QED
    BY <2>1, <2>2, <2>4 DEF n
<1>4. points'[h] = Pop(points[h]) /\ \A g \in Handles : g # h => points'[g] = points[g]
  BY DEF Typed
<1>5. points' \in [Handles -> Seq(Nat)]
  BY <1>3 DEF Typed
<1>6. ASSUME NEW g \in Handles, NEW i \in DOMAIN points'[g]
      PROVE  i \in DOMAIN points[g] /\ points'[g][i] = points[g][i] /\ (g = h => i # Len(points[h]))
  <2>1. CASE g = h
    <3>1. i \in 1..(Len(points[h]) - 1) /\ points'[g][i] = Pop(points[h])[i]
      BY <1>3, <1>4, <1>6, <2>1
    <3>2. i \in DOMAIN points[h] /\ Pop(points[h])[i] = points[h][i]
      BY <1>3, <3>1
    <3>3. i # Len(points[h])
      BY <1>1, <3>1
    <3> QED
      BY <2>1, <3>1, <3>2, <3>3
  <2>2. CASE g # h
    BY <1>4, <1>6, <2>2
  <2> QED
    BY <2>1, <2>2
<1>7. Len(points[h]) \in DOMAIN points[h]
  BY <1>1
<1> QED
  BY <1>5, <1>6, <1>7 DEF Top

(* Names stay apart when the top is popped, and possibly undone.           *)
LEMMA PoppedApart ==
  ASSUME HandlesApart, Typed, NamesApart, NEW h \in Handles, points[h] # <<>>, points' = [points EXCEPT ![h] = Pop(@)],
         undone' \in {undone, undone \cup {Top(points[h])}}, UNCHANGED <<state, named>>,
         \A g \in Handles : \A i \in DOMAIN marks'[g] : i \in DOMAIN marks[g] /\ marks'[g][i] = marks[g][i]
  PROVE  NamesApart' /\ undone' \subseteq Handles \cup Nat
<1>0. /\ Len(points[h]) \in DOMAIN points[h] /\ Top(points[h]) = points[h][Len(points[h])] /\ Top(points[h]) \in Nat
      /\ \A g \in Handles : \A i \in DOMAIN points'[g] :
              i \in DOMAIN points[g] /\ points'[g][i] = points[g][i] /\ (g = h => i # Len(points[h]))
  <2>1. /\ Len(points[h]) \in DOMAIN points[h] /\ Top(points[h]) = points[h][Len(points[h])]
        /\ \A g \in Handles : \A i \in DOMAIN points'[g] :
              i \in DOMAIN points[g] /\ points'[g][i] = points[g][i] /\ (g = h => i # Len(points[h]))
    BY Popped
  <2>2. Top(points[h]) \in Nat
    BY <2>1, ChangesTyped
  <2> QED
    BY <2>1, <2>2
<1>a. \A f, g \in Handles : \A i \in DOMAIN points[f], j \in DOMAIN points[g] : points[f][i] = points[g][j] => f = g /\ i = j
  BY DEF NamesApart
<1>b. \A f, g \in Handles : \A i \in DOMAIN points[f], j \in DOMAIN marks[g] : points[f][i] = marks[g][j].name => f = g
  BY DEF NamesApart
<1>1. ASSUME NEW t \in undone' PROVE (t \in Handles => state[t] = "ended") /\ (t \in Nat => t <= named)
  <2>1. CASE t \in undone
    BY <2>1 DEF NamesApart
  <2>2. CASE t = Top(points[h])
    BY <1>0, <2>2 DEF NamesApart, HandlesApart
  <2> QED
    BY <2>1, <2>2
<1>2. ASSUME NEW g \in Handles, NEW i \in DOMAIN points'[g] PROVE points'[g][i] <= named /\ points'[g][i] \notin undone'
  <2>1. i \in DOMAIN points[g] /\ points'[g][i] = points[g][i] /\ (g = h => i # Len(points[h]))
    BY <1>0
  <2>2. points[g][i] <= named /\ points[g][i] \notin undone
    BY <2>1 DEF NamesApart
  <2>3. points[g][i] # Top(points[h])
    BY <1>0, <1>a, <2>1
  <2> QED
    BY <2>1, <2>2, <2>3
<1>3. ASSUME NEW f \in Handles, NEW g \in Handles, NEW i \in DOMAIN points'[f], NEW j \in DOMAIN points'[g],
             points'[f][i] = points'[g][j]
      PROVE  f = g /\ i = j
  <2>1. i \in DOMAIN points[f] /\ points'[f][i] = points[f][i] /\ j \in DOMAIN points[g] /\ points'[g][j] = points[g][j]
    BY <1>0
  <2>2. points[f][i] = points[g][j]
    BY <1>3, <2>1
  <2> QED
    BY <1>a, <2>1, <2>2
<1>4. \A g \in Handles : \A i \in DOMAIN marks'[g] : marks'[g][i].name <= named
  BY DEF NamesApart
<1>5. ASSUME NEW f \in Handles, NEW g \in Handles, NEW i \in DOMAIN points'[f], NEW j \in DOMAIN marks'[g],
             points'[f][i] = marks'[g][j].name
      PROVE  f = g
  <2>1. i \in DOMAIN points[f] /\ points'[f][i] = points[f][i] /\ j \in DOMAIN marks[g] /\ marks'[g][j] = marks[g][j]
    BY <1>0
  <2>2. points[f][i] = marks[g][j].name
    BY <1>5, <2>1
  <2> QED
    BY <1>b, <2>1, <2>2
<1>6. undone' \subseteq Handles \cup Nat
  BY <1>0 DEF Typed
<1> QED
  BY <1>1, <1>2, <1>3, <1>4, <1>5, <1>6 DEF NamesApart

(* A transaction ends: what it changed stays, or goes as it came.          *)
LEMMA EndRight ==
  ASSUME HandlesApart, IndInv, NEW h \in Handles, Open(h), NEW kept \in BOOLEAN, End(h, kept)
  PROVE  IndInv'
<1> USE DEF IndInv
<1>0. /\ state' = [state EXCEPT ![h] = "ended"] /\ undo' = [undo EXCEPT ![h] = <<>>] /\ marks' = [marks EXCEPT ![h] = <<>>]
      /\ \/ kept /\ table' = table /\ undone' = undone
         \/ ~kept /\ table' = [k \in Keys |-> Before(h, 0, k)] /\ undone' = undone \cup {h}
      /\ UNCHANGED <<points, trans, held, tags, named>>
  BY DEF End
<1>1. /\ state' \in [Handles -> {"new", "open", "ended"}] /\ state'[h] = "ended"
      /\ \A g \in Handles : g # h => state'[g] = state[g]
      /\ \A g \in Handles : state[g] # "new" => state'[g] # "new"
  BY <1>0 DEF Typed, Open
<1>2. \A g \in Handles : Open(g)' = (Open(g) /\ g # h)
  BY <1>1 DEF Open
<1>3. /\ undo' \in [Handles -> Seq(Undone)] /\ undo'[h] = <<>> /\ \A g \in Handles : g # h => undo'[g] = undo[g]
      /\ marks' \in [Handles -> Seq(Mark)] /\ marks'[h] = <<>> /\ \A g \in Handles : g # h => marks'[g] = marks[g]
  <2>1. <<>> \in Seq(Undone) /\ <<>> \in Seq(Mark)
    BY EmptySeq
  <2> QED
    BY <1>0, <2>1 DEF Typed
<1>4. 0 <= Len(undo[h]) /\ UpTo(undo[h], 0) = <<>>
  <2>1. 0 <= Len(undo[h])
    BY ChangesTyped
  <2>2. UpTo(undo[h], 0) \in Seq(Undone) /\ Len(UpTo(undo[h], 0)) = 0
    BY <2>1, UndoCut
  <2> QED
    BY <2>1, <2>2, EmptySeq
<1>5. ASSUME NEW g \in Handles, NEW i \in DOMAIN undo'[g] PROVE g # h /\ i \in DOMAIN undo[g] /\ undo'[g][i] = undo[g][i]
  BY <1>3
<1>6. ASSUME NEW g \in Handles, NEW i \in DOMAIN marks'[g] PROVE g # h /\ i \in DOMAIN marks[g] /\ marks'[g][i] = marks[g][i]
  BY <1>3
<1>7. table' \in [Keys -> RowType] /\ WritesKnown'
  <2>1. CASE kept
    <3>1. \A k \in Keys : table'[k].write <= Len(tags')
      BY <1>0, <2>1 DEF WritesKnown
    <3>2. \A g \in Handles : \A i \in DOMAIN undo'[g] : undo'[g][i].row.write <= Len(tags')
      BY <1>0, <1>5 DEF WritesKnown
    <3>3. \A i \in DOMAIN tags' : \A t \in tags'[i] : (t \in Handles => state'[t] # "new") /\ (t \in Nat => t <= named')
      BY <1>0, <1>1 DEF WritesKnown
    <3> QED
      BY <1>0, <2>1, <3>1, <3>2, <3>3 DEF WritesKnown, Typed
  <2>2. CASE ~kept
    <3>1. PICK n \in Nat : n = 0
      OBVIOUS
    <3>2. /\ undo' = [undo EXCEPT ![h] = UpTo(@, n)] /\ n <= Len(undo[h])
          /\ table' = [k \in Keys |-> Before(h, n, k)] /\ UNCHANGED <<tags, named>>
      BY <1>0, <1>4, <2>2, <3>1
    <3> QED
      BY <1>1, <3>2, BackKnown
  <2> QED
    BY <2>1, <2>2
<1>8. Typed'
  BY <1>0, <1>1, <1>3, <1>7 DEF Typed
<1>9. NamesApart'
  <2>1. ASSUME NEW t \in undone' PROVE (t \in Handles => state'[t] = "ended") /\ (t \in Nat => t <= named)
    <3>1. CASE t \in undone
      BY <1>1, <3>1 DEF NamesApart
    <3>2. CASE t = h
      BY <1>1, <3>2 DEF HandlesApart
    <3> QED
      BY <1>0, <3>1, <3>2
  <2>2. ASSUME NEW g \in Handles, NEW i \in DOMAIN points[g] PROVE points[g][i] <= named /\ points[g][i] \notin undone'
    <3>1. points[g][i] # h
      BY ChangesTyped DEF HandlesApart
    <3> QED
      BY <1>0, <3>1 DEF NamesApart
  <2>3. \A g \in Handles : \A i \in DOMAIN marks'[g] : marks'[g][i].name <= named
    BY <1>6 DEF NamesApart
  <2>4. \A f, g \in Handles : \A i \in DOMAIN points[f], j \in DOMAIN marks'[g] : points[f][i] = marks'[g][j].name => f = g
    BY <1>6 DEF NamesApart
  <2>5. \A f, g \in Handles : \A i \in DOMAIN points[f], j \in DOMAIN points[g] : points[f][i] = points[g][j] => f = g /\ i = j
    BY DEF NamesApart
  <2> QED
    BY <1>0, <2>1, <2>2, <2>3, <2>4, <2>5 DEF NamesApart
<1>10. LocksApart'
  <2>1. \A g \in Handles : Changed(g)' \subseteq Changed(g)
    BY <1>5 DEF Changed
  <2>2. \A f, g \in Handles : f # g => Changed(f)' \cap Changed(g)' = {}
    BY <2>1 DEF LocksApart
  <2>3. ASSUME NEW g \in Handles, ~Open(g)' PROVE undo'[g] = <<>> /\ marks'[g] = <<>>
    BY <1>2, <1>3, <2>3 DEF LocksApart
  <2> QED
    BY <2>2, <2>3 DEF LocksApart
<1>11. MarksOrdered'
  BY <1>3, <1>6 DEF MarksOrdered
<1>12. ASSUME NEW g \in Handles, g # h, NEW t, NEW n \in Nat, Free(g, t, n) PROVE Free(g, t, n)'
  <2>1. CASE kept
    <3>1. \A k \in Keys : Before(g, n, k)' = Before(g, n, k)
      BY <1>0, <1>3, <1>12, <2>1, BeforeEquals
    <3>2. \A k \in Keys : t \notin TagsOf(Before(g, n, k))'
      BY <1>0, <1>12, <3>1 DEF Free, TagsOf
    <3>3. \A f \in Handles : \A i \in DOMAIN undo'[f] : f # g \/ i <= n => t \notin TagsOf(undo[f][i].row)'
      BY <1>0, <1>5, <1>12 DEF Free, TagsOf
    <3> QED
      BY <3>2, <3>3 DEF Free
  <2>2. CASE ~kept
    BY <1>0, <1>3, <1>4, <1>12, <2>2, BackFree
  <2> QED
    BY <2>1, <2>2
<1>13. AllFree'
  <2> SUFFICES ASSUME NEW g \in Handles, Open(g), g # h
               PROVE  Free(g, g, 0)' /\ \A i \in DOMAIN marks'[g] : Free(g, marks[g][i].name, marks[g][i].at)'
    BY <1>2 DEF AllFree
  <2>1. Free(g, g, 0)'
    BY <1>12 DEF AllFree
  <2>2. ASSUME NEW i \in DOMAIN marks'[g] PROVE Free(g, marks[g][i].name, marks[g][i].at)'
    <3>1. i \in DOMAIN marks[g] /\ marks'[g][i] = marks[g][i]
      BY <1>6
    <3>2. PICK t \in Nat, n \in Nat : t = marks[g][i].name /\ n = marks[g][i].at
      BY <3>1, ChangesTyped DEF Mark
    <3>3. Free(g, t, n)
      BY <3>1, <3>2 DEF AllFree
    <3>4. Free(g, t, n)'
      BY <1>12, <3>3
    <3> QED
      BY <3>1, <3>2, <3>4 DEF Free
  <2> QED
    BY <2>1, <2>2
<1>14. Clean'
  <2>1. CASE kept
    <3>1. \A k \in Keys : TagsOf(table[k])' \cap undone' = {}
      BY <1>0, <2>1 DEF Clean, TagsOf
    <3>2. \A g \in Handles : \A i \in DOMAIN undo'[g] : TagsOf(undo[g][i].row)' \cap undone' = {}
      BY <1>0, <1>5, <2>1 DEF Clean, TagsOf
    <3> QED
      BY <3>1, <3>2 DEF Clean
  <2>2. CASE ~kept
    <3>1. Free(h, h, 0)
      BY DEF AllFree
    <3> QED
      BY <1>0, <1>3, <1>4, <2>2, <3>1, BackClean
  <2> QED
    BY <2>1, <2>2
<1> QED
  BY <1>7, <1>8, <1>9, <1>10, <1>11, <1>13, <1>14

(* Releasing a savepoint forgets marks, and changes no row.                *)
LEMMA ReleaseRight ==
  ASSUME HandlesApart, IndInv, NEW h \in Handles, ReleaseSavepoint(h)
  PROVE  IndInv'
<1> USE DEF IndInv
<1>0. /\ Open(h) /\ points[h] # <<>> /\ points' = [points EXCEPT ![h] = Pop(@)]
      /\ UNCHANGED <<table, state, undo, trans, held, tags, named, undone>>
  BY DEF ReleaseSavepoint, history
<1>1. PICK n \in Nat : n <= Len(marks[h]) /\ (marks' = [marks EXCEPT ![h] = UpTo(@, n)] \/ marks' = marks)
  <2>1. CASE Named(h) = {}
    <3>1. marks' = marks
      BY <2>1 DEF ReleaseSavepoint, Typed
    <3> QED
      BY <3>1, ChangesTyped
  <2>2. CASE Named(h) # {}
    <3>1. PICK i \in Named(h) : marks' = [marks EXCEPT ![h] = UpTo(@, i - 1)]
      BY <2>2 DEF ReleaseSavepoint
    <3>2. i \in 1..Len(marks[h]) /\ Len(marks[h]) \in Nat
      BY <3>1, ChangesTyped DEF Named
    <3>3. i - 1 \in Nat /\ i - 1 <= Len(marks[h])
      BY <3>2
    <3> QED
      BY <3>1, <3>3
  <2> QED
    BY <2>1, <2>2
<1>2. /\ marks' \in [Handles -> Seq(Mark)]
      /\ \A g \in Handles : \A i \in DOMAIN marks'[g] : i \in DOMAIN marks[g] /\ marks'[g][i] = marks[g][i]
      /\ \A g \in Handles : marks[g] = <<>> => marks'[g] = <<>>
  <2>1. CASE marks' = [marks EXCEPT ![h] = UpTo(@, n)]
    BY <1>1, <2>1, FewerMarks
  <2>2. CASE marks' = marks
    BY <2>2 DEF Typed
  <2> QED
    BY <1>1, <2>1, <2>2
<1>3. NamesApart' /\ points' \in [Handles -> Seq(Nat)]
  BY <1>0, <1>2, Popped, PoppedApart
<1>4. Typed'
  BY <1>0, <1>2, <1>3 DEF Typed
<1>5. WritesKnown'
  BY <1>0 DEF WritesKnown
<1>6. LocksApart'
  <2>1. \A g \in Handles : Changed(g)' = Changed(g) /\ (Open(g)' => Open(g)) /\ (~Open(g)' => ~Open(g))
    BY <1>0 DEF Changed, Open
  <2> QED
    BY <1>0, <1>2, <2>1 DEF LocksApart
<1>7. MarksOrdered'
  BY <1>0, <1>2 DEF MarksOrdered
<1>8. AllFree'
  <2> SUFFICES ASSUME NEW g \in Handles, Open(g)
               PROVE  Free(g, g, 0)' /\ \A i \in DOMAIN marks'[g] : Free(g, marks[g][i].name, marks[g][i].at)'
    BY <1>0 DEF AllFree, Open
  <2>1. Free(g, g, 0)'
    BY <1>0, FreeStays DEF AllFree
  <2>2. ASSUME NEW i \in DOMAIN marks'[g] PROVE Free(g, marks[g][i].name, marks[g][i].at)'
    <3>1. i \in DOMAIN marks[g] /\ marks'[g][i] = marks[g][i]
      BY <1>2
    <3>2. PICK t, a : t = marks[g][i].name /\ a = marks[g][i].at
      OBVIOUS
    <3>3. Free(g, t, a)
      BY <3>1, <3>2 DEF AllFree
    <3>4. Free(g, t, a)'
      BY <1>0, <3>3, FreeStays
    <3> QED
      BY <3>1, <3>2, <3>4 DEF Free
  <2> QED
    BY <2>1, <2>2
<1> QED
  BY <1>0, <1>3, <1>4, <1>5, <1>6, <1>7, <1>8, CleanStays

(* A rollback to a savepoint takes back what was changed under it.         *)
LEMMA RollbackRight ==
  ASSUME HandlesApart, IndInv, NEW h \in Handles, RollbackToSavepoint(h)
  PROVE  IndInv'
<1> USE DEF IndInv
<1>0. /\ Open(h) /\ points[h] # <<>> /\ points' = [points EXCEPT ![h] = Pop(@)]
      /\ UNCHANGED <<state, trans, held, tags, named>>
  BY DEF RollbackToSavepoint
<1>1. CASE UNCHANGED <<table, undo, marks, undone>>
  <2>1. NamesApart' /\ points' \in [Handles -> Seq(Nat)]
    BY <1>0, <1>1, Popped, PoppedApart
  <2>2. Typed'
    BY <1>0, <1>1, <2>1 DEF Typed
  <2>3. WritesKnown' /\ MarksOrdered'
    BY <1>0, <1>1 DEF WritesKnown, MarksOrdered
  <2>4. LocksApart' /\ AllFree'
    BY <1>0, <1>1, RowsStay
  <2> QED
    BY <1>0, <1>1, <2>1, <2>2, <2>3, <2>4, CleanStays
<1>2. CASE \E i \in Named(h) : LET n == marks[h][i].at IN
             /\ marks' = [marks EXCEPT ![h] = UpTo(@, i)] /\ undo' = [undo EXCEPT ![h] = UpTo(@, n)]
             /\ table' = [k \in Keys |-> Before(h, n, k)] /\ undone' = undone \cup {Top(points[h])}
  <2>0. PICK i \in Named(h) : LET n == marks[h][i].at IN
          /\ marks' = [marks EXCEPT ![h] = UpTo(@, i)] /\ undo' = [undo EXCEPT ![h] = UpTo(@, n)]
          /\ table' = [k \in Keys |-> Before(h, n, k)] /\ undone' = undone \cup {Top(points[h])}
    BY <1>2
  <2>1. PICK n :
          /\ n = marks[h][i].at
          /\ marks' = [marks EXCEPT ![h] = UpTo(@, i)] /\ undo' = [undo EXCEPT ![h] = UpTo(@, n)]
          /\ table' = [k \in Keys |-> Before(h, n, k)] /\ undone' = undone \cup {Top(points[h])}
    BY <2>0
  <2>2. i \in DOMAIN marks[h] /\ marks[h][i].name = Top(points[h]) /\ i \in Nat /\ i <= Len(marks[h])
    BY ChangesTyped DEF Named
  <2>3. n \in Nat /\ n <= Len(undo[h])
    BY <2>1, <2>2, ChangesTyped DEF Mark, MarksOrdered
  <2>4. Free(h, Top(points[h]), n)
    BY <1>0, <2>1, <2>2 DEF AllFree
  <2>5. /\ marks' \in [Handles -> Seq(Mark)]
        /\ \A g \in Handles : \A j \in DOMAIN marks'[g] :
             j \in DOMAIN marks[g] /\ marks'[g][j] = marks[g][j] /\ (g = h => j <= i)
        /\ \A g \in Handles : marks[g] = <<>> => marks'[g] = <<>>
    BY <2>1, <2>2, FewerMarks
  <2>6. NamesApart' /\ undone' \subseteq Handles \cup Nat /\ points' \in [Handles -> Seq(Nat)]
    <3>1. NamesApart' /\ undone' \subseteq Handles \cup Nat
      BY <1>0, <2>1, <2>5, PoppedApart
    <3> QED
      BY <1>0, <3>1, Popped
  <2>7. /\ table' \in [Keys -> RowType] /\ undo' \in [Handles -> Seq(Undone)] /\ Len(undo'[h]) = n
        /\ \A g \in Handles : Changed(g)' \subseteq Changed(g)
        /\ WritesKnown'
    BY <1>0, <2>1, <2>3, BackKnown
  <2>8. Typed'
    BY <1>0, <2>5, <2>6, <2>7 DEF Typed
  <2>9. undo'[h] = UpTo(undo[h], n) /\ \A g \in Handles : g # h => undo'[g] = undo[g]
    BY <2>1 DEF Typed
  <2>10. LocksApart'
    <3>1. \A f, g \in Handles : f # g => Changed(f)' \cap Changed(g)' = {}
      BY <2>7 DEF LocksApart
    <3>2. ASSUME NEW g \in Handles, ~Open(g)' PROVE undo'[g] = <<>> /\ marks'[g] = <<>>
      <4>1. ~Open(g) /\ g # h
        BY <1>0, <3>2 DEF Open
      <4> QED
        BY <2>5, <2>9, <4>1 DEF LocksApart
    <3> QED
      BY <3>1, <3>2 DEF LocksApart
  <2>11. \A j \in DOMAIN marks'[h] : marks[h][j].at <= n
    BY <2>1, <2>2, <2>5 DEF MarksOrdered
  <2>12. MarksOrdered'
    <3>1. ASSUME NEW g \in Handles, NEW j \in DOMAIN marks'[g] PROVE marks'[g][j].at <= Len(undo'[g])
      <4>1. CASE g = h
        BY <2>5, <2>7, <2>11, <4>1
      <4>2. CASE g # h
        BY <2>5, <2>9, <4>2 DEF MarksOrdered
      <4> QED
        BY <4>1, <4>2
    <3>2. \A g \in Handles : \A j, l \in DOMAIN marks'[g] : j <= l => marks'[g][j].at <= marks'[g][l].at
      BY <2>5 DEF MarksOrdered
    <3> QED
      BY <3>1, <3>2 DEF MarksOrdered
  <2>13. AllFree'
    <3> SUFFICES ASSUME NEW g \in Handles, Open(g)
                 PROVE  Free(g, g, 0)' /\ \A j \in DOMAIN marks'[g] : Free(g, marks[g][j].name, marks[g][j].at)'
      BY <1>0 DEF AllFree, Open
    <3>1. Free(g, g, 0)'
      <4>1. Free(g, g, 0) /\ 0 <= n
        BY <2>3 DEF AllFree
      <4> QED
        BY <1>0, <2>1, <2>3, <2>9, <4>1, BackFree
    <3>2. ASSUME NEW j \in DOMAIN marks'[g] PROVE Free(g, marks[g][j].name, marks[g][j].at)'
      <4>1. j \in DOMAIN marks[g] /\ marks'[g][j] = marks[g][j]
        BY <2>5
      <4>2. PICK t \in Nat, a \in Nat : t = marks[g][j].name /\ a = marks[g][j].at
        BY <4>1, ChangesTyped DEF Mark
      <4>3. Free(g, t, a) /\ (g = h => a <= n)
        BY <2>11, <4>1, <4>2 DEF AllFree
      <4>4. Free(g, t, a)'
        BY <1>0, <2>1, <2>3, <2>9, <4>3, BackFree
      <4> QED
        BY <4>1, <4>2, <4>4 DEF Free
    <3> QED
      BY <3>1, <3>2
  <2>14. Clean'
    BY <1>0, <2>1, <2>3, <2>4, <2>9, BackClean
  <2> QED
    BY <2>6, <2>7, <2>8, <2>10, <2>12, <2>13, <2>14
<1> QED
  BY <1>1, <1>2 DEF RollbackToSavepoint

-----------------------------------------------------------------------------
(* Rows, and the steps *)

(* What only changes what models hold leaves everything right.             *)
LEMMA HeldRight ==
  ASSUME IndInv, UNCHANGED <<dbVars, points, tags, named, undone>>,
         trans' \in [Models -> Executors], held' \in [Models -> Struct \cup {None}]
  PROVE  IndInv'
<1> USE DEF IndInv, dbVars
<1>1. Typed' /\ WritesKnown' /\ MarksOrdered'
  BY DEF Typed, WritesKnown, MarksOrdered
<1>2. NamesApart'
  BY DEF NamesApart
<1>3. LocksApart' /\ AllFree'
  BY RowsStay
<1> QED
  BY <1>1, <1>2, <1>3, CleanStays

(* The row an executor sees is a row.                                      *)
LEMMA RowTyped ==
  ASSUME Typed, WritesKnown, NEW e \in Executors, NEW k \in Keys
  PROVE  Row(e, k) \in RowType
<1>1. CASE LockedBy(e, k)
  <2>1. \E h \in Handles \ {e} : Open(h) /\ k \in Changed(h)
    BY <1>1 DEF LockedBy
  <2>2. PICK h \in Handles : Row(e, k) = Before(h, 0, k)
    BY <1>1, <2>1 DEF Row
  <2> QED
    BY <2>2, RowsBefore
<1>2. CASE ~LockedBy(e, k)
  BY <1>2 DEF Row, Typed
<1> QED
  BY <1>1, <1>2

(* A struct after a change of its row.                                     *)
LEMMA StructTyped ==
  ASSUME NEW s \in Struct, NEW v \in Nat, NEW w \in Nat, NEW l \in Nat
  PROVE  [s EXCEPT !.ver = v, !.seen = w, !.life = l] \in Struct
BY DEF Struct

(* A row after a change of it.                                             *)
LEMMA RowChanged ==
  ASSUME NEW row \in RowType, NEW v \in Nat, NEW l \in Nat, NEW z \in BOOLEAN
  PROVE  /\ [row EXCEPT !.alive = TRUE, !.ver = v, !.life = l] \in RowType
         /\ [row EXCEPT !.ver = v, !.zeroed = z] \in RowType
BY DEF RowType

(* Every statement on a row keeps the invariant.                           *)
LEMMA OnRowRight ==
  ASSUME HandlesApart, IndInv, NEW m \in Models, OnRow(m)
  PROVE  IndInv'
<1> USE DEF IndInv
<1> DEFINE s == held[m]
<1>0. trans \in [Models -> Executors] /\ held \in [Models -> Struct \cup {None}] /\ Len(tags) + 1 \in Nat
      /\ table \in [Keys -> RowType]
  BY Numbered DEF Typed
<1>1. ASSUME NEW k \in Keys, New(m, k) PROVE IndInv'
  <2>1. [key |-> k, ver |-> 0, seen |-> 0, life |-> 0] \in Struct
    BY DEF Struct
  <2> QED
    BY <1>0, <1>1, <2>1, HeldRight DEF New, history
<1>2. ASSUME NEW e \in Executors, NEW k \in Keys, Get(m, k, e) PROVE IndInv'
  <2>1. PICK row \in RowType : row = Row(e, k)
    BY RowTyped
  <2>2. [key |-> k, ver |-> row.ver, seen |-> row.write, life |-> row.life] \in Struct
    BY DEF Struct, RowType
  <2>3. held' = [held EXCEPT ![m] = [key |-> k, ver |-> row.ver, seen |-> row.write, life |-> row.life]]
    BY <1>2, <2>1 DEF Get
  <2>4. held' \in [Models -> Struct \cup {None}]
    BY <1>0, <2>2, <2>3
  <2> QED
    BY <1>0, <1>2, <2>4, HeldRight DEF Get, history
<1>3. ASSUME NEW e \in Executors, UpdateNothing(m, e) PROVE IndInv'
  <2>1. s \in Struct
    BY <1>0, <1>3 DEF UpdateNothing
  <2>2. [s EXCEPT !.ver = 1] \in Struct
    BY <2>1 DEF Struct
  <2>3. held' = [held EXCEPT ![m] = [s EXCEPT !.ver = 1]]
    BY <1>0, <1>3 DEF UpdateNothing
  <2>4. held' \in [Models -> Struct \cup {None}]
    BY <1>0, <2>2, <2>3
  <2> QED
    BY <1>0, <1>3, <2>4, HeldRight DEF UpdateNothing, history
<1>4. ASSUME NEW e \in Executors, Uses(m, e), Insert(m, e) PROVE IndInv'
  <2>1. s \in Struct /\ s.key \in Keys /\ s.ver \in Nat
    BY <1>0, <1>4 DEF Insert, Struct
  <2>2. PICK c \in Nat, v \in Nat, w \in Nat : c = Change /\ v = s.ver + 1 /\ w = IF s.ver = 0 THEN 1 ELSE s.ver
    BY <1>0, <2>1 DEF Change
  <2>3. NoRow \in RowType
    BY DEF NoRow, RowType
  <2>4. PICK row \in RowType : row = [NoRow EXCEPT !.alive = TRUE, !.ver = v, !.life = c]
    BY <2>3, RowChanged
  <2>5. Write(s.key, e, row)
    <3>1. Write(s.key, e, [NoRow EXCEPT !.alive = TRUE, !.ver = s.ver + 1, !.life = Change])
      BY <1>4 DEF Insert
    <3>2. [NoRow EXCEPT !.alive = TRUE, !.ver = s.ver + 1, !.life = Change] = row
      BY <2>2, <2>4
    <3> QED
      BY <3>1, <3>2 DEF Write
  <2>6. held' = [held EXCEPT ![m] = [s EXCEPT !.ver = w, !.seen = c, !.life = c]]
    BY <1>0, <1>4, <2>1, <2>2 DEF Insert, Struct
  <2>7. [s EXCEPT !.ver = w, !.seen = c, !.life = c] \in Struct
    BY <2>1, StructTyped
  <2>8. held' \in [Models -> Struct \cup {None}]
    BY <1>0, <2>6, <2>7
  <2> QED
    BY <1>4, <2>1, <2>5, <2>8, WriteRight DEF Uses
<1>5. ASSUME NEW e \in Executors, Uses(m, e), Update(m, e) PROVE IndInv'
  <2>1. s \in Struct /\ s.key \in Keys /\ s.ver \in Nat
    BY <1>0, <1>5 DEF Update, Struct
  <2>2. PICK was \in RowType : was = table[s.key]
    BY <1>0, <2>1
  <2>3. PICK c \in Nat, v \in Nat, z \in BOOLEAN, l \in Nat : c = Change /\ v = s.ver + 1 /\ z = (s.ver = 0) /\ l = was.life
    <3>1. was.life \in Nat /\ s.ver + 1 \in Nat /\ Change \in Nat
      BY <1>0, <2>1 DEF RowType, Change
    <3> QED
      BY <3>1
  <2>4. PICK row \in RowType : row = [was EXCEPT !.ver = v, !.zeroed = z]
    BY RowChanged
  <2>5. Write(s.key, e, row)
    <3>1. Write(s.key, e, [table[s.key] EXCEPT !.ver = s.ver + 1, !.zeroed = s.ver = 0])
      BY <1>5 DEF Update
    <3>2. [table[s.key] EXCEPT !.ver = s.ver + 1, !.zeroed = s.ver = 0] = row
      BY <2>2, <2>3, <2>4
    <3> QED
      BY <3>1, <3>2 DEF Write
  <2>6. held' = [held EXCEPT ![m] = [s EXCEPT !.ver = v, !.seen = c, !.life = l]]
    BY <1>0, <1>5, <2>1, <2>2, <2>3 DEF Update, Struct
  <2>7. [s EXCEPT !.ver = v, !.seen = c, !.life = l] \in Struct
    BY <2>1, StructTyped
  <2>8. held' \in [Models -> Struct \cup {None}]
    BY <1>0, <2>6, <2>7
  <2> QED
    BY <1>5, <2>1, <2>5, <2>8, WriteRight DEF Uses
<1>6. ASSUME NEW e \in Executors, Uses(m, e), Delete(m, e) PROVE IndInv'
  <2>1. s \in Struct /\ s.key \in Keys
    BY <1>0, <1>6 DEF Delete, Struct
  <2>2. NoRow \in RowType
    BY DEF NoRow, RowType
  <2>3. Write(s.key, e, NoRow) /\ held' = held
    BY <1>6 DEF Delete
  <2> QED
    BY <1>0, <1>6, <2>1, <2>2, <2>3, WriteRight DEF Uses
<1> QED
  BY <1>1, <1>2, <1>3, <1>4, <1>5, <1>6 DEF OnRow

(* Every step of a transaction keeps the invariant.                        *)
LEMMA OnTransactionRight ==
  ASSUME HandlesApart, IndInv, NEW m \in Models, OnTransaction(m)
  PROVE  IndInv'
<1> USE DEF IndInv
<1>0. trans \in [Models -> Executors] /\ held \in [Models -> Struct \cup {None}]
  BY DEF Typed
<1>1. ASSUME Nest(m) PROVE IndInv'
  BY <1>0, <1>1, SavepointRight DEF Nest, Open
<1>2. ASSUME Reset(m) PROVE IndInv'
  <2>1. trans' \in [Models -> Executors] /\ held' \in [Models -> Struct \cup {None}]
    BY <1>0, <1>2 DEF Reset, Executors
  <2> QED
    BY <1>2, <2>1, HeldRight DEF Reset, history
<1>3. ASSUME NEW h \in Handles, Inherit(m, h) PROVE IndInv'
  <2>1. trans' \in [Models -> Executors]
    BY <1>0, <1>3 DEF Inherit, Executors
  <2> QED
    BY <1>3, <2>1, SavepointRight DEF Inherit
<1>4. ASSUME NEW h \in Handles, Begin(m, h) PROVE IndInv'
  BY <1>4, BeginRight
<1>5. ASSUME NEW h, CommitAll(h) PROVE IndInv'
  BY <1>5, EndRight DEF CommitAll, Open
<1>6. ASSUME NEW h, RollbackAll(h) PROVE IndInv'
  BY <1>6, EndRight DEF RollbackAll, Open
<1>7. ASSUME NEW h, ReleaseSavepoint(h) PROVE IndInv'
  <2>1. h \in Handles
    BY <1>7 DEF ReleaseSavepoint, Open
  <2> QED
    BY <1>7, <2>1, ReleaseRight
<1>8. ASSUME NEW h, RollbackToSavepoint(h) PROVE IndInv'
  <2>1. h \in Handles
    BY <1>8 DEF RollbackToSavepoint, Open
  <2> QED
    BY <1>8, <2>1, RollbackRight
<1> QED
  BY <1>1, <1>2, <1>3, <1>4, <1>5, <1>6, <1>7, <1>8 DEF OnTransaction

-----------------------------------------------------------------------------

(* Nothing is changed or rolled back at first.                             *)
LEMMA InitInv == Init => IndInv
<1> SUFFICES ASSUME Init PROVE IndInv
  OBVIOUS
<1>1. NoRow \in RowType /\ NoRow.write = 0
  BY DEF NoRow, RowType
<1>2. /\ table = [k \in Keys |-> NoRow] /\ state = [h \in Handles |-> "new"] /\ undo = [h \in Handles |-> <<>>]
      /\ marks = [h \in Handles |-> <<>>] /\ points = [h \in Handles |-> <<>>] /\ trans = [m \in Models |-> None]
      /\ held = [m \in Models |-> None] /\ tags = <<>> /\ named = 0 /\ undone = {}
  BY DEF Init
<1>3. <<>> \in Seq(Undone) /\ <<>> \in Seq(Mark) /\ <<>> \in Seq(Nat) /\ <<>> \in Seq(SUBSET (Handles \cup Nat))
      /\ Len(<<>>) = 0 /\ DOMAIN <<>> = {}
  BY EmptySeq
<1>4. Typed
  BY <1>1, <1>2, <1>3 DEF Typed, Executors
<1>5. WritesKnown /\ NamesApart /\ LocksApart /\ MarksOrdered
  BY <1>1, <1>2, <1>3 DEF WritesKnown, NamesApart, LocksApart, Changed, MarksOrdered
<1>6. AllFree /\ Clean
  BY <1>2, <1>3 DEF AllFree, Clean, Open
<1> QED
  BY <1>4, <1>5, <1>6 DEF IndInv

(* Every step keeps the invariant.                                         *)
LEMMA NextInv == HandlesApart /\ IndInv /\ [Next]_vars => IndInv'
<1> SUFFICES ASSUME HandlesApart, IndInv, [Next]_vars PROVE IndInv'
  OBVIOUS
<1>1. CASE Next
  BY <1>1, OnRowRight, OnTransactionRight DEF Next
<1>2. CASE UNCHANGED vars
  BY <1>2, HeldRight DEF vars, goVars, history, IndInv, Typed
<1> QED
  BY <1>1, <1>2

(* The invariant holds of every behaviour.                                 *)
LEMMA Invariance == ASSUME HandlesApart PROVE Spec => []IndInv
<1>1. Init => IndInv
  BY InitInv
<1>2. IndInv /\ [Next]_vars => IndInv'
  BY NextInv
<1> QED
  BY <1>1, <1>2, PTL DEF Spec

(* UndoneGone, for any number of models, transactions, keys, changes and   *)
(* savepoints: what a rollback took back is in no row any more.            *)
THEOREM RolledBackGone == ASSUME HandlesApart PROVE Spec => []UndoneGone
<1>1. IndInv => UndoneGone
  BY DEF IndInv, Clean, TagsOf, UndoneGone
<1> QED
  BY <1>1, Invariance, PTL

-----------------------------------------------------------------------------
(* Structs and rows *)

(* A struct of a version, a change and a life, and a row that is there or  *)
(* may come back: of the same life, the row is not older, and when it has  *)
(* that version by another change, by one from a struct with version 0.    *)
Keeps(ver, seen, life, row) ==
  row.alive /\ row.life = life => ver <= row.ver /\ (row.ver = ver /\ row.write # seen => row.zeroed)

(* A change that h made under the savepoints that could bring back what it *)
(* keeps of its i-th change.                                               *)
Listed(h, t) == \E p \in DOMAIN points[h] : points[h][p] = t
Above(seen, h, i) ==
  /\ h \in tags[seen]
  /\ \A j \in DOMAIN marks[h] :
       marks[h][j].at < i /\ Listed(h, marks[h][j].name) => marks[h][j].name \in tags[seen]

(* No row of k is older than the struct unless what brings it back takes   *)
(* back the change of the struct too.                                      *)
Fits(k, ver, seen, life) ==
  /\ Keeps(ver, seen, life, table[k])
  /\ \A h \in Handles : \A i \in DOMAIN undo[h] :
       undo[h][i].key = k => Keeps(ver, seen, life, undo[h][i].row) \/ Above(seen, h, i)

(* A row has a version, a change and a life once it is inserted, and so has*)
(* a struct that stands for a change.  A change from a struct with version *)
(* 0 gives version 1, and so does the first update of such a struct.       *)
RowSound(row) ==
  row.alive => row.ver >= 1 /\ row.write \in DOMAIN tags /\ row.life \in DOMAIN tags /\ (row.zeroed => row.ver = 1)
StructSound(s) ==
  /\ s.seen # 0 => s.ver >= 1 /\ s.seen \in DOMAIN tags /\ s.life \in DOMAIN tags
  /\ s.seen = 0 => s.ver <= 1

Sound ==
  /\ \A k \in Keys : RowSound(table[k])
  /\ \A h \in Handles : \A i \in DOMAIN undo[h] : RowSound(undo[h][i].row)
  /\ \A m \in Models : held[m] # None => StructSound(held[m])

RowFits(k, row) == row.alive => Fits(k, row.ver, row.write, row.life)
StructFits(s) == s.seen # 0 /\ tags[s.seen] \cap undone = {} => Fits(s.key, s.ver, s.seen, s.life)

InOrder ==
  /\ \A k \in Keys : RowFits(k, table[k])
  /\ \A h \in Handles : \A i \in DOMAIN undo[h] : RowFits(undo[h][i].key, undo[h][i].row)
  /\ \A m \in Models : held[m] # None => StructFits(held[m])

LostInv == IndInv /\ Sound /\ InOrder

-----------------------------------------------------------------------------
(* Steps that write no row *)

(* The savepoints that could bring back what h keeps are those before.     *)
MarksFewer(h) ==
  \A i \in DOMAIN undo'[h], j \in DOMAIN marks'[h] :
    marks'[h][j].at < i /\ (\E p \in DOMAIN points'[h] : points'[h][p] = marks'[h][j].name)
      => \E l \in DOMAIN marks[h] : marks[h][l] = marks'[h][j] /\ Listed(h, marks'[h][j].name)

UndoFewer(h) == \A i \in DOMAIN undo'[h] : i \in DOMAIN undo[h] /\ undo'[h][i] = undo[h][i]

(* What fits goes on to when the row and what may come back do.            *)
LEMMA FitsStay ==
  ASSUME NEW k \in Keys, NEW ver, NEW seen, NEW life, Fits(k, ver, seen, life), tags' = tags,
         \A h \in Handles : UndoFewer(h) /\ MarksFewer(h),
         Keeps(ver, seen, life, table'[k])
  PROVE  Fits(k, ver, seen, life)'
<1>1. ASSUME NEW h \in Handles, NEW i \in DOMAIN undo'[h], undo'[h][i].key = k,
             ~Keeps(ver, seen, life, undo'[h][i].row)
      PROVE  Above(seen, h, i)'
  <2>1. i \in DOMAIN undo[h] /\ undo'[h][i] = undo[h][i]
    BY DEF UndoFewer
  <2>2. Above(seen, h, i)
    BY <1>1, <2>1 DEF Fits
  <2>3. ASSUME NEW j \in DOMAIN marks'[h], marks'[h][j].at < i,
               \E p \in DOMAIN points'[h] : points'[h][p] = marks'[h][j].name
        PROVE  marks'[h][j].name \in tags[seen]
    <3>1. PICK l \in DOMAIN marks[h] : marks[h][l] = marks'[h][j] /\ Listed(h, marks'[h][j].name)
      BY <2>3 DEF MarksFewer
    <3> QED
      BY <2>2, <2>3, <3>1 DEF Above
  <2> QED
    BY <2>2, <2>3 DEF Above, Listed
<1> QED
  BY <1>1 DEF Fits, Keeps

(* Everything that fits and is not rolled back goes on to.                 *)
Carries ==
  \A k \in Keys, ver \in Nat, seen \in DOMAIN tags, life \in Nat :
    Fits(k, ver, seen, life) /\ tags[seen] \cap undone' = {} => Fits(k, ver, seen, life)'

(* A row of a key that is there or may come back.                          *)
Stock(k, row) ==
  row = table[k] \/ \E h \in Handles : \E i \in DOMAIN undo[h] : undo[h][i].key = k /\ undo[h][i].row = row

(* Such a row is sound and fits.                                           *)
LEMMA StockFits ==
  ASSUME Typed, Sound, InOrder, Clean, NEW k \in Keys, NEW row, Stock(k, row)
  PROVE  row \in RowType /\ RowSound(row) /\ RowFits(k, row) /\ TagsOf(row) \cap undone = {}
<1>1. CASE row = table[k]
  BY <1>1 DEF Typed, Sound, InOrder, Clean
<1>2. CASE \E h \in Handles : \E i \in DOMAIN undo[h] : undo[h][i].key = k /\ undo[h][i].row = row
  <2>0. PICK h \in Handles : \E i \in DOMAIN undo[h] : undo[h][i].key = k /\ undo[h][i].row = row
    BY <1>2
  <2>1. PICK i \in DOMAIN undo[h] : undo[h][i].key = k /\ undo[h][i].row = row
    BY <2>0
  <2>2. undo[h][i] \in Undone
    BY ChangesTyped
  <2> QED
    BY <2>1, <2>2 DEF Sound, InOrder, Clean, Undone
<1> QED
  BY <1>1, <1>2 DEF Stock

(* What models hold afterwards is nothing, or a struct that fits before.   *)
HeldKnown ==
  \A m \in Models : held'[m] # None =>
    /\ held'[m] \in Struct /\ StructSound(held'[m])
    /\ StructFits(held'[m])

(* A step that writes no row keeps what there is in order.                 *)
LEMMA OrderStays ==
  ASSUME LostInv, IndInv', tags' = tags, undone \subseteq undone', Carries, HeldKnown,
         \A h \in Handles : UndoFewer(h),
         \A k \in Keys : Stock(k, table'[k])
  PROVE  LostInv'
<1> USE DEF LostInv, IndInv
<1>1. ASSUME NEW k \in Keys, NEW row, Stock(k, row), (TagsOf(row) \cap undone = {})'
      PROVE  RowSound(row)' /\ RowFits(k, row)'
  <2>1. row \in RowType /\ RowSound(row) /\ RowFits(k, row)
    BY <1>1, StockFits
  <2>2. RowSound(row)'
    BY <2>1 DEF RowSound
  <2>3. ASSUME row.alive PROVE Fits(k, row.ver, row.write, row.life)'
    <3>1. row.write \in DOMAIN tags /\ row.ver \in Nat /\ row.life \in Nat /\ Fits(k, row.ver, row.write, row.life)
      BY <2>1, <2>3 DEF RowSound, RowType, RowFits
    <3>2. row.write # 0
      BY <3>1, Numbered DEF Typed
    <3>3. tags[row.write] \cap undone' = {}
      BY <1>1, <3>2 DEF TagsOf
    <3> QED
      BY <3>1, <3>3 DEF Carries
  <2> QED
    BY <2>2, <2>3 DEF RowFits
<1>2. ASSUME NEW k \in Keys PROVE RowSound(table[k])' /\ RowFits(k, table[k])'
  <2>1. PICK row : row = table'[k]
    OBVIOUS
  <2>2. Stock(k, row) /\ (TagsOf(row) \cap undone = {})'
    BY <2>1 DEF Clean, TagsOf
  <2>3. RowSound(row)' /\ RowFits(k, row)'
    BY <1>1, <2>2
  <2> QED
    BY <2>1, <2>3 DEF RowSound, RowFits, Fits
<1>3. ASSUME NEW h \in Handles, NEW i \in DOMAIN undo'[h]
      PROVE  RowSound(undo[h][i].row)' /\ RowFits(undo[h][i].key, undo[h][i].row)'
  <2>1. i \in DOMAIN undo[h] /\ undo'[h][i] = undo[h][i] /\ undo[h][i] \in Undone
    BY ChangesTyped DEF UndoFewer
  <2>2. PICK row \in RowType, k \in Keys : row = undo[h][i].row /\ k = undo[h][i].key
    BY <2>1 DEF Undone
  <2>3. Stock(k, row) /\ (TagsOf(row) \cap undone = {})'
    BY <2>1, <2>2 DEF Clean, TagsOf, Stock
  <2>4. RowSound(row)' /\ RowFits(k, row)'
    BY <1>1, <2>3
  <2> QED
    BY <2>1, <2>2, <2>4 DEF RowSound, RowFits, Fits
<1>4. ASSUME NEW m \in Models, held'[m] # None PROVE StructSound(held[m])' /\ StructFits(held[m])'
  <2>1. PICK s \in Struct : s = held'[m] /\ StructSound(s) /\ StructFits(s)
    BY <1>4 DEF HeldKnown
  <2>2. ASSUME s.seen # 0, tags[s.seen] \cap undone' = {} PROVE Fits(s.key, s.ver, s.seen, s.life)'
    <3>1. Fits(s.key, s.ver, s.seen, s.life)
      BY <2>1, <2>2 DEF StructFits
    <3>2. s.key \in Keys /\ s.ver \in Nat /\ s.seen \in DOMAIN tags /\ s.life \in Nat
      BY <2>1, <2>2 DEF Struct, StructSound
    <3> QED
      BY <2>2, <3>1, <3>2 DEF Carries
  <2>3. StructSound(s)' /\ StructFits(s)'
    BY <2>1, <2>2 DEF StructSound, StructFits
  <2> QED
    BY <2>1, <2>3 DEF StructSound, StructFits, Fits
<1>5. Sound'
  BY <1>2, <1>3, <1>4 DEF Sound
<1>6. InOrder'
  BY <1>2, <1>3, <1>4 DEF InOrder
<1> QED
  BY <1>5, <1>6

(* What models hold is known when they keep it or drop it.                 *)
LEMMA HeldStays ==
  ASSUME LostInv, \A m \in Models : held'[m] = held[m] \/ held'[m] = None
  PROVE  HeldKnown
BY DEF LostInv, IndInv, Typed, Sound, InOrder, HeldKnown

(* A step that leaves the rows and the savepoints alone.                   *)
LEMMA HeldOrder ==
  ASSUME LostInv, IndInv', UNCHANGED <<table, undo, marks, points, tags>>, undone \subseteq undone', HeldKnown
  PROVE  LostInv'
<1>1. \A h \in Handles : UndoFewer(h) /\ MarksFewer(h)
  BY DEF UndoFewer, MarksFewer, Listed
<1>2. \A k \in Keys : Stock(k, table'[k])
  BY DEF Stock
<1>3. Carries
  <2> SUFFICES ASSUME NEW k \in Keys, NEW ver \in Nat, NEW seen \in DOMAIN tags, NEW life \in Nat, Fits(k, ver, seen, life)
               PROVE  Fits(k, ver, seen, life)'
    BY DEF Carries
  <2>1. Keeps(ver, seen, life, table'[k])
    BY DEF Fits
  <2> QED
    BY <1>1, <2>1, FitsStay
<1> QED
  BY <1>1, <1>2, <1>3, OrderStays

(* A new savepoint is after all that its transaction changed.              *)
LEMMA SavepointOrder ==
  ASSUME LostInv, IndInv', NEW h \in Handles, Savepoint(h)
  PROVE  LostInv'
<1> USE DEF LostInv, IndInv
<1> DEFINE new == [name |-> named + 1, at |-> Len(undo[h])]
<1>0. UNCHANGED <<table, undo, tags, held, undone>>
  BY DEF Savepoint
<1>1. \A g \in Handles : UndoFewer(g)
  BY <1>0 DEF UndoFewer
<1>2. ASSUME NEW g \in Handles PROVE MarksFewer(g)
  <2>1. SUFFICES ASSUME NEW i \in DOMAIN undo'[g], NEW j \in DOMAIN marks'[g], marks'[g][j].at < i,
                        NEW p \in DOMAIN points'[g], points'[g][p] = marks'[g][j].name
                 PROVE  \E l \in DOMAIN marks[g] : marks[g][l] = marks'[g][j] /\ Listed(g, marks'[g][j].name)
    BY DEF MarksFewer
  <2>2. j \in DOMAIN marks[g] /\ marks'[g][j] = marks[g][j]
    <3>1. CASE g # h \/ marks' = marks
      BY <3>1 DEF Savepoint, Typed
    <3>2. CASE g = h /\ marks' = [marks EXCEPT ![h] = Append(@, new)]
      <4>1. new \in Mark
        BY ChangesTyped DEF Mark, Typed
      <4>2. new.at = Len(undo[h]) /\ marks'[g] = Append(marks[g], new)
        BY <3>2 DEF Typed
      <4> HIDE DEF new
      <4>3. /\ Append(marks[g], new) \in Seq(Mark) /\ Len(Append(marks[g], new)) = Len(marks[g]) + 1
            /\ \A l \in 1..Len(marks[g]) : Append(marks[g], new)[l] = marks[g][l]
            /\ Append(marks[g], new)[Len(marks[g]) + 1] = new
        BY <4>1, ChangesTyped, AppendProperties
      <4>4. DOMAIN Append(marks[g], new) = 1..(Len(marks[g]) + 1)
        BY <4>3, Numbered
      <4>5. j # Len(marks[g]) + 1
        <5>1. undo'[g] = undo[h] /\ i <= Len(undo[h]) /\ i \in Nat /\ Len(undo[h]) \in Nat
          BY <1>0, <3>2, ChangesTyped
        <5> QED
          BY <2>1, <4>2, <4>3, <5>1
      <4> QED
        BY <4>2, <4>3, <4>4, <4>5, ChangesTyped
    <3> QED
      BY <3>1, <3>2 DEF Savepoint
  <2>3. marks[g][j].name <= named /\ marks[g][j].name \in Nat
    BY <2>2, ChangesTyped DEF NamesApart, Mark
  <2>4. Listed(g, marks[g][j].name)
    <3>1. CASE g # h
      BY <2>1, <2>2, <3>1 DEF Savepoint, Typed, Listed
    <3>2. CASE g = h
      <4>1. points'[g] = Append(points[g], named + 1) /\ points[g] \in Seq(Nat) /\ named + 1 \in Nat
        BY <3>2 DEF Savepoint, Typed
      <4>2. /\ Append(points[g], named + 1) \in Seq(Nat) /\ Len(Append(points[g], named + 1)) = Len(points[g]) + 1
            /\ \A l \in 1..Len(points[g]) : Append(points[g], named + 1)[l] = points[g][l]
            /\ Append(points[g], named + 1)[Len(points[g]) + 1] = named + 1
        BY <4>1, AppendProperties
      <4>3. DOMAIN Append(points[g], named + 1) = 1..(Len(points[g]) + 1)
        BY <4>2, Numbered
      <4>4. p # Len(points[g]) + 1
        <5>1. points'[g][p] <= named /\ named \in Nat
          BY <2>1, <2>2, <2>3 DEF Typed
        <5> QED
          BY <4>1, <4>2, <5>1
      <4>5. p \in DOMAIN points[g] /\ points[g][p] = marks[g][j].name
        BY <2>1, <2>2, <4>1, <4>2, <4>3, <4>4, Numbered
      <4> QED
        BY <4>5 DEF Listed
    <3> QED
      BY <3>1, <3>2
  <2> QED
    BY <2>2, <2>4
<1>3. Carries
  <2> SUFFICES ASSUME NEW k \in Keys, NEW ver \in Nat, NEW seen \in DOMAIN tags, NEW life \in Nat, Fits(k, ver, seen, life)
               PROVE  Fits(k, ver, seen, life)'
    BY DEF Carries
  <2>1. Keeps(ver, seen, life, table'[k])
    BY <1>0 DEF Fits
  <2> QED
    BY <1>0, <1>1, <1>2, <2>1, FitsStay
<1>4. HeldKnown
  BY <1>0, HeldStays
<1> QED
  BY <1>0, <1>1, <1>3, <1>4, OrderStays DEF Stock

(* A handle ends: what it changed and does not keep is rolled back with    *)
(* the structs that stand for it.                                          *)
LEMMA EndOrder ==
  ASSUME LostInv, IndInv', NEW h \in Handles, NEW kept \in BOOLEAN, End(h, kept)
  PROVE  LostInv'
<1> USE DEF LostInv, IndInv
<1>0. /\ UNCHANGED <<tags, held, points>> /\ undone \subseteq undone' /\ undo'[h] = <<>>
      /\ \A g \in Handles : g # h => undo'[g] = undo[g] /\ marks'[g] = marks[g]
  BY DEF End, Typed
<1>1. ASSUME NEW g \in Handles PROVE UndoFewer(g) /\ MarksFewer(g)
  <2>1. CASE g = h
    BY <1>0, <2>1, EmptySeq DEF UndoFewer, MarksFewer
  <2>2. CASE g # h
    BY <1>0, <2>2 DEF UndoFewer, MarksFewer, Listed
  <2> QED
    BY <2>1, <2>2
<1>2. ASSUME NEW k \in Keys
      PROVE  table'[k] = table[k] \/ (h \in undone' /\ \E i \in DOMAIN undo[h] : undo[h][i].key = k /\ table'[k] = undo[h][i].row)
  <2>1. CASE kept
    BY <2>1 DEF End
  <2>2. CASE ~kept
    <3>1. table'[k] = BeforeIn(undo[h], table[k], 0, k) /\ h \in undone'
      BY <2>2, BeforeEquals DEF End
    <3>2. PICK row : row = table[k]
      OBVIOUS
    <3>3. \/ BeforeIn(undo[h], row, 0, k) = row
          \/ \E i \in DOMAIN undo[h] : undo[h][i].key = k /\ BeforeIn(undo[h], row, 0, k) = undo[h][i].row
      BY BeforeOne, ChangesTyped
    <3> QED
      BY <3>1, <3>2, <3>3
  <2> QED
    BY <2>1, <2>2
<1>3. Carries
  <2> SUFFICES ASSUME NEW k \in Keys, NEW ver \in Nat, NEW seen \in DOMAIN tags, NEW life \in Nat,
                      Fits(k, ver, seen, life), tags[seen] \cap undone' = {}
               PROVE  Fits(k, ver, seen, life)'
    BY DEF Carries
  <2>1. Keeps(ver, seen, life, table'[k])
    <3>1. CASE table'[k] = table[k]
      BY <3>1 DEF Fits
    <3>2. CASE h \in undone' /\ \E i \in DOMAIN undo[h] : undo[h][i].key = k /\ table'[k] = undo[h][i].row
      BY <3>2 DEF Fits, Above
    <3> QED
      BY <1>2, <3>1, <3>2
  <2> QED
    BY <1>0, <1>1, <2>1, FitsStay
<1>4. HeldKnown
  BY <1>0, HeldStays
<1>5. \A k \in Keys : Stock(k, table'[k])
  BY <1>2 DEF Stock
<1> QED
  BY <1>0, <1>1, <1>3, <1>4, <1>5, OrderStays

(* Fewer marks and fewer savepoints.                                       *)
LEMMA FewerListed ==
  ASSUME NEW h, \A j \in DOMAIN marks'[h] : j \in DOMAIN marks[h] /\ marks'[h][j] = marks[h][j],
         \A p \in DOMAIN points'[h] : p \in DOMAIN points[h] /\ points'[h][p] = points[h][p]
  PROVE  MarksFewer(h)
BY DEF MarksFewer, Listed

(* The stack of savepoints without its top.                                *)
LEMMA ReleaseOrder ==
  ASSUME LostInv, IndInv', NEW h \in Handles, ReleaseSavepoint(h)
  PROVE  LostInv'
<1> USE DEF LostInv, IndInv
<1>0. /\ points[h] # <<>> /\ points' = [points EXCEPT ![h] = Pop(@)]
      /\ UNCHANGED <<table, undo, held, tags, undone>>
  BY DEF ReleaseSavepoint, history
<1>1. \A g \in Handles : \A j \in DOMAIN marks'[g] : j \in DOMAIN marks[g] /\ marks'[g][j] = marks[g][j]
  <2>1. CASE Named(h) = {}
    BY <2>1 DEF ReleaseSavepoint, Typed
  <2>2. CASE Named(h) # {}
    <3>1. PICK i \in Named(h) : marks' = [marks EXCEPT ![h] = UpTo(@, i - 1)]
      BY <2>2 DEF ReleaseSavepoint
    <3>2. i \in 1..Len(marks[h]) /\ Len(marks[h]) \in Nat
      BY <3>1, ChangesTyped DEF Named
    <3>3. PICK n \in Nat : n = i - 1 /\ n <= Len(marks[h])
      BY <3>2
    <3> QED
      BY <3>1, <3>3, FewerMarks
  <2> QED
    BY <2>1, <2>2
<1>2. \A g \in Handles : UndoFewer(g) /\ MarksFewer(g)
  BY <1>0, <1>1, Popped, FewerListed DEF UndoFewer
<1>3. Carries
  <2> SUFFICES ASSUME NEW k \in Keys, NEW ver \in Nat, NEW seen \in DOMAIN tags, NEW life \in Nat, Fits(k, ver, seen, life)
               PROVE  Fits(k, ver, seen, life)'
    BY DEF Carries
  <2>1. Keeps(ver, seen, life, table'[k])
    BY <1>0 DEF Fits
  <2> QED
    BY <1>0, <1>2, <2>1, FitsStay
<1>4. HeldKnown
  BY <1>0, HeldStays
<1> QED
  BY <1>0, <1>2, <1>3, <1>4, OrderStays DEF Stock

(* A rollback to a savepoint takes back the structs that stand for what    *)
(* was changed under it.                                                   *)
LEMMA RollbackOrder ==
  ASSUME LostInv, IndInv', NEW h \in Handles, RollbackToSavepoint(h)
  PROVE  LostInv'
<1> USE DEF LostInv, IndInv
<1>0. /\ points[h] # <<>> /\ points' = [points EXCEPT ![h] = Pop(@)] /\ UNCHANGED <<held, tags>>
  BY DEF RollbackToSavepoint
<1>1. Listed(h, Top(points[h]))
  <2>1. Len(points[h]) \in DOMAIN points[h] /\ Top(points[h]) = points[h][Len(points[h])]
    BY <1>0, Popped
  <2> QED
    BY <2>1 DEF Listed
<1>2. HeldKnown
  BY <1>0, HeldStays
<1>3. CASE UNCHANGED <<table, undo, marks, undone>>
  <2>1. \A g \in Handles : UndoFewer(g) /\ MarksFewer(g)
    BY <1>0, <1>3, Popped, FewerListed DEF UndoFewer
  <2>2. Carries
    <3> SUFFICES ASSUME NEW k \in Keys, NEW ver \in Nat, NEW seen \in DOMAIN tags, NEW life \in Nat, Fits(k, ver, seen, life)
                 PROVE  Fits(k, ver, seen, life)'
      BY DEF Carries
    <3>1. Keeps(ver, seen, life, table'[k])
      BY <1>3 DEF Fits
    <3> QED
      BY <1>0, <2>1, <3>1, FitsStay
  <2> QED
    BY <1>0, <1>2, <1>3, <2>1, <2>2, OrderStays DEF Stock
<1>4. CASE \E i \in Named(h) : LET n == marks[h][i].at IN
             /\ marks' = [marks EXCEPT ![h] = UpTo(@, i)] /\ undo' = [undo EXCEPT ![h] = UpTo(@, n)]
             /\ table' = [k \in Keys |-> Before(h, n, k)] /\ undone' = undone \cup {Top(points[h])}
  <2>0. PICK i \in Named(h) : LET n == marks[h][i].at IN
          /\ marks' = [marks EXCEPT ![h] = UpTo(@, i)] /\ undo' = [undo EXCEPT ![h] = UpTo(@, n)]
          /\ table' = [k \in Keys |-> Before(h, n, k)] /\ undone' = undone \cup {Top(points[h])}
    BY <1>4
  <2>1. PICK n :
          /\ n = marks[h][i].at
          /\ marks' = [marks EXCEPT ![h] = UpTo(@, i)] /\ undo' = [undo EXCEPT ![h] = UpTo(@, n)]
          /\ table' = [k \in Keys |-> Before(h, n, k)] /\ undone' = undone \cup {Top(points[h])}
    BY <2>0
  <2>2. i \in DOMAIN marks[h] /\ marks[h][i].name = Top(points[h]) /\ i \in Nat /\ i <= Len(marks[h])
    BY ChangesTyped DEF Named
  <2>3. n \in Nat /\ n <= Len(undo[h])
    BY <2>1, <2>2, ChangesTyped DEF Mark, MarksOrdered
  <2>4. /\ marks' \in [Handles -> Seq(Mark)]
        /\ \A g \in Handles : \A j \in DOMAIN marks'[g] :
             j \in DOMAIN marks[g] /\ marks'[g][j] = marks[g][j] /\ (g = h => j <= i)
        /\ \A g \in Handles : marks[g] = <<>> => marks'[g] = <<>>
    BY <2>1, <2>2, FewerMarks
  <2>5. ASSUME NEW g \in Handles PROVE UndoFewer(g)
    <3>1. CASE g = h
      <4>1. undo'[h] = UpTo(undo[h], n) /\ undo[h] \in Seq(Undone)
        BY <2>1 DEF Typed
      <4> QED
        BY <2>3, <3>1, <4>1, Cut DEF UndoFewer
    <3>2. CASE g # h
      BY <2>1, <3>2 DEF UndoFewer, Typed
    <3> QED
      BY <3>1, <3>2
  <2>6. ASSUME NEW g \in Handles PROVE MarksFewer(g)
    <3>1. \A j \in DOMAIN marks'[g] : j \in DOMAIN marks[g] /\ marks'[g][j] = marks[g][j]
      BY <2>4
    <3>2. \A p \in DOMAIN points'[g] : p \in DOMAIN points[g] /\ points'[g][p] = points[g][p]
      BY <1>0, Popped
    <3> QED
      BY <3>1, <3>2, FewerListed
  <2>7. ASSUME NEW k \in Keys
        PROVE  table'[k] = table[k] \/ \E a \in DOMAIN undo[h] : a > n /\ undo[h][a].key = k /\ table'[k] = undo[h][a].row
    <3>1. table'[k] = BeforeIn(undo[h], table[k], n, k)
      BY <2>1, BeforeEquals
    <3>2. PICK row : row = table[k]
      OBVIOUS
    <3>3. undo[h] \in Seq(Undone)
      BY DEF Typed
    <3>4. \/ LaterIn(undo[h], n, k) = {} /\ BeforeIn(undo[h], row, n, k) = row
          \/ \E a \in LaterIn(undo[h], n, k) : /\ \A b \in LaterIn(undo[h], n, k) : a <= b
                                               /\ BeforeIn(undo[h], row, n, k) = undo[h][a].row
      BY <2>3, <3>3, BeforeIs
    <3> QED
      BY <3>1, <3>2, <3>4 DEF LaterIn
  <2>8. Carries
    <3> SUFFICES ASSUME NEW k \in Keys, NEW ver \in Nat, NEW seen \in DOMAIN tags, NEW life \in Nat,
                        Fits(k, ver, seen, life), tags[seen] \cap undone' = {}
                 PROVE  Fits(k, ver, seen, life)'
      BY DEF Carries
    <3>1. Keeps(ver, seen, life, table'[k])
      <4>1. CASE table'[k] = table[k]
        BY <4>1 DEF Fits
      <4>2. ASSUME NEW a \in DOMAIN undo[h], a > n, undo[h][a].key = k, table'[k] = undo[h][a].row
            PROVE  Keeps(ver, seen, life, table'[k])
        <5>1. ~Above(seen, h, a)
          BY <1>1, <2>1, <2>2, <4>2 DEF Above
        <5> QED
          BY <4>2, <5>1 DEF Fits
      <4> QED
        BY <2>7, <4>1, <4>2
    <3> QED
      BY <1>0, <2>5, <2>6, <3>1, FitsStay
  <2>9. \A k \in Keys : Stock(k, table'[k])
    BY <2>7 DEF Stock
  <2>10. undone \subseteq undone'
    BY <2>1
  <2> QED
    BY <1>0, <1>2, <2>5, <2>8, <2>9, <2>10, OrderStays
<1> QED
  BY <1>3, <1>4 DEF RollbackToSavepoint

-----------------------------------------------------------------------------
(* Steps that write a row *)

(* What fits goes on to when the row that is written keeps it.             *)
LEMMA WriteFits ==
  ASSUME HandlesApart, Typed, WritesKnown, NEW k \in Keys, NEW e \in Executors, e = None \/ Open(e),
         NEW row \in RowType, Write(k, e, row),
         NEW q \in Keys, NEW ver, NEW seen \in DOMAIN tags, NEW life, Fits(q, ver, seen, life),
         q = k => Keeps(ver, seen, life, table'[k])
  PROVE  Fits(q, ver, seen, life)'
<1>1. tags'[seen] = tags[seen] /\ UNCHANGED <<marks, points>> /\ \A r \in Keys : r # k => table'[r] = table[r]
  BY WriteIs
<1>2. Keeps(ver, seen, life, table'[q])
  BY <1>1 DEF Fits
<1>3. ASSUME NEW h \in Handles, NEW i \in DOMAIN undo'[h], undo'[h][i].key = q
      PROVE  Keeps(ver, seen, life, undo'[h][i].row) \/ Above(seen, h, i)'
  <2>1. CASE i \in DOMAIN undo[h] /\ undo'[h][i] = undo[h][i]
    <3>1. CASE Above(seen, h, i)
      BY <1>1, <3>1 DEF Above, Listed
    <3>2. CASE ~Above(seen, h, i)
      BY <1>3, <2>1, <3>2 DEF Fits
    <3> QED
      BY <3>1, <3>2
  <2>2. CASE undo'[h][i] = [key |-> k, row |-> table[k]]
    BY <1>3, <2>2 DEF Fits
  <2> QED
    BY <2>1, <2>2, WriteUndo
<1> QED
  BY <1>2, <1>3 DEF Fits, Keeps

(* The row that is written fits, and so does the struct it came from.      *)
LEMMA WrittenFits ==
  ASSUME HandlesApart, Typed, WritesKnown, LocksApart, NEW k \in Keys, NEW e \in Executors, e = None \/ Open(e),
         NEW row \in RowType, Write(k, e, row), NEW c, c = Len(tags) + 1,
         NEW ver, ver <= table'[k].ver, NEW life, life = table'[k].life
  PROVE  Fits(k, ver, c, life)'
<1>1. tags'[c] = Under(e) /\ table'[k].write = c /\ UNCHANGED <<marks, points>>
  BY WriteIs
<1>2. Keeps(ver, c, life, table'[k])
  BY <1>1 DEF Keeps
<1>3. ASSUME NEW h \in Handles, NEW i \in DOMAIN undo'[h], undo'[h][i].key = k
      PROVE  Above(c, h, i)'
  <2>1. h = e
    <3>1. CASE h # e
      <4>1. \A j \in DOMAIN undo[h] : undo[h][j].key # k
        BY <3>1, WriteLocked
      <4>2. \/ i \in DOMAIN undo[h] /\ undo'[h][i] = undo[h][i]
            \/ h = e /\ i > Len(undo[h]) /\ undo'[h][i] = [key |-> k, row |-> table[k]]
        BY WriteUndo
      <4> QED
        BY <1>3, <4>1, <4>2
    <3> QED
      BY <3>1
  <2>2. h \in Under(e) /\ \A p \in DOMAIN points[h] : points[h][p] \in Under(e)
    BY <2>1 DEF Under, HandlesApart
  <2> QED
    BY <1>1, <2>2 DEF Above, Listed
<1> QED
  BY <1>2, <1>3 DEF Fits, Keeps

(* The row that is written keeps what fits the row before it.              *)
Follows(k) ==
  \A ver \in Nat, seen \in DOMAIN tags, life \in DOMAIN tags :
    Fits(k, ver, seen, life) => Keeps(ver, seen, life, table'[k])

(* The struct a row is written from is kept, or stands for the row.        *)
Stands(s, k) ==
  /\ s \in Struct /\ s.key = k /\ s.seen = Len(tags) + 1
  /\ s.ver >= 1 /\ s.ver <= table'[k].ver /\ s.life = table'[k].life

(* A write of a row that begins or follows a life keeps the order.         *)
LEMMA WriteOrder ==
  ASSUME HandlesApart, LostInv, IndInv', NEW k \in Keys, NEW e \in Executors, e = None \/ Open(e),
         NEW row \in RowType, Write(k, e, row), Follows(k),
         table'[k].alive => table'[k].ver >= 1 /\ table'[k].life \in DOMAIN tags' /\ (table'[k].zeroed => table'[k].ver = 1),
         \A m \in Models : held'[m] = held[m] \/ (Stands(held'[m], k) /\ table'[k].alive)
  PROVE  LostInv'
<1> USE DEF LostInv, IndInv
<1>0. /\ UNCHANGED <<marks, points, undone>> /\ \A q \in Keys : q # k => table'[q] = table[q]
      /\ DOMAIN tags' = DOMAIN tags \cup {Len(tags) + 1} /\ table'[k].write = Len(tags) + 1
      /\ \A i \in DOMAIN tags : tags'[i] = tags[i]
      /\ table' \in [Keys -> RowType]
  BY WriteIs
<1>1. ASSUME NEW q \in Keys, NEW ver \in Nat, NEW seen \in DOMAIN tags, NEW life \in DOMAIN tags, Fits(q, ver, seen, life)
      PROVE  Fits(q, ver, seen, life)'
  BY <1>1, WriteFits DEF Follows
<1>2. ASSUME NEW q \in Keys, NEW r, Stock(q, r)
      PROVE  RowSound(r)' /\ RowFits(q, r)'
  <2>1. r \in RowType /\ RowSound(r) /\ RowFits(q, r)
    BY <1>2, StockFits
  <2>2. RowSound(r)'
    BY <1>0, <2>1 DEF RowSound
  <2>3. ASSUME r.alive PROVE Fits(q, r.ver, r.write, r.life)'
    <3>1. r.write \in DOMAIN tags /\ r.ver \in Nat /\ r.life \in DOMAIN tags /\ Fits(q, r.ver, r.write, r.life)
      BY <2>1, <2>3 DEF RowSound, RowType, RowFits
    <3> QED
      BY <1>1, <3>1
  <2> QED
    BY <2>2, <2>3 DEF RowFits
<1>3. ASSUME NEW q \in Keys PROVE RowSound(table[q])' /\ RowFits(q, table[q])'
  <2>1. CASE q = k
    <3>1. PICK v, c, l : v = table'[k].ver /\ c = Len(tags) + 1 /\ l = table'[k].life
      OBVIOUS
    <3>2. v <= table'[k].ver
      BY <1>0, <3>1 DEF RowType
    <3>3. Fits(k, v, c, l)'
      BY <3>1, <3>2, WrittenFits
    <3>4. RowFits(k, table[k])'
      BY <1>0, <3>1, <3>3 DEF RowFits, Fits
    <3>5. RowSound(table[k])'
      BY <1>0 DEF RowSound
    <3> QED
      BY <2>1, <3>4, <3>5
  <2>2. CASE q # k
    <3>1. PICK r : r = table[q]
      OBVIOUS
    <3>2. RowSound(r)' /\ RowFits(q, r)'
      BY <1>2, <3>1 DEF Stock
    <3> QED
      BY <1>0, <2>2, <3>1, <3>2 DEF RowSound, RowFits, Fits
  <2> QED
    BY <2>1, <2>2
<1>4. ASSUME NEW h \in Handles, NEW i \in DOMAIN undo'[h]
      PROVE  RowSound(undo[h][i].row)' /\ RowFits(undo[h][i].key, undo[h][i].row)'
  <2>1. PICK r \in RowType, q \in Keys : r = undo'[h][i].row /\ q = undo'[h][i].key /\ Stock(q, r)
    <3>1. CASE i \in DOMAIN undo[h] /\ undo'[h][i] = undo[h][i]
      BY <3>1, ChangesTyped DEF Undone, Stock
    <3>2. CASE undo'[h][i] = [key |-> k, row |-> table[k]]
      BY <3>2 DEF Typed, Stock
    <3> QED
      BY <3>1, <3>2, WriteUndo
  <2>2. RowSound(r)' /\ RowFits(q, r)'
    BY <1>2, <2>1
  <2> QED
    BY <2>1, <2>2 DEF RowSound, RowFits, Fits
<1>5. ASSUME NEW m \in Models, held'[m] # None PROVE StructSound(held[m])' /\ StructFits(held[m])'
  <2>1. PICK s \in Struct : s = held'[m]
    BY <1>5 DEF Typed
  <2>2. CASE held'[m] = held[m]
    <3>1. StructSound(s) /\ StructFits(s)
      BY <1>5, <2>1, <2>2 DEF Sound, InOrder
    <3>2. StructSound(s)'
      BY <1>0, <3>1 DEF StructSound
    <3>3. ASSUME s.seen # 0, tags'[s.seen] \cap undone' = {} PROVE Fits(s.key, s.ver, s.seen, s.life)'
      <4>1. s.key \in Keys /\ s.ver \in Nat /\ s.seen \in DOMAIN tags /\ s.life \in DOMAIN tags
        BY <3>1, <3>3 DEF Struct, StructSound
      <4>2. Fits(s.key, s.ver, s.seen, s.life)
        BY <1>0, <3>1, <3>3, <4>1 DEF StructFits
      <4> QED
        BY <1>1, <4>1, <4>2
    <3> QED
      BY <2>1, <3>2, <3>3 DEF StructSound, StructFits, Fits
  <2>3. CASE Stands(held'[m], k) /\ table'[k].alive
    <3>1. s.key = k /\ s.seen = Len(tags) + 1 /\ s.ver >= 1 /\ s.ver <= table'[k].ver /\ s.life = table'[k].life
      BY <2>1, <2>3 DEF Stands
    <3>2. Fits(k, s.ver, s.seen, s.life)'
      BY <3>1, WrittenFits
    <3>3. StructSound(s)'
      BY <1>0, <2>3, <3>1 DEF StructSound
    <3>4. StructFits(s)'
      BY <3>1, <3>2 DEF StructFits, Fits
    <3> QED
      BY <2>1, <3>3, <3>4 DEF StructSound, StructFits, Fits
  <2> QED
    BY <2>2, <2>3
<1>6. Sound'
  BY <1>3, <1>4, <1>5 DEF Sound
<1>7. InOrder'
  BY <1>3, <1>4, <1>5 DEF InOrder
<1> QED
  BY <1>6, <1>7

(* A struct that has not the last change of the row it replaces: the row   *)
(* has its version, which is 1, by a change from a struct with version 0,  *)
(* or the struct, which never read it, has that version, or stands for     *)
(* another life or a change rolled back.                                   *)
LEMMA ReplacesRight ==
  ASSUME LostInv, LostOnlyKnownWays, NEW s \in Struct, StructSound(s), StructFits(s), table[s.key].alive,
         table[s.key].ver = IF s.ver = 0 THEN 1 ELSE s.ver,
         NEW row, row = table[s.key], Replaces(s, row)
  PROVE  LostOnlyKnownWays'
<1> DEFINE b == [held |-> s.ver, found |-> row.ver, unread |-> s.seen = 0, zeroed |-> row.zeroed,
                 reborn |-> s.life \notin {0, row.life}, rolled |-> s.seen # 0 /\ tags[s.seen] \cap undone # {}]
<1>1. CASE s.seen = row.write
  BY <1>1 DEF Replaces, LostOnlyKnownWays
<1>2. CASE s.seen # row.write
  <2>1. blind' = blind \cup {b}
    BY <1>2 DEF Replaces
  <2>2. ASSUME s.seen # 0, tags[s.seen] \cap undone = {}, s.life \in {0, row.life} PROVE row.zeroed
    <3>1. s.ver >= 1 /\ s.life # 0 /\ s.ver \in Nat
      BY <2>2, Numbered DEF StructSound, LostInv, IndInv, Typed, Struct
    <3>2. Keeps(s.ver, s.seen, s.life, row)
      BY <2>2 DEF StructFits, Fits
    <3>3. row.alive /\ row.life = s.life /\ row.ver = s.ver
      BY <2>2, <3>1
    <3> QED
      BY <1>2, <3>2, <3>3 DEF Keeps
  <2>3. ASSUME s.seen = 0 \/ row.zeroed PROVE row.ver = 1
    <3>1. CASE s.seen = 0
      <4>1. s.ver \in Nat /\ s.ver <= 1
        BY <3>1 DEF StructSound, Struct
      <4> QED
        BY <4>1
    <3>2. CASE row.zeroed
      <4>1. RowSound(row) /\ row.alive
        BY DEF LostInv, Sound, Struct
      <4> QED
        BY <3>2, <4>1 DEF RowSound
    <3> QED
      BY <2>3, <3>1, <3>2
  <2>4. ((b.unread \/ b.zeroed) /\ b.found = 1) \/ b.reborn \/ b.rolled
    <3>1. b.unread = (s.seen = 0) /\ b.zeroed = row.zeroed /\ b.reborn = (s.life \notin {0, row.life})
          /\ b.rolled = (s.seen # 0 /\ tags[s.seen] \cap undone # {}) /\ b.found = row.ver
      OBVIOUS
    <3> QED
      BY <2>2, <2>3, <3>1
  <2> QED
    BY <2>1, <2>4 DEF LostOnlyKnownWays
<1> QED
  BY <1>1, <1>2

(* Every statement on a row keeps it.                                      *)
LEMMA OnRowOrder ==
  ASSUME HandlesApart, LostInv, LostOnlyKnownWays, IndInv', NEW m \in Models, OnRow(m)
  PROVE  LostInv' /\ LostOnlyKnownWays'
<1> USE DEF LostInv, IndInv
<1> DEFINE s == held[m]
<1>0. held \in [Models -> Struct \cup {None}] /\ table \in [Keys -> RowType] /\ Len(tags) + 1 \in Nat
      /\ DOMAIN tags = 1..Len(tags) /\ Len(tags) \in Nat
  BY Numbered DEF Typed
<1>1. ASSUME NEW k \in Keys, New(m, k) PROVE LostInv' /\ LostOnlyKnownWays'
  <2>1. PICK t \in Struct : t = [key |-> k, ver |-> 0, seen |-> 0, life |-> 0]
    BY DEF Struct
  <2>2. StructSound(t) /\ StructFits(t)
    BY <2>1 DEF StructSound, StructFits
  <2>3. held' = [held EXCEPT ![m] = t]
    BY <1>1, <2>1 DEF New
  <2>4. HeldKnown
    BY <1>0, <2>2, <2>3 DEF HeldKnown, Sound, InOrder
  <2> QED
    BY <1>1, <2>4, HeldOrder DEF New, history, dbVars, LostOnlyKnownWays
<1>2. ASSUME NEW e \in Executors, NEW k \in Keys, Get(m, k, e) PROVE LostInv' /\ LostOnlyKnownWays'
  <2>1. PICK row \in RowType : row = Row(e, k) /\ Stock(k, row)
    <3>1. CASE LockedBy(e, k)
      <4>1. \E h \in Handles \ {e} : Open(h) /\ k \in Changed(h)
        BY <3>1 DEF LockedBy
      <4>2. PICK h \in Handles : Row(e, k) = Before(h, 0, k)
        BY <3>1, <4>1 DEF Row
      <4>3. PICK w : w = table[k]
        OBVIOUS
      <4>4. undo[h] \in Seq(Undone)
        BY DEF Typed
      <4>5. \/ BeforeIn(undo[h], w, 0, k) = w
            \/ \E i \in DOMAIN undo[h] : undo[h][i].key = k /\ BeforeIn(undo[h], w, 0, k) = undo[h][i].row
        BY <4>4, BeforeOne
      <4>6. Stock(k, Row(e, k))
        BY <4>2, <4>3, <4>5, BeforeEquals DEF Stock
      <4> QED
        BY <4>6, RowTyped
    <3>2. CASE ~LockedBy(e, k)
      BY <1>0, <3>2 DEF Row, Stock
    <3> QED
      BY <3>1, <3>2
  <2>2. row.alive /\ held' = [held EXCEPT ![m] = [key |-> k, ver |-> row.ver, seen |-> row.write, life |-> row.life]]
    BY <1>2, <2>1 DEF Get
  <2>3. PICK t \in Struct : t = [key |-> k, ver |-> row.ver, seen |-> row.write, life |-> row.life]
    BY DEF Struct, RowType
  <2>4. RowSound(row) /\ RowFits(k, row)
    BY <2>1, StockFits
  <2>5. StructSound(t) /\ StructFits(t)
    <3>1. row.write # 0
      BY <1>0, <2>2, <2>4 DEF RowSound
    <3> QED
      BY <2>2, <2>3, <2>4, <3>1 DEF RowSound, RowFits, StructSound, StructFits
  <2>6. HeldKnown
    BY <1>0, <2>2, <2>3, <2>5 DEF HeldKnown, Sound, InOrder
  <2> QED
    BY <1>2, <2>6, HeldOrder DEF Get, history, dbVars, LostOnlyKnownWays
<1>3. ASSUME NEW e \in Executors, UpdateNothing(m, e) PROVE LostInv' /\ LostOnlyKnownWays'
  <2>1. s \in Struct /\ s # None /\ s.ver = 0 /\ held' = [held EXCEPT ![m] = [s EXCEPT !.ver = 1]]
    BY <1>0, <1>3 DEF UpdateNothing
  <2>2. PICK t \in Struct : t = [s EXCEPT !.ver = 1]
    BY <2>1 DEF Struct
  <2>3. t.seen = 0 /\ t.ver = 1
    <3>1. StructSound(s) /\ s.seen \in Nat
      BY <2>1 DEF Sound, Struct
    <3>2. s.seen = 0
      BY <2>1, <3>1 DEF StructSound
    <3> QED
      BY <2>1, <2>2, <3>2 DEF Struct
  <2>4. StructSound(t) /\ StructFits(t)
    BY <2>3 DEF StructSound, StructFits
  <2>5. HeldKnown
    BY <1>0, <2>1, <2>2, <2>4 DEF HeldKnown, Sound, InOrder
  <2> QED
    BY <1>3, <2>5, HeldOrder DEF UpdateNothing, history, dbVars, LostOnlyKnownWays
<1>4. ASSUME NEW e \in Executors, Uses(m, e), Insert(m, e) PROVE LostInv' /\ LostOnlyKnownWays'
  <2>1. s \in Struct /\ s.key \in Keys /\ s.ver \in Nat
    BY <1>0, <1>4 DEF Insert, Struct
  <2>2. PICK k \in Keys, c \in Nat, v \in Nat, w \in Nat :
          k = s.key /\ c = Len(tags) + 1 /\ v = s.ver + 1 /\ w = IF s.ver = 0 THEN 1 ELSE s.ver
    BY <1>0, <2>1
  <2>3. PICK row \in RowType : row = [NoRow EXCEPT !.alive = TRUE, !.ver = v, !.life = c]
    <3>1. NoRow \in RowType
      BY DEF NoRow, RowType
    <3> QED
      BY <3>1, RowChanged
  <2>4. row.alive /\ row.ver = v /\ row.life = c /\ ~row.zeroed
    BY <2>3 DEF NoRow
  <2>5. Write(k, e, row)
    <3>1. Write(s.key, e, [NoRow EXCEPT !.alive = TRUE, !.ver = s.ver + 1, !.life = Change])
      BY <1>4 DEF Insert
    <3>2. [NoRow EXCEPT !.alive = TRUE, !.ver = s.ver + 1, !.life = Change] = row
      BY <2>2, <2>3 DEF Change
    <3> QED
      BY <2>2, <3>1, <3>2 DEF Write
  <2>6. table'[k] = [row EXCEPT !.write = c]
    BY <1>0, <2>2, <2>5 DEF Write, Change
  <2>7. table'[k].alive /\ table'[k].ver = v /\ table'[k].life = c /\ ~table'[k].zeroed
    BY <2>4, <2>6 DEF RowType
  <2>8. held' = [held EXCEPT ![m] = [s EXCEPT !.ver = w, !.seen = c, !.life = c]]
    BY <1>0, <1>4, <2>1, <2>2 DEF Insert, Struct, Change
  <2>9. Stands([s EXCEPT !.ver = w, !.seen = c, !.life = c], k)
    <3>1. PICK t \in Struct : t = [s EXCEPT !.ver = w, !.seen = c, !.life = c]
      BY <2>1, StructTyped
    <3>2. t.key = k /\ t.ver = w /\ t.seen = c /\ t.life = c
      BY <2>1, <2>2, <3>1 DEF Struct
    <3>3. Stands(t, k)
      BY <2>1, <2>2, <2>7, <3>2 DEF Stands
    <3> QED
      BY <3>1, <3>3
  <2>10. \A n \in Models : held'[n] = held[n] \/ (Stands(held'[n], k) /\ table'[k].alive)
    BY <1>0, <2>7, <2>8, <2>9
  <2>11. Follows(k)
    BY <1>0, <2>2, <2>7 DEF Follows, Keeps
  <2>12. table'[k].ver >= 1 /\ table'[k].life \in DOMAIN tags' /\ (table'[k].zeroed => table'[k].ver = 1)
    <3>1. DOMAIN tags' = DOMAIN tags \cup {Len(tags) + 1}
      BY <1>4, <2>5, WriteIs DEF Uses
    <3> QED
      BY <2>1, <2>2, <2>7, <3>1
  <2>13. LostInv'
    BY <1>4, <2>5, <2>10, <2>11, <2>12, WriteOrder DEF Uses
  <2> QED
    BY <1>4, <2>13 DEF Insert, LostOnlyKnownWays
<1>5. ASSUME NEW e \in Executors, Uses(m, e), Update(m, e) PROVE LostInv' /\ LostOnlyKnownWays'
  <2>1. s \in Struct /\ s.key \in Keys /\ s.ver \in Nat /\ StructSound(s) /\ StructFits(s)
    BY <1>0, <1>5 DEF Update, Struct, Sound, InOrder
  <2>2. PICK k \in Keys, was \in RowType : k = s.key /\ was = table[k]
    BY <1>0, <2>1
  <2>3. was.alive /\ was.ver = IF s.ver = 0 THEN 1 ELSE s.ver
    BY <1>5, <2>2 DEF Update, Matches
  <2>4. PICK c \in Nat, v \in Nat, z \in BOOLEAN, l \in Nat :
          c = Len(tags) + 1 /\ v = s.ver + 1 /\ z = (s.ver = 0) /\ l = was.life
    <3>1. was.life \in Nat /\ s.ver + 1 \in Nat
      BY <2>1 DEF RowType
    <3> QED
      BY <1>0, <3>1
  <2>5. PICK row \in RowType : row = [was EXCEPT !.ver = v, !.zeroed = z]
    BY RowChanged
  <2>6. row.alive /\ row.ver = v /\ row.life = l /\ row.zeroed = z
    BY <2>3, <2>4, <2>5 DEF RowType
  <2>7. Write(k, e, row)
    <3>1. Write(s.key, e, [table[s.key] EXCEPT !.ver = s.ver + 1, !.zeroed = s.ver = 0])
      BY <1>5 DEF Update
    <3>2. [table[s.key] EXCEPT !.ver = s.ver + 1, !.zeroed = s.ver = 0] = row
      BY <2>2, <2>4, <2>5
    <3> QED
      BY <2>2, <3>1, <3>2 DEF Write
  <2>8. table'[k] = [row EXCEPT !.write = c]
    BY <1>0, <2>4, <2>7 DEF Write, Change
  <2>9. table'[k].alive /\ table'[k].ver = v /\ table'[k].life = l /\ table'[k].zeroed = z
    BY <2>6, <2>8 DEF RowType
  <2>10. held' = [held EXCEPT ![m] = [s EXCEPT !.ver = v, !.seen = c, !.life = l]]
    BY <1>0, <1>5, <2>1, <2>2, <2>4 DEF Update, Struct, Change
  <2>11. Stands([s EXCEPT !.ver = v, !.seen = c, !.life = l], k)
    <3>1. PICK t \in Struct : t = [s EXCEPT !.ver = v, !.seen = c, !.life = l]
      BY <2>1, StructTyped
    <3>2. t.key = k /\ t.ver = v /\ t.seen = c /\ t.life = l
      BY <2>1, <2>2, <3>1 DEF Struct
    <3>3. Stands(t, k)
      BY <2>1, <2>4, <2>9, <3>2 DEF Stands
    <3> QED
      BY <3>1, <3>3
  <2>12. \A n \in Models : held'[n] = held[n] \/ (Stands(held'[n], k) /\ table'[k].alive)
    BY <1>0, <2>9, <2>10, <2>11
  <2>13. Follows(k)
    <3> SUFFICES ASSUME NEW ver \in Nat, NEW seen \in DOMAIN tags, NEW life \in DOMAIN tags, Fits(k, ver, seen, life)
                 PROVE  Keeps(ver, seen, life, table'[k])
      BY DEF Follows
    <3>1. l = life => ver <= was.ver
      BY <2>2, <2>3, <2>4 DEF Fits, Keeps
    <3>2. CASE s.ver = 0
      <4>1. v = 1 /\ was.ver = 1
        BY <2>3, <2>4, <3>2
      <4>2. table'[k].zeroed
        BY <2>4, <2>9, <3>2, Zenon
      <4> QED
        BY <2>9, <3>1, <4>1, <4>2 DEF Keeps
    <3>3. CASE s.ver # 0
      <4>1. v = s.ver + 1 /\ was.ver = s.ver
        BY <2>3, <2>4, <3>3
      <4> QED
        BY <2>1, <2>9, <3>1, <4>1 DEF Keeps
    <3> QED
      BY <3>2, <3>3
  <2>14. table'[k].ver >= 1 /\ table'[k].life \in DOMAIN tags' /\ (table'[k].zeroed => table'[k].ver = 1)
    <3>1. DOMAIN tags' = DOMAIN tags \cup {Len(tags) + 1}
      BY <1>5, <2>7, WriteIs DEF Uses
    <3>2. RowSound(was)
      BY <2>2 DEF Sound
    <3> QED
      <4>1. table'[k].ver >= 1 /\ table'[k].life \in DOMAIN tags'
        BY <2>1, <2>3, <2>4, <2>9, <3>1, <3>2 DEF RowSound
      <4>2. ASSUME table'[k].zeroed PROVE table'[k].ver = 1
        <5>1. z
          BY <2>9, <4>2, Zenon
        <5>2. s.ver = 0
          BY <2>4, <5>1, Zenon
        <5> QED
          BY <2>4, <2>9, <5>2
      <4> QED
        BY <4>1, <4>2
  <2>15. LostInv'
    BY <1>5, <2>7, <2>12, <2>13, <2>14, WriteOrder DEF Uses
  <2>16. Replaces(s, was)
    BY <1>5, <2>2 DEF Update
  <2>17. LostOnlyKnownWays'
    BY <2>1, <2>2, <2>3, <2>16, ReplacesRight
  <2> QED
    BY <2>15, <2>17
<1>6. ASSUME NEW e \in Executors, Uses(m, e), Delete(m, e) PROVE LostInv' /\ LostOnlyKnownWays'
  <2>1. s \in Struct /\ s.key \in Keys /\ s.ver \in Nat /\ StructSound(s) /\ StructFits(s)
    BY <1>0, <1>6 DEF Delete, Struct, Sound, InOrder
  <2>2. PICK k \in Keys, was \in RowType : k = s.key /\ was = table[k]
    BY <1>0, <2>1
  <2>3. was.alive /\ was.ver = s.ver /\ Write(k, e, NoRow) /\ held' = held /\ Replaces(s, was)
    BY <1>6, <2>2 DEF Delete
  <2>4. PICK row \in RowType : row = NoRow /\ Write(k, e, row)
    <3>1. NoRow \in RowType
      BY DEF NoRow, RowType
    <3> QED
      BY <2>3, <3>1
  <2>5. ~table'[k].alive
    BY <1>0, <2>3 DEF Write, NoRow
  <2>6. Follows(k)
    BY <2>5 DEF Follows, Keeps
  <2>7. LostInv'
    <3>1. \A n \in Models : held'[n] = held[n] \/ (Stands(held'[n], k) /\ table'[k].alive)
      BY <2>3
    <3>2. table'[k].alive => table'[k].ver >= 1 /\ table'[k].life \in DOMAIN tags' /\ (table'[k].zeroed => table'[k].ver = 1)
      BY <2>5
    <3>3. e = None \/ Open(e)
      BY <1>6 DEF Uses
    <3> QED
      BY <2>4, <2>6, <3>1, <3>2, <3>3, WriteOrder
  <2>8. s.ver >= 1
    BY <2>1, <2>2, <2>3 DEF Sound, RowSound
  <2>9. LostOnlyKnownWays'
    BY <2>1, <2>2, <2>3, <2>8, ReplacesRight
  <2> QED
    BY <2>7, <2>9
<1> QED
  BY <1>1, <1>2, <1>3, <1>4, <1>5, <1>6 DEF OnRow

(* Every step of a transaction keeps it.                                   *)
LEMMA OnTransactionOrder ==
  ASSUME LostInv, LostOnlyKnownWays, IndInv', NEW m \in Models, OnTransaction(m)
  PROVE  LostInv' /\ LostOnlyKnownWays'
<1>1. ASSUME Nest(m) PROVE LostInv' /\ LostOnlyKnownWays'
  BY <1>1, SavepointOrder DEF Nest, Open, Savepoint, LostOnlyKnownWays
<1>2. ASSUME Reset(m) PROVE LostInv' /\ LostOnlyKnownWays'
  <2>1. \A n \in Models : held'[n] = held[n] \/ held'[n] = None
    BY <1>2 DEF Reset, LostInv, IndInv, Typed
  <2>2. HeldKnown
    BY <2>1, HeldStays
  <2> QED
    BY <1>2, <2>2, HeldOrder DEF Reset, history, dbVars, LostOnlyKnownWays
<1>3. ASSUME NEW h \in Handles, Inherit(m, h) PROVE LostInv' /\ LostOnlyKnownWays'
  BY <1>3, SavepointOrder DEF Inherit, Savepoint, LostOnlyKnownWays
<1>4. ASSUME NEW h \in Handles, Begin(m, h) PROVE LostInv' /\ LostOnlyKnownWays'
  <2>1. UNCHANGED <<table, undo, marks, points, tags, held, undone, blind>>
    BY <1>4 DEF Begin, history
  <2> QED
    BY <2>1, HeldStays, HeldOrder DEF LostOnlyKnownWays
<1>5. ASSUME NEW h \in Handles, NEW kept \in BOOLEAN, End(h, kept) PROVE LostInv' /\ LostOnlyKnownWays'
  BY <1>5, EndOrder DEF End, LostOnlyKnownWays
<1>6. ASSUME NEW h, CommitAll(h) \/ RollbackAll(h) PROVE LostInv' /\ LostOnlyKnownWays'
  BY <1>5, <1>6 DEF CommitAll, RollbackAll, Open
<1>7. ASSUME NEW h, ReleaseSavepoint(h) PROVE LostInv' /\ LostOnlyKnownWays'
  BY <1>7, ReleaseOrder DEF ReleaseSavepoint, Open, history, LostOnlyKnownWays
<1>8. ASSUME NEW h, RollbackToSavepoint(h) PROVE LostInv' /\ LostOnlyKnownWays'
  BY <1>8, RollbackOrder DEF RollbackToSavepoint, Open, LostOnlyKnownWays
<1> QED
  BY <1>1, <1>2, <1>3, <1>4, <1>6, <1>7, <1>8 DEF OnTransaction

(* LostOnlyKnownWays, for any number of models, transactions, keys,        *)
(* changes and savepoints: a struct that read or wrote its row replaces a  *)
(* change it had not read only in the ways the property names.             *)
THEOREM LostInKnownWays == ASSUME HandlesApart PROVE Spec => []LostOnlyKnownWays
<1>1. Init => LostInv /\ LostOnlyKnownWays
  <2> SUFFICES ASSUME Init PROVE LostInv /\ LostOnlyKnownWays
    OBVIOUS
  <2>1. /\ table = [k \in Keys |-> NoRow] /\ undo = [h \in Handles |-> <<>>]
        /\ held = [m \in Models |-> None] /\ blind = {} /\ ~NoRow.alive
    BY DEF Init, NoRow
  <2>2. Sound /\ InOrder /\ LostOnlyKnownWays
    BY <2>1, EmptySeq DEF Sound, InOrder, RowSound, RowFits, LostOnlyKnownWays
  <2> QED
    BY <2>2, InitInv DEF LostInv
<1>2. LostInv /\ LostOnlyKnownWays /\ [Next]_vars => LostInv' /\ LostOnlyKnownWays'
  <2> SUFFICES ASSUME LostInv, LostOnlyKnownWays, [Next]_vars PROVE LostInv' /\ LostOnlyKnownWays'
    OBVIOUS
  <2>1. IndInv'
    BY NextInv DEF LostInv
  <2>2. CASE Next
    BY <2>1, <2>2, OnRowOrder, OnTransactionOrder DEF Next
  <2>3. CASE UNCHANGED vars
    BY <2>1, <2>3, HeldStays, HeldOrder DEF vars, dbVars, goVars, history, LostOnlyKnownWays
  <2> QED
    BY <2>2, <2>3
<1> QED
  BY <1>1, <1>2, PTL DEF Spec
=============================================================================

------------------------------ MODULE ViewProofs ------------------------------
(***************************************************************************)
(* Proofs about the window and the menu of the structured views, for every *)
(* height of the terminal, every screen and any number of lines.           *)
(***************************************************************************)
EXTENDS View, FiniteSetTheorems, SequenceTheorems, TLAPS

-----------------------------------------------------------------------------
(***************************************************************************)
(* Induction over numbers, stated with a set instead of a predicate, and   *)
(* the largest of a set of positions: what the proofs about scans use.     *)
(***************************************************************************)
(* Were a number missing, the numbers missing up to it could be mapped, by *)
(* the predecessor, into one number less.                                  *)
LEMMA BoundedInduction ==
  ASSUME NEW n \in Nat, NEW Good, 0 \in Good,
         \A k \in 0 .. n - 1 : k \in Good => k + 1 \in Good
  PROVE  0 .. n \subseteq Good
<1> SUFFICES ASSUME NEW m \in 0 .. n, m \notin Good PROVE FALSE
  OBVIOUS
<1> DEFINE Bad == {k \in 0 .. m : k \notin Good}
           f == [k \in Bad |-> k - 1]
<1>1. \A k \in Bad : k - 1 \in Bad \ {m}
  OBVIOUS
<1>2. IsFiniteSet(Bad)
  <2>1. IsFiniteSet(0 .. m)
    BY FS_Interval
  <2>2. Bad \in SUBSET (0 .. m)
    OBVIOUS
  <2> HIDE DEF Bad
  <2> QED BY <2>1, <2>2, FS_Subset
<1>3. m \in Bad
  OBVIOUS
<1>4. \A k \in Bad : k \in Int
  OBVIOUS
<1> HIDE DEF Bad
<1>5. /\ IsFiniteSet(Bad \ {m}) /\ Cardinality(Bad \ {m}) = Cardinality(Bad) - 1
      /\ Cardinality(Bad) \in Nat
  BY <1>2, <1>3, FS_RemoveElement, FS_CardinalityType
<1>6. f \in [Bad -> Bad \ {m}]
  BY <1>1
<1> HIDE DEF f
<1>7. \E x, y \in Bad : x # y /\ f[x] = f[y]
  <2>1. Cardinality(Bad \ {m}) < Cardinality(Bad)
    BY <1>5
  <2> QED BY <1>2, <1>5, <1>6, <2>1, FS_PigeonHole
<1> QED BY <1>4, <1>7 DEF f

LEMMA SetInduction ==
  ASSUME NEW Good, 0 \in Good, \A k \in Nat : k \in Good => k + 1 \in Good
  PROVE  Nat \subseteq Good
<1> SUFFICES ASSUME NEW n \in Nat PROVE n \in Good
  OBVIOUS
<1>1. \A k \in 0 .. n - 1 : k \in Good => k + 1 \in Good
  OBVIOUS
<1>2. 0 .. n \subseteq Good
  BY <1>1, BoundedInduction
<1> QED BY <1>2

(* A set of positions has a last one.                                      *)
LEMMA LastPosition ==
  ASSUME NEW n \in Nat, NEW t \in SUBSET (1 .. n), t # {}
  PROVE  \E m \in t : \A k \in t : m >= k
<1> DEFINE Good == {k \in 0 .. n : \A u \in SUBSET (1 .. k) : u # {} =>
                                    \E m \in u : \A j \in u : m >= j}
<1>1. 0 \in Good
  <2>1. \A u \in SUBSET (1 .. 0) : u = {}
    OBVIOUS
  <2>2. 0 \in 0 .. n
    OBVIOUS
  <2> QED BY <2>1, <2>2
<1>2. \A k \in 0 .. n - 1 : k \in Good => k + 1 \in Good
  <2> SUFFICES ASSUME NEW k \in 0 .. n - 1, k \in Good, NEW u \in SUBSET (1 .. k + 1), u # {}
               PROVE  \E m \in u : \A j \in u : m >= j
    OBVIOUS
  <2>1. CASE k + 1 \in u
    <3>1. \A j \in u : k + 1 >= j
      OBVIOUS
    <3> QED BY <2>1, <3>1
  <2>2. CASE k + 1 \notin u
    <3>1. u \in SUBSET (1 .. k)
      BY <2>2
    <3> QED BY <3>1
  <2> QED BY <2>1, <2>2
<1>3. n \in Good
  <2> HIDE DEF Good
  <2> QED BY <1>1, <1>2, BoundedInduction
<1> QED BY <1>3

LEMMA MaxPosition ==
  ASSUME NEW n \in Nat, NEW t \in SUBSET (1 .. n), t # {}
  PROVE  Max(t) \in t /\ \A k \in t : Max(t) >= k
BY LastPosition DEF Max

LEMMA MaxOfInterval ==
  ASSUME NEW n \in Nat \ {0}
  PROVE  Max(1 .. n) = n /\ (1 .. n) \ {Max(1 .. n)} = 1 .. n - 1
<1>1. Max(1 .. n) \in 1 .. n /\ \A k \in 1 .. n : Max(1 .. n) >= k
  BY MaxPosition, n \in 1 .. n
<1>2. Max(1 .. n) = n
  BY <1>1, n \in 1 .. n
<1> QED BY <1>2

-----------------------------------------------------------------------------
(***************************************************************************)
(* The scan for the last list of options.                                  *)
(***************************************************************************)
(* LastRun's step, and the function its fold computes. *)
ScanStep(rows, s, i) ==
  IF ~IsOption(rows[i]) THEN [s EXCEPT !.length = 0]
  ELSE [length |-> s.length + 1,
        best |-> IF s.length = 0 THEN s.best ELSE <<i - s.length, i>>]

ScanStart == [length |-> 0, best |-> <<>>]

Scans(rows, places, g, n) ==
  [t \in SUBSET (1 .. n) |->
     IF t = {} THEN ScanStart ELSE ScanStep(rows, g[t \ {Max(t)}], places[Max(t)])]

LEMMA ScansExist ==
  ASSUME NEW rows, NEW places, NEW n \in Nat
  PROVE  \E g : g = Scans(rows, places, g, n)
<1> DEFINE Good == {k \in Nat : \E g : g = Scans(rows, places, g, k)}
<1>1. 0 \in Good
  <2>1. 1 .. 0 = {} /\ SUBSET (1 .. 0) = {{}}
    OBVIOUS
  <2>2. \A g : Scans(rows, places, g, 0) = [t \in {{}} |-> ScanStart]
    BY <2>1 DEF Scans
  <2> QED BY <2>2
<1>2. \A k \in Nat : k \in Good => k + 1 \in Good
  <2> SUFFICES ASSUME NEW k \in Nat, NEW g, g = Scans(rows, places, g, k)
               PROVE  \E h : h = Scans(rows, places, h, k + 1)
    OBVIOUS
  <2> DEFINE h == Scans(rows, places, g, k + 1)
  <2>1. ASSUME NEW t \in SUBSET (1 .. k + 1), t # {}
        PROVE  t \ {Max(t)} \in SUBSET (1 .. k)
    <3>0. k + 1 \in Nat
      OBVIOUS
    <3>1. Max(t) \in t /\ \A j \in t : Max(t) >= j
      BY <2>1, <3>0, MaxPosition, Zenon
    <3>2. ASSUME NEW j \in t, j # Max(t) PROVE j \in 1 .. k
      <4>1. j \in 1 .. k + 1 /\ Max(t) \in 1 .. k + 1 /\ Max(t) >= j
        BY <3>1
      <4> QED BY <3>2, <4>1
    <3> QED BY <3>2
  <2>2. ASSUME NEW u \in SUBSET (1 .. k) PROVE h[u] = g[u]
    <3>1. u \in SUBSET (1 .. k + 1)
      OBVIOUS
    <3>2. h[u] = IF u = {} THEN ScanStart ELSE ScanStep(rows, g[u \ {Max(u)}], places[Max(u)])
      BY <3>1, Zenon DEF Scans
    <3>3. g[u] = IF u = {} THEN ScanStart ELSE ScanStep(rows, g[u \ {Max(u)}], places[Max(u)])
      BY Zenon DEF Scans
    <3> QED BY <3>2, <3>3
  <2>3. \A t \in SUBSET (1 .. k + 1) : t # {} => h[t \ {Max(t)}] = g[t \ {Max(t)}]
    BY <2>1, <2>2
  <2> HIDE DEF h
  <2>4. \A t \in SUBSET (1 .. k + 1) :
          (IF t = {} THEN ScanStart ELSE ScanStep(rows, g[t \ {Max(t)}], places[Max(t)]))
          = (IF t = {} THEN ScanStart ELSE ScanStep(rows, h[t \ {Max(t)}], places[Max(t)]))
    BY <2>3
  <2>5. Scans(rows, places, g, k + 1) = Scans(rows, places, h, k + 1)
    BY <2>4, Zenon DEF Scans
  <2> QED BY <2>5 DEF h
<1>3. n \in Good
  <2> HIDE DEF Good
  <2> QED BY <1>1, <1>2, SetInduction
<1> QED BY <1>3

Scanned(rows, f, n) ==
  /\ f[0] = ScanStart
  /\ \A k \in 1 .. n : f[k] = ScanStep(rows, f[k - 1], k)
  /\ LastRun(rows) = f[n].best

(* The fold's intermediate results. *)
LEMMA ScanSteps ==
  ASSUME NEW n \in Nat, NEW rows, DOMAIN rows = 1 .. n
  PROVE  \E f : Scanned(rows, f, n)
<1> DEFINE places == [i \in DOMAIN rows |-> i]
           g == CHOOSE g : g = Scans(rows, places, g, n)
<1>1. g = Scans(rows, places, g, n)
  BY ScansExist
<1>2. LastRun(rows) = g[1 .. n].best
  <2>1. DOMAIN places = 1 .. n
    OBVIOUS
  <2> QED BY <2>1, Zenon DEF LastRun, FoldLeftDomain, FoldLeft, MapThenFoldSet, Scans, ScanStep, ScanStart
<1> HIDE DEF g
<1> DEFINE f == [k \in 0 .. n |-> g[1 .. k]]
<1>3. f[0] = ScanStart
  <2>1. 1 .. 0 = {}
    OBVIOUS
  <2> QED BY <1>1, <2>1 DEF Scans
<1>4. ASSUME NEW k \in 1 .. n PROVE f[k] = ScanStep(rows, f[k - 1], k)
  <2>1. Max(1 .. k) = k /\ (1 .. k) \ {Max(1 .. k)} = 1 .. k - 1 /\ 1 .. k # {}
    <3>1. k \in Nat \ {0} /\ k \in 1 .. k
      OBVIOUS
    <3> QED BY <3>1, MaxOfInterval
  <2>2. g[1 .. k] = ScanStep(rows, g[(1 .. k) \ {Max(1 .. k)}], places[Max(1 .. k)])
    <3>1. 1 .. k \in SUBSET (1 .. n)
      OBVIOUS
    <3> HIDE DEF f
    <3> QED BY <1>1, <2>1, <3>1, Zenon DEF Scans
  <2>3. f[k] = g[1 .. k] /\ f[k - 1] = g[1 .. k - 1] /\ places[k] = k
    OBVIOUS
  <2> HIDE DEF places
  <2> QED BY <2>1, <2>2, <2>3
<1>5. LastRun(rows) = f[n].best
  BY <1>2
<1> HIDE DEF f
<1> QED BY <1>3, <1>4, <1>5 DEF Scanned

-----------------------------------------------------------------------------
(* Options that follow one another, and none right above them. *)
IsRun(rows, a, b) ==
  /\ a \in Nat \ {0} /\ b \in Nat /\ a < b
  /\ \A j \in a .. b : IsOption(rows[j])
  /\ a > 1 => ~IsOption(rows[a - 1])

(* What the scan knows after k rows. *)
ScanOk(rows, s, k) ==
  /\ s \in [length : 0 .. k, best : Seq(Nat)]
  /\ \A j \in k - s.length + 1 .. k : IsOption(rows[j])
  /\ s.length < k => ~IsOption(rows[k - s.length])
  /\ s.best = <<>> => \A j \in Pairs(rows) : j > k
  /\ s.best # <<>> => \E a, b \in Nat :
       s.best = <<a, b>> /\ IsRun(rows, a, b) /\ b =< k /\ \A j \in Pairs(rows) : j =< k => j =< b

LEMMA ScanStepOk ==
  ASSUME NEW rows \in Seq(Row), NEW k \in 0 .. Len(rows) - 1, NEW s, ScanOk(rows, s, k)
  PROVE  ScanOk(rows, ScanStep(rows, s, k + 1), k + 1)
<1> DEFINE new == ScanStep(rows, s, k + 1)
<1>0. /\ k \in Nat /\ k + 1 \in Nat /\ Len(rows) \in Nat /\ k + 1 =< Len(rows)
      /\ s.length \in Nat /\ s.length =< k
  BY DEF ScanOk
<1>1. \A j \in Pairs(rows) : j \in Nat /\ j >= 2 /\ j =< Len(rows)
  BY <1>0 DEF Pairs
<1>2. CASE ~IsOption(rows[k + 1])
  <2>1. new = [s EXCEPT !.length = 0]
    BY <1>2 DEF ScanStep
  <2>2. new \in [length : 0 .. k + 1, best : Seq(Nat)] /\ new.length = 0 /\ new.best = s.best
    BY <1>0, <2>1 DEF ScanOk
  <2>3. k + 1 \notin Pairs(rows)
    BY <1>2 DEF Pairs
  <2> QED BY <1>0, <1>1, <1>2, <2>2, <2>3, SMTT(30) DEF ScanOk
<1>3. CASE IsOption(rows[k + 1]) /\ s.length = 0
  <2>0. new = [length |-> s.length + 1, best |-> s.best]
    BY <1>3, Zenon DEF ScanStep
  <2>1. new \in [length : 0 .. k + 1, best : Seq(Nat)] /\ new.length = 1 /\ new.best = s.best
    BY <1>0, <1>3, <2>0 DEF ScanOk
  <2>2. k + 1 \notin Pairs(rows)
    BY <1>0, <1>3 DEF Pairs, ScanOk
  <2>3. \A j \in k + 1 .. k + 1 : IsOption(rows[j])
    BY <1>0, <1>3
  <2>4. 1 < k + 1 => ~IsOption(rows[k])
    BY <1>0, <1>3 DEF ScanOk
  <2> HIDE DEF new
  <2>5. (k + 1) - new.length + 1 = k + 1 /\ (k + 1) - new.length = k
    BY <1>0, <2>1
  <2>6. \A j \in Pairs(rows) : (j > k => j > k + 1) /\ (j =< k + 1 => j =< k)
    BY <1>0, <1>1, <2>2
  <2>7. \A b \in Nat : b =< k => b =< k + 1
    BY <1>0
  <2>8. ScanOk(rows, new, k + 1)
    BY <2>1, <2>3, <2>4, <2>5, <2>6, <2>7 DEF ScanOk
  <2> QED BY <2>8 DEF new
<1>4. CASE IsOption(rows[k + 1]) /\ ~(s.length = 0)
  <2> DEFINE a == (k + 1) - s.length
  <2>0. new = [length |-> s.length + 1, best |-> <<a, k + 1>>]
    <3>1. new = [length |-> s.length + 1, best |-> IF s.length = 0 THEN s.best ELSE <<a, k + 1>>]
      BY <1>4, Zenon DEF ScanStep
    <3>2. (IF s.length = 0 THEN s.best ELSE <<a, k + 1>>) = <<a, k + 1>>
      BY <1>4
    <3> HIDE DEF new
    <3> QED BY <3>1, <3>2, Zenon
  <2>1. new.length = s.length + 1 /\ new.best = <<a, k + 1>>
    BY <2>0
  <2>2. IsRun(rows, a, k + 1)
    <3>1. \A j \in a .. k + 1 : j = k + 1 \/ j \in k - s.length + 1 .. k
      BY <1>0
    <3>2. \A j \in a .. k + 1 : IsOption(rows[j])
      BY <1>4, <3>1 DEF ScanOk
    <3>3. a > 1 => ~IsOption(rows[a - 1])
      BY <1>0 DEF ScanOk
    <3> QED BY <1>0, <1>4, <3>2, <3>3 DEF IsRun
  <2>3. \A j \in Pairs(rows) : j =< k + 1 => j =< k + 1
    OBVIOUS
  <2>4. a \in Nat
    BY <1>0
  <2>5. /\ new \in [length : 0 .. k + 1, best : Seq(Nat)]
        /\ \A j \in (k + 1) - new.length + 1 .. k + 1 : IsOption(rows[j])
        /\ new.length < k + 1 => ~IsOption(rows[(k + 1) - new.length])
    <3>1. new.length < k + 1 => s.length < k /\ (k + 1) - new.length = k - s.length
      BY <1>0, <2>1
    <3>2. (k + 1) - new.length + 1 = a
      BY <1>0, <2>1
    <3>3. <<a, k + 1>> \in Seq(Nat) /\ s.length + 1 \in 0 .. k + 1
      BY <1>0, <2>4
    <3> HIDE DEF new, a
    <3>4. new \in [length : 0 .. k + 1, best : Seq(Nat)]
      BY <2>0, <3>3
    <3>5. \A j \in a .. k + 1 : IsOption(rows[j])
      BY <2>2 DEF IsRun
    <3>6. s.length < k => ~IsOption(rows[k - s.length])
      BY DEF ScanOk
    <3> QED BY <3>1, <3>2, <3>4, <3>5, <3>6
  <2>6. new.best # <<>>
    <3>1. <<a, k + 1>> # <<>>
      OBVIOUS
    <3> QED BY <2>1, <3>1
  <2> HIDE DEF new, a
  <2>7. \E x, b \in Nat : /\ new.best = <<x, b>> /\ IsRun(rows, x, b) /\ b =< k + 1
                         /\ \A j \in Pairs(rows) : j =< k + 1 => j =< b
    BY <1>0, <2>1, <2>2, <2>3, <2>4
  <2>8. ScanOk(rows, new, k + 1)
    BY <2>5, <2>6, <2>7 DEF ScanOk
  <2> QED BY <2>8 DEF new
<1> QED BY <1>2, <1>3, <1>4

(* LastRun is the last two options that follow one another with all above  *)
(* them that have no gap, and is there if there are two.                   *)
LEMMA LastRunFinds ==
  ASSUME NEW rows \in Seq(Row)
  PROVE  /\ LastRun(rows) = <<>> => Pairs(rows) = {}
         /\ LastRun(rows) # <<>> => \E a, b \in Nat :
              /\ LastRun(rows) = <<a, b>> /\ IsRun(rows, a, b) /\ b =< Len(rows)
              /\ \A j \in Pairs(rows) : j =< b
<1> DEFINE n == Len(rows)
<1>0. n \in Nat /\ DOMAIN rows = 1 .. n
  OBVIOUS
<1>1. PICK f : Scanned(rows, f, n)
  BY <1>0, ScanSteps
<1> DEFINE Good == {k \in 0 .. n : ScanOk(rows, f[k], k)}
<1>2. 0 \in Good
  <2>1. f[0].length = 0 /\ f[0].best = <<>> /\ f[0] \in [length : 0 .. 0, best : Seq(Nat)]
    BY <1>1 DEF Scanned, ScanStart
  <2>2. \A j \in Pairs(rows) : j > 0
    BY <1>0 DEF Pairs
  <2> QED BY <1>0, <2>1, <2>2 DEF ScanOk
<1>3. \A k \in 0 .. n - 1 : k \in Good => k + 1 \in Good
  <2> SUFFICES ASSUME NEW k \in 0 .. n - 1, ScanOk(rows, f[k], k)
               PROVE  ScanOk(rows, f[k + 1], k + 1) /\ k + 1 \in 0 .. n
    OBVIOUS
  <2>1. k + 1 \in 1 .. n /\ (k + 1) - 1 = k
    BY <1>0
  <2>2. f[k + 1] = ScanStep(rows, f[k], k + 1)
    BY <1>1, <2>1 DEF Scanned
  <2> QED BY <1>0, <2>1, <2>2, ScanStepOk
<1>4. ScanOk(rows, f[n], n)
  <2> HIDE DEF Good, n
  <2>1. n \in Good
    BY <1>0, <1>2, <1>3, BoundedInduction
  <2> QED BY <2>1 DEF Good
<1>5. LastRun(rows) = f[n].best
  BY <1>1 DEF Scanned
<1>6. \A j \in Pairs(rows) : j \in Nat /\ j =< n
  BY <1>0 DEF Pairs
<1> HIDE DEF n
<1>7. ASSUME LastRun(rows) = <<>> PROVE Pairs(rows) = {}
  BY <1>0, <1>4, <1>5, <1>6, <1>7 DEF ScanOk
<1>8. ASSUME LastRun(rows) # <<>>
      PROVE  \E a, b \in Nat :
              /\ LastRun(rows) = <<a, b>> /\ IsRun(rows, a, b) /\ b =< n
              /\ \A j \in Pairs(rows) : j =< b
  BY <1>0, <1>4, <1>5, <1>6, <1>8 DEF ScanOk
<1> QED BY <1>7, <1>8 DEF n

-----------------------------------------------------------------------------
(***************************************************************************)
(* The menus that are made of it.                                          *)
(***************************************************************************)
OptionOf(rows, row) == [hotkey |-> Hotkey(rows[row].text), raw_row |-> row]

MarkedOf(rows, a, b) == {i \in 1 .. (b - a) + 1 : IsMarked(rows[a + (i - 1)])}

(* The m of a list of options. *)
MenuOf(rows, a, b) ==
  [options |-> [i \in 1 .. (b - a) + 1 |-> OptionOf(rows, a + (i - 1))],
   selected |-> IF MarkedOf(rows, a, b) = {} THEN 0 ELSE Max(MarkedOf(rows, a, b))]

LEMMA OptionListIs ==
  ASSUME NEW rows \in Seq(Row), NEW a \in Nat, NEW b \in Nat,
         LastRun(rows) = <<a, b>>, IsRun(rows, a, b), b =< Len(rows)
  PROVE  DetectMenu(rows) = <<MenuOf(rows, a, b)>>
<1> DEFINE options == SubSeq(rows, a, b)
           n == (b - a) + 1
<1>0. LastRun(rows)[1] = a /\ LastRun(rows)[2] = b /\ LastRun(rows) # <<>>
  <2>1. <<a, b>> # <<>>
    OBVIOUS
  <2> QED BY <2>1
<1>1. /\ options \in Seq(Row) /\ Len(options) = n /\ n \in Nat /\ DOMAIN options = 1 .. n
      /\ \A i \in 1 .. n : options[i] = rows[a + (i - 1)]
  <2>1. a >= 1 /\ b > a
    BY DEF IsRun
  <2> QED BY <2>1
<1> HIDE DEF options, n
<1>2. [i \in DOMAIN options |-> [hotkey |-> Hotkey(options[i].text), raw_row |-> a + i - 1]]
        = [i \in 1 .. n |-> OptionOf(rows, a + (i - 1))]
  <2>1. \A i \in 1 .. n : a + i - 1 = a + (i - 1)
    BY <1>1
  <2> QED BY <1>1, <2>1 DEF OptionOf
<1>3. SelectLastInSeq(options, IsMarked)
        = IF MarkedOf(rows, a, b) = {} THEN 0 ELSE Max(MarkedOf(rows, a, b))
  <2>1. {i \in 1 .. Len(options) : IsMarked(options[i])} = MarkedOf(rows, a, b)
    BY <1>1 DEF MarkedOf, n
  <2>2. SelectLastInSeq(options, IsMarked)
          = IF {i \in 1 .. Len(options) : IsMarked(options[i])} # {}
            THEN Max({i \in 1 .. Len(options) : IsMarked(options[i])}) ELSE 0
    BY DEF SelectLastInSeq
  <2> QED BY <2>1, <2>2
<1>4. DetectOptionList(rows) = <<MenuOf(rows, a, b)>>
  <2>1. DetectOptionList(rows)
          = <<[options |-> [i \in DOMAIN options |->
                              [hotkey |-> Hotkey(options[i].text), raw_row |-> a + i - 1]],
               selected |-> SelectLastInSeq(options, IsMarked)]>>
    BY <1>0, Zenon DEF DetectOptionList, options
  <2> QED BY <1>2, <1>3, <2>1, Zenon DEF MenuOf, n
<1>5. DetectOptionList(rows) # <<>>
  <2>1. <<MenuOf(rows, a, b)>> # <<>>
    OBVIOUS
  <2> QED BY <1>4, <2>1
<1> QED BY <1>4, <1>5 DEF DetectMenu

(* No two options follow one another: the last text is the question.       *)
LEMMA YesNoIs ==
  ASSUME NEW rows \in Seq(Row), LastRun(rows) = <<>>
  PROVE  DetectMenu(rows) # <<>> <=> Asked(rows)
<1> USE DEF Asked
<1> DEFINE n == Len(rows)
           texts == {i \in 1 .. n : ~IsBlank(rows[i])}
           last == IF texts # {} THEN Max(texts) ELSE 0
<1>0. n \in Nat /\ DOMAIN rows = 1 .. n
  OBVIOUS
<1>1. DetectOptionList(rows) = <<>>
  BY DEF DetectOptionList
<1>2. DetectMenu(rows) # <<>> <=> ~(last = 0 \/ rows[last].text # "Go on? (y/n)")
  <2>1. SelectLastInSeq(rows, LAMBDA row : ~IsBlank(row)) = last
    BY Zenon DEF SelectLastInSeq
  <2>2. \A x, y : <<x>> # <<>>
    OBVIOUS
  <2> HIDE DEF last
  <2> QED BY <1>1, <2>1, <2>2 DEF DetectMenu, DetectYesNo
<1>3. CASE texts = {}
  <2>1. last = 0
    BY <1>3
  <2>2. \A i \in 1 .. n : IsBlank(rows[i])
    BY <1>3
  <2>3. \A i \in 1 .. n : rows[i].text = ""
    BY <2>2 DEF IsBlank
  <2> QED BY <1>0, <1>2, <2>1, <2>3
<1>4. CASE texts # {}
  <2>1. texts \in SUBSET (1 .. n)
    OBVIOUS
  <2>2. last = Max(texts)
    BY <1>4
  <2> HIDE DEF last
  <2>3. last \in texts /\ \A k \in texts : last >= k
    <3> HIDE DEF texts
    <3> QED BY <1>0, <1>4, <2>1, <2>2, MaxPosition
  <2>4. last \in 1 .. n /\ ~IsBlank(rows[last])
    BY <2>3
  <2>5. ASSUME NEW j \in last + 1 .. n PROVE IsBlank(rows[j])
    BY <1>0, <2>3, <2>4
  <2>6. ASSUME NEW i \in 1 .. n, rows[i].text = "Go on? (y/n)",
               \A j \in i + 1 .. n : IsBlank(rows[j])
        PROVE  i = last
    <3>1. i \in texts
      BY <2>6 DEF IsBlank
    <3>2. last >= i
      BY <2>3, <3>1
    <3>3. ~(last \in i + 1 .. n)
      BY <2>4, <2>6
    <3> QED BY <1>0, <2>4, <3>2, <3>3
  <2> HIDE DEF texts
  <2>7. last # 0
    BY <2>4
  <2>8. CASE rows[last].text = "Go on? (y/n)"
    BY <1>0, <1>2, <2>4, <2>5, <2>7, <2>8
  <2>9. CASE rows[last].text # "Go on? (y/n)"
    BY <1>0, <1>2, <2>6, <2>9
  <2> QED BY <2>8, <2>9
<1> QED BY <1>3, <1>4

-----------------------------------------------------------------------------
(***************************************************************************)
(* The keys that pick an option.                                           *)
(***************************************************************************)
Presses(keys, key) == Cardinality({i \in DOMAIN keys : keys[i] = key})

(* Arrows, then Enter. *)
Arrows(key, n) == Append([i \in 1 .. n |-> key], "enter")

LEMMA ArrowKeys ==
  ASSUME NEW n \in Nat, NEW key \in {"up", "down"}
  PROVE  /\ Presses(Arrows(key, n), "enter") = 1 /\ Presses(Arrows(key, n), key) = n
         /\ \A other \in {"up", "down"} \ {key} : Presses(Arrows(key, n), other) = 0
<1> DEFINE arrows == [i \in 1 .. n |-> key]
           keys == Arrows(key, n)
<1>1. arrows \in Seq({"up", "down"}) /\ Len(arrows) = n /\ \A i \in 1 .. n : arrows[i] = key
  <2>1. arrows \in [1 .. n -> {"up", "down"}]
    OBVIOUS
  <2> QED BY <2>1
<1>2. keys = Append(arrows, "enter")
  BY DEF Arrows
<1> HIDE DEF arrows, keys
<1>3. /\ DOMAIN keys = 1 .. n + 1 /\ keys[n + 1] = "enter"
      /\ \A i \in 1 .. n : keys[i] = key
  BY <1>1, <1>2
<1>4. \A i \in 1 .. n + 1 : i = n + 1 \/ i \in 1 .. n
  OBVIOUS
<1>5. {i \in DOMAIN keys : keys[i] = "enter"} = {n + 1}
  BY <1>3, <1>4
<1>6. {i \in DOMAIN keys : keys[i] = key} = 1 .. n
  BY <1>3, <1>4
<1>7. \A other \in {"up", "down"} \ {key} : {i \in DOMAIN keys : keys[i] = other} = {}
  BY <1>3, <1>4
<1>8. Cardinality({n + 1}) = 1 /\ Cardinality({}) = 0
  BY FS_Singleton, FS_EmptySet, Zenon
<1>9. Cardinality(1 .. n) = n
  BY FS_Interval
<1> QED BY <1>5, <1>6, <1>7, <1>8, <1>9 DEF Presses, keys

(* The keys for option i of a menu: the one its text shows, or those that  *)
(* bring a cursor on option k of the list there.                           *)
LEMMA KeysLand ==
  ASSUME NEW m, NEW n \in Nat, NEW i \in 1 .. n, NEW k \in 1 .. n,
         m.options[i].hotkey # <<>> \/ m.selected = k
  PROVE  LET keys == MenuSelectKeys(m, i)
         IN IF m.options[i].hotkey # <<>> THEN keys = m.options[i].hotkey
            ELSE /\ Presses(keys, "enter") = 1
                 /\ Presses(keys, "down") \in Nat /\ Presses(keys, "up") \in Nat
                 /\ k + Presses(keys, "down") - Presses(keys, "up") = i
<1> DEFINE keys == MenuSelectKeys(m, i)
           cursor == IF m.selected = 0 THEN 1 ELSE m.selected
<1>0. m.options[i].hotkey = <<>> => cursor = k
  OBVIOUS
<1>1. CASE m.options[i].hotkey # <<>>
  BY <1>1 DEF MenuSelectKeys
<1>2. CASE m.options[i].hotkey = <<>> /\ i >= k
  <2>1. keys = Arrows("down", i - k)
    <3>1. i >= cursor
      BY <1>0, <1>2
    <3>2. keys = Arrows("down", i - cursor)
      BY <1>2, <3>1, Zenon DEF MenuSelectKeys, Arrows
    <3> HIDE DEF keys, cursor
    <3> QED BY <1>0, <1>2, <3>2
  <2> HIDE DEF keys
  <2>2. i - k \in Nat
    BY <1>2
  <2>3. /\ Presses(keys, "enter") = 1 /\ Presses(keys, "down") = i - k
        /\ Presses(keys, "up") = 0
    <3>1. "down" \in {"up", "down"} /\ "up" \in {"up", "down"} \ {"down"}
      OBVIOUS
    <3> QED BY <2>1, <2>2, <3>1, ArrowKeys
  <2>4. /\ Presses(keys, "enter") = 1
        /\ Presses(keys, "down") \in Nat /\ Presses(keys, "up") \in Nat
        /\ k + Presses(keys, "down") - Presses(keys, "up") = i
    BY <2>2, <2>3
  <2> QED BY <1>2, <2>4 DEF keys
<1>3. CASE m.options[i].hotkey = <<>> /\ ~(i >= k)
  <2>1. keys = Arrows("up", k - i)
    <3>1. ~(i >= cursor)
      BY <1>0, <1>3
    <3>2. keys = Arrows("up", cursor - i)
      BY <1>3, <3>1, Zenon DEF MenuSelectKeys, Arrows
    <3> HIDE DEF keys, cursor
    <3> QED BY <1>0, <1>3, <3>2
  <2> HIDE DEF keys
  <2>2. k - i \in Nat
    BY <1>3
  <2>3. /\ Presses(keys, "enter") = 1 /\ Presses(keys, "up") = k - i
        /\ Presses(keys, "down") = 0
    <3>1. "up" \in {"up", "down"} /\ "down" \in {"up", "down"} \ {"up"}
      OBVIOUS
    <3> QED BY <2>1, <2>2, <3>1, ArrowKeys
  <2>4. /\ Presses(keys, "enter") = 1
        /\ Presses(keys, "down") \in Nat /\ Presses(keys, "up") \in Nat
        /\ k + Presses(keys, "down") - Presses(keys, "up") = i
    BY <2>2, <2>3
  <2> QED BY <1>3, <2>4 DEF keys
<1> QED BY <1>1, <1>2, <1>3

Option == [hotkey : {<<>>, <<"1">>, <<"a">>, <<"y">>, <<"n">>}, raw_row : Nat]
Menu == [options : Seq(Option), selected : Nat]

LEMMA MenuOfTyped ==
  ASSUME NEW rows \in Seq(Row), NEW a \in Nat, NEW b \in Nat, IsRun(rows, a, b), b =< Len(rows)
  PROVE  /\ MenuOf(rows, a, b) \in Menu
         /\ DOMAIN MenuOf(rows, a, b).options = 1 .. (b - a) + 1
         /\ MenuOf(rows, a, b).selected \in 0 .. (b - a) + 1
         /\ \A i \in 1 .. (b - a) + 1 :
              /\ MenuOf(rows, a, b).options[i].raw_row = a + (i - 1)
              /\ MenuOf(rows, a, b).options[i].hotkey = Hotkey(rows[a + (i - 1)].text)
<1> DEFINE n == (b - a) + 1
           marked == MarkedOf(rows, a, b)
           m == MenuOf(rows, a, b)
<1>0. n \in Nat /\ \A i \in 1 .. n : a + (i - 1) \in a .. b /\ a + (i - 1) \in Nat
  BY DEF IsRun
<1>1. (IF marked = {} THEN 0 ELSE Max(marked)) \in 0 .. n
  <2> HIDE DEF m
  <2>1. marked \in SUBSET (1 .. n)
    BY DEF MarkedOf
  <2>2. marked # {} => Max(marked) \in marked
    <3> HIDE DEF marked, n
    <3> QED BY <1>0, <2>1, MaxPosition
  <2> HIDE DEF marked, n
  <2>3. n \in Nat
    BY <1>0
  <2>4. CASE marked = {}
    BY <2>3, <2>4
  <2>5. CASE marked # {}
    <3> DEFINE top == Max(marked)
    <3>1. top \in marked
      BY <2>2, <2>5
    <3> HIDE DEF top
    <3>2. top \in 0 .. n
      BY <2>1, <2>3, <3>1
    <3> QED BY <2>5, <3>2 DEF top
  <2> QED BY <2>4, <2>5
<1> HIDE DEF marked
<1>2. \A i \in 1 .. n : Hotkey(rows[a + (i - 1)].text) \in {<<>>, <<"1">>, <<"a">>}
  <2>1. \A i \in 1 .. n : rows[a + (i - 1)].text \in OptionText
    BY <1>0 DEF IsRun, IsOption
  <2>2. \A text \in OptionText : Hotkey(text) \in {<<>>, <<"1">>, <<"a">>}
    BY DEF OptionText, Hotkey
  <2> QED BY <2>1, <2>2
<1> HIDE DEF n
<1>3. m = [options |-> [i \in 1 .. n |-> OptionOf(rows, a + (i - 1))],
              selected |-> IF marked = {} THEN 0 ELSE Max(marked)]
  BY Zenon DEF MenuOf, marked, n
<1> HIDE DEF m
<1>4. /\ m.options = [i \in 1 .. n |-> OptionOf(rows, a + (i - 1))]
      /\ m.selected \in 0 .. n
  BY <1>1, <1>3
<1>5. \A i \in 1 .. n : /\ m.options[i].raw_row = a + (i - 1)
                       /\ m.options[i].hotkey = Hotkey(rows[a + (i - 1)].text)
                       /\ m.options[i] \in Option
  <2> SUFFICES ASSUME NEW i \in 1 .. n
               PROVE  /\ m.options[i].raw_row = a + (i - 1)
                      /\ m.options[i].hotkey = Hotkey(rows[a + (i - 1)].text)
                      /\ m.options[i] \in Option
    OBVIOUS
  <2> DEFINE row == a + (i - 1)
             key == Hotkey(rows[row].text)
  <2>1. m.options[i] = [hotkey |-> key, raw_row |-> row]
    BY <1>4 DEF OptionOf
  <2>2. row \in Nat /\ key \in {<<>>, <<"1">>, <<"a">>}
    BY <1>0, <1>2
  <2> HIDE DEF row, key
  <2>3. m.options[i].raw_row = row /\ m.options[i].hotkey = key
    BY <2>1
  <2>4. m.options[i] \in Option
    BY <2>1, <2>2 DEF Option
  <2> QED BY <2>3, <2>4 DEF row, key
<1>6. m \in Menu
  <2>1. m.options \in Seq(Option)
    <3>1. m.options \in [1 .. n -> Option]
      BY <1>4, <1>5
    <3> QED BY <1>0, <3>1
  <2>2. m.selected \in Nat
    BY <1>0, <1>4
  <2> QED BY <1>3, <2>1, <2>2 DEF Menu
<1> QED BY <1>4, <1>5, <1>6 DEF m, n

MenuOk(found) == found = <<>> \/ \E m \in Menu : found = <<m>>

LEMMA MenuTyped ==
  ASSUME NEW rows \in Seq(Row)
  PROVE  MenuOk(DetectMenu(rows))
<1>1. CASE LastRun(rows) # <<>>
  <2>1. PICK a, b \in Nat : LastRun(rows) = <<a, b>> /\ IsRun(rows, a, b) /\ b =< Len(rows)
    BY <1>1, LastRunFinds
  <2>2. DetectMenu(rows) = <<MenuOf(rows, a, b)>> /\ MenuOf(rows, a, b) \in Menu
    BY <2>1, OptionListIs, MenuOfTyped
  <2> QED BY <2>2 DEF MenuOk
<1>2. CASE LastRun(rows) = <<>>
  <2>1. DetectMenu(rows) = DetectYesNo(rows)
    BY <1>2 DEF DetectMenu, DetectOptionList
  <2> DEFINE m == [options |-> <<[hotkey |-> <<"y">>, raw_row |-> 0],
                                    [hotkey |-> <<"n">>, raw_row |-> 0]>>,
                      selected |-> 0]
  <2>2. m \in Menu
    <3>2. /\ [hotkey |-> <<"y">>, raw_row |-> 0] \in Option
          /\ [hotkey |-> <<"n">>, raw_row |-> 0] \in Option
      BY DEF Option
    <3>3. m.options \in Seq(Option)
      BY <3>2
    <3> QED BY <3>3 DEF Menu
  <2>3. DetectYesNo(rows) = <<>> \/ DetectYesNo(rows) = <<m>>
    BY DEF DetectYesNo
  <2> HIDE DEF m
  <2> QED BY <2>1, <2>2, <2>3 DEF MenuOk
<1> QED BY <1>1, <1>2

LEMMA MaxIs ==
  ASSUME NEW n \in Nat, NEW t \in SUBSET (2 .. n), NEW b \in t, \A j \in t : j =< b
  PROVE  Max(t) = b
<1>1. t \in SUBSET (1 .. n) /\ t # {}
  OBVIOUS
<1> DEFINE top == Max(t)
<1>2. top \in t /\ \A k \in t : top >= k
  BY <1>1, MaxPosition
<1> HIDE DEF top
<1>3. top = b
  BY <1>2
<1> QED BY <1>3 DEF top

(* What a screen with two options in a row is found to be: the run of them *)
(* from row a to row b.                                                    *)
FoundAt(rows, m, a, b) ==
  /\ a >= 1 /\ a < b /\ b =< Len(rows) /\ ListRows(rows) = a .. b
  /\ \A r \in a .. b : IsOption(rows[r])
  /\ DOMAIN m.options = 1 .. (b - a) + 1 /\ m.selected \in 0 .. (b - a) + 1
  /\ \A i \in 1 .. (b - a) + 1 : /\ m.options[i].raw_row = a + (i - 1)
                                 /\ m.options[i].hotkey = Hotkey(rows[a + (i - 1)].text)
  /\ m.selected = IF MarkedOf(rows, a, b) = {} THEN 0 ELSE Max(MarkedOf(rows, a, b))

LEMMA MenuFound ==
  ASSUME NEW rows \in Seq(Row), LastRun(rows) # <<>>
  PROVE  /\ Pairs(rows) # {}
         /\ \E a, b \in Nat : FoundAt(rows, DetectMenu(rows)[1], a, b)
<1> DEFINE m == DetectMenu(rows)[1]
<1>0. Len(rows) \in Nat /\ Pairs(rows) \in SUBSET (2 .. Len(rows))
  BY DEF Pairs
<1> HIDE DEF m
<1>1. PICK a, b \in Nat : /\ LastRun(rows) = <<a, b>> /\ IsRun(rows, a, b) /\ b =< Len(rows)
                          /\ \A j \in Pairs(rows) : j =< b
  BY LastRunFinds
<1> DEFINE n == (b - a) + 1
<1>2. /\ a >= 1 /\ a < b /\ \A j \in a .. b : IsOption(rows[j])
      /\ a > 1 => ~IsOption(rows[a - 1])
  BY <1>1 DEF IsRun
<1>3. b \in Pairs(rows)
  BY <1>0, <1>1, <1>2 DEF Pairs
<1>4. Max(Pairs(rows)) = b
  <2> HIDE DEF n
  <2> QED BY <1>0, <1>1, <1>3, MaxIs
<1>5. ListRows(rows) = a .. b
  <2>1. ListRows(rows) = {i \in 1 .. b : \A j \in i .. b : IsOption(rows[j])}
    BY <1>4 DEF ListRows
  <2>2. ASSUME NEW i \in 1 .. b, \A j \in i .. b : IsOption(rows[j]) PROVE i >= a
    <3>1. i < a => a - 1 \in i .. b /\ a > 1
      BY <1>2
    <3> QED BY <1>2, <2>2, <3>1
  <2> QED BY <1>2, <2>1, <2>2
<1>6. m = MenuOf(rows, a, b)
  BY <1>1, OptionListIs DEF m
<1>7. /\ DOMAIN m.options = 1 .. n /\ m.selected \in 0 .. n
      /\ \A i \in 1 .. n : /\ m.options[i].raw_row = a + (i - 1)
                           /\ m.options[i].hotkey = Hotkey(rows[a + (i - 1)].text)
  <2>1. /\ DOMAIN MenuOf(rows, a, b).options = 1 .. n
        /\ MenuOf(rows, a, b).selected \in 0 .. n
        /\ \A i \in 1 .. n :
             /\ MenuOf(rows, a, b).options[i].raw_row = a + (i - 1)
             /\ MenuOf(rows, a, b).options[i].hotkey = Hotkey(rows[a + (i - 1)].text)
    BY <1>1, MenuOfTyped, Zenon
  <2> HIDE DEF n
  <2> QED BY <1>6, <2>1
<1>8. m.selected = IF MarkedOf(rows, a, b) = {} THEN 0 ELSE Max(MarkedOf(rows, a, b))
  BY <1>6 DEF MenuOf
<1>9. FoundAt(rows, m, a, b)
  BY <1>1, <1>2, <1>5, <1>7, <1>8, Zenon DEF FoundAt, n
<1> QED BY <1>3, <1>9 DEF m

(* Rows of the list and options of the menu.                               *)
LEMMA RowsAreOptions ==
  ASSUME NEW a \in Nat, NEW b \in Nat, a < b
  PROVE  /\ (b - a) + 1 \in Nat
         /\ \A i \in 1 .. (b - a) + 1 : a + (i - 1) \in a .. b
         /\ \A r \in a .. b : r - a + 1 \in 1 .. (b - a) + 1 /\ r = a + ((r - a + 1) - 1)
         /\ \A r \in a .. b : r \in Nat
OBVIOUS

(* Every screen's menu is the list that a user sees there.                 *)
LEMMA MenusAreExact ==
  ASSUME NEW rows \in Seq(Row)
  PROVE  MenuIsExact(rows)
<1> DEFINE m == DetectMenu(rows)[1]
           listed == {m.options[i].raw_row : i \in DOMAIN m.options}
           marked == {i \in DOMAIN m.options : IsMarked(rows[m.options[i].raw_row])}
<1> HIDE DEF m, listed, marked
<1>1. CASE LastRun(rows) = <<>>
  <2>1. Pairs(rows) = {}
    BY <1>1, LastRunFinds
  <2> QED BY <1>1, <2>1, YesNoIs DEF MenuIsExact
<1>2. CASE LastRun(rows) # <<>>
  <2>1. PICK a, b \in Nat : FoundAt(rows, m, a, b)
    BY <1>2, MenuFound DEF m
  <2> DEFINE n == (b - a) + 1
  <2>2. a < b
    BY <2>1 DEF FoundAt
  <2>3. /\ n \in Nat
        /\ \A i \in 1 .. n : a + (i - 1) \in a .. b
        /\ \A r \in a .. b : r - a + 1 \in 1 .. n /\ r = a + ((r - a + 1) - 1)
    BY <2>2, RowsAreOptions
  <2>4. /\ DOMAIN m.options = 1 .. n /\ ListRows(rows) = a .. b
        /\ \A i \in 1 .. n : m.options[i].raw_row = a + (i - 1)
        /\ m.selected = IF MarkedOf(rows, a, b) = {} THEN 0 ELSE Max(MarkedOf(rows, a, b))
    BY <2>1 DEF FoundAt
  <2>5. listed = ListRows(rows)
    <3> HIDE DEF n
    <3>1. ASSUME NEW x \in listed PROVE x \in a .. b
      BY <2>3, <2>4 DEF listed
    <3>2. ASSUME NEW j \in a .. b PROVE j \in listed
      <4>1. (j - a + 1) \in DOMAIN m.options /\ m.options[j - a + 1].raw_row = j
        BY <2>3, <2>4
      <4> QED BY <4>1 DEF listed
    <3> QED BY <2>4, <3>1, <3>2
  <2>6. ASSUME NEW i \in DOMAIN m.options \ {1}
        PROVE  m.options[i].raw_row = m.options[i - 1].raw_row + 1
    <3>1. i \in 1 .. n /\ i - 1 \in 1 .. n
      BY <2>3, <2>4
    <3> QED BY <2>4, <3>1, SMTT(30)
  <2>7. m.selected = IF marked = {} THEN 0 ELSE Max(marked)
    <3>1. marked = MarkedOf(rows, a, b)
      BY <2>4 DEF MarkedOf, marked
    <3> QED BY <2>4, <3>1
  <2>8. Pairs(rows) # {}
    BY <1>2, MenuFound
  <2> HIDE DEF n
  <2> QED BY <2>5, <2>6, <2>7, <2>8, Zenon DEF MenuIsExact, m, listed, marked
<1> QED BY <1>1, <1>2

(* What KeysPick says of option i and an app with its cursor on row c.     *)
PickOk(rows, m, i, c) ==
  LET row == m.options[i].raw_row
      picked == Picked(rows, c, MenuSelectKeys(m, i))
  IN IF rows[row].text = "10. label"
     THEN {r \in ListRows(rows) : IsMarked(rows[r])} = {c} => picked = {row}
     ELSE picked = {r \in ListRows(rows) : rows[r].text = rows[row].text}

(* On a list from row a to row b, with option i on row a + (i - 1).        *)
LEMMA PickIsMeant ==
  ASSUME NEW rows \in Seq(Row), NEW m, NEW a \in Nat, NEW b \in Nat, FoundAt(rows, m, a, b),
         NEW i \in DOMAIN m.options, NEW c \in ListRows(rows)
  PROVE  PickOk(rows, m, i, c)
<1> DEFINE n == (b - a) + 1
           row == m.options[i].raw_row
           keys == MenuSelectKeys(m, i)
           text == rows[row].text
           picked == Picked(rows, c, keys)
<1>0. /\ a < b /\ ListRows(rows) = a .. b /\ DOMAIN m.options = 1 .. n
      /\ m.selected = IF MarkedOf(rows, a, b) = {} THEN 0 ELSE Max(MarkedOf(rows, a, b))
      /\ row = a + (i - 1) /\ m.options[i].hotkey = Hotkey(text)
      /\ \A r \in a .. b : IsOption(rows[r])
  BY DEF FoundAt
<1>1. /\ n \in Nat /\ i \in 1 .. n /\ c \in a .. b /\ row \in a .. b
      /\ \A r \in a .. b : r - a + 1 \in 1 .. n /\ r = a + ((r - a + 1) - 1)
      /\ \A j \in 1 .. n : a + (j - 1) \in a .. b
  BY <1>0, RowsAreOptions
<1>2. text \in OptionText
  BY <1>0, <1>1 DEF IsOption
<1> HIDE DEF n, row, keys, text, picked
<1>3. picked = IF Presses(keys, "enter") = 0
               THEN {r \in ListRows(rows) : [keys |-> keys, text |-> rows[r].text] \in OneKey}
               ELSE {c + Presses(keys, "down") - Presses(keys, "up")}
  BY Zenon DEF Picked, Presses, picked
<1>4. ASSUME text # "10. label" PROVE picked = {r \in ListRows(rows) : rows[r].text = text}
  <2>1. \/ text = "1. label" /\ Hotkey(text) = <<"1">>
        \/ text = "[a] label" /\ Hotkey(text) = <<"a">>
    BY <1>2, <1>4 DEF OptionText, Hotkey
  <2>2. keys = Hotkey(text)
    <3>0. m.options[i].hotkey = Hotkey(text)
      BY <1>0
    <3>1. m.options[i].hotkey # <<>>
      <4>1. <<"1">> # <<>> /\ <<"a">> # <<>>
        OBVIOUS
      <4> QED BY <2>1, <3>0, <4>1, Zenon
    <3>2. keys = m.options[i].hotkey
      BY <3>1, Zenon DEF MenuSelectKeys, keys
    <3> QED BY <3>0, <3>2, Zenon
  <2>3. {j \in DOMAIN keys : keys[j] = "enter"} = {}
    <3>1. \A k \in {"1", "a"} : {j \in DOMAIN <<k>> : <<k>>[j] = "enter"} = {}
      OBVIOUS
    <3>2. keys = <<"1">> \/ keys = <<"a">>
      BY <2>1, <2>2, Zenon
    <3> QED BY <3>1, <3>2, Zenon
  <2>4. Presses(keys, "enter") = 0
    BY <2>3, FS_EmptySet DEF Presses
  <2>5. picked = {r \in ListRows(rows) : [keys |-> keys, text |-> rows[r].text] \in OneKey}
    BY <1>3, <2>4
  <2>6. \A t : [keys |-> keys, text |-> t] \in OneKey <=> t = text
    <3>1. CASE text = "1. label"
      <4>1. keys = <<"1">> /\ <<"1">> # <<"a">>
        BY <2>1, <2>2, <3>1
      <4> QED BY <3>1, <4>1 DEF OneKey
    <3>2. CASE text = "[a] label"
      <4>1. keys = <<"a">> /\ <<"1">> # <<"a">>
        BY <2>1, <2>2, <3>2
      <4> QED BY <3>2, <4>1 DEF OneKey
    <3> QED BY <2>1, <3>1, <3>2
  <2> QED BY <2>5, <2>6
<1>5. ASSUME text = "10. label", {r \in ListRows(rows) : IsMarked(rows[r])} = {c}
      PROVE  picked = {row}
  <2> DEFINE k == c - a + 1
  <2>1. k \in 1 .. n /\ c = a + (k - 1)
    BY <1>1
  <2> HIDE DEF k
  <2>2. MarkedOf(rows, a, b) = {k}
    <3>1. MarkedOf(rows, a, b) = {j \in 1 .. n : IsMarked(rows[a + (j - 1)])}
      BY DEF MarkedOf, n
    <3>2. \A j \in 1 .. n : IsMarked(rows[a + (j - 1)]) <=> a + (j - 1) = c
      BY <1>0, <1>1, <1>5
    <3>3. \A j \in 1 .. n : a + (j - 1) = c <=> j = k
      BY <1>1, <2>1
    <3> QED BY <2>1, <3>1, <3>2, <3>3
  <2>3. m.selected = k
    <3>1. Max({k}) = k
      <4>1. {k} \in SUBSET (1 .. n) /\ {k} # {}
        BY <2>1
      <4>2. Max({k}) \in {k}
        BY <1>1, <4>1, MaxPosition
      <4> QED BY <4>2
    <3> QED BY <1>0, <2>2, <3>1
  <2>4. m.options[i].hotkey = <<>>
    BY <1>0, <1>5 DEF Hotkey
  <2>5. /\ Presses(keys, "enter") = 1
        /\ Presses(keys, "down") \in Nat /\ Presses(keys, "up") \in Nat
        /\ k + Presses(keys, "down") - Presses(keys, "up") = i
    BY <1>1, <2>1, <2>3, <2>4, KeysLand DEF keys
  <2>6. picked = {c + Presses(keys, "down") - Presses(keys, "up")}
    BY <1>3, <2>5
  <2>7. c + Presses(keys, "down") - Presses(keys, "up") = row
    <3>1. row = a + (i - 1) /\ i \in Int /\ k \in Int
      BY <1>0, <1>1, <2>1
    <3> QED BY <2>1, <2>5, <3>1
  <2> QED BY <2>6, <2>7
<1> QED BY <1>4, <1>5 DEF PickOk, row, keys, text, picked

LEMMA KeysPickWhatIsMeant ==
  ASSUME NEW rows \in Seq(Row)
  PROVE  KeysPick(rows)
<1> DEFINE m == DetectMenu(rows)[1]
<1>1. CASE LastRun(rows) = <<>>
  BY <1>1, LastRunFinds DEF KeysPick
<1>2. CASE LastRun(rows) # <<>>
  <2> HIDE DEF m
  <2>1. PICK a, b \in Nat : FoundAt(rows, m, a, b)
    BY <1>2, MenuFound DEF m
  <2>2. ASSUME NEW i \in DOMAIN m.options, NEW c \in ListRows(rows) PROVE PickOk(rows, m, i, c)
    BY <2>1, PickIsMeant
  <2> QED BY <2>2, Zenon DEF KeysPick, PickOk, m
<1> QED BY <1>1, <1>2

-----------------------------------------------------------------------------
(***************************************************************************)
(* The window.                                                             *)
(***************************************************************************)
Document == [lines : Nat, wrapped : BOOLEAN]

ViewTyped ==
  /\ doc \in Document /\ blocks \in Document
  /\ screen \in FirstScreens \cup Screens
  /\ height \in Heights
  /\ ui \in {"detect", "draw", "select"}
  /\ mode \in {"Watch", "Interact"}
  /\ scroll \in Nat
  /\ MenuOk(menu)

(* The view's document is the engine's, or one before it.                  *)
Lagging ==
  /\ blocks.lines =< doc.lines
  /\ ~woken => blocks = doc

Picture == [kind : {"screen", "blocks"}, top : Nat, height : Nat, doc : Document]

(* As long as no key has come, the picture is of the state of the loop, or *)
(* of one in which the document was shorter.                               *)
Pictured ==
  /\ shown = Nothing \/ shown \in Picture
  /\ ui = "select" => ~keyed /\ shown.doc = blocks
  /\ ~keyed /\ Counted(shown) =>
       /\ shown.top = scroll
       /\ shown.doc.lines =< blocks.lines
       /\ follow => NewestInView(shown)

ViewInv == ViewTyped /\ Lagging /\ Pictured

LEMMA MinusType ==
  ASSUME NEW a \in Nat, NEW b \in Nat
  PROVE  Minus(a, b) \in Nat /\ Minus(a, b) + b >= a /\ (a >= b => Minus(a, b) + b = a)
BY DEF Minus

LEMMA InnerHeightType ==
  ASSUME height \in Heights, MenuOk(menu)
  PROVE  InnerHeight \in Nat
<1>1. MenuHeight \in Nat /\ height \in Nat
  <2>1. CASE menu = <<>>
    BY <2>1, HeightAssumption DEF MenuHeight
  <2>2. CASE menu # <<>>
    <3>1. PICK m \in Menu : menu = <<m>>
      BY <2>2 DEF MenuOk
    <3>2. m.options \in Seq(Option) /\ menu[1] = m
      BY <3>1 DEF Menu
    <3> HIDE DEF Option
    <3>3. Len(menu[1].options) \in Nat
      BY <3>2
    <3> QED BY <2>2, <3>3, HeightAssumption DEF MenuHeight
  <2> QED BY <2>1, <2>2
<1> DEFINE body == Minus(height, MenuHeight + 1)
<1>2. body \in Nat
  BY <1>1, MinusType
<1> HIDE DEF body
<1>3. (IF body = 0 THEN 1 ELSE body) \in Nat /\ 2 \in Nat
  BY <1>2
<1>4. Minus(IF body = 0 THEN 1 ELSE body, 2) \in Nat
  BY <1>3, MinusType
<1> QED BY <1>4 DEF InnerHeight, body

(* A count that fits is kept.                                              *)
LEMMA Fits ==
  ASSUME NEW n \in Nat, n < U16
  PROVE  n % U16 = n
BY U16Assumption

LEMMA Modulo ==
  ASSUME NEW n \in Nat
  PROVE  n % U16 \in Nat
BY U16Assumption

LEMMA MaxScrollType ==
  ASSUME ViewTyped, NEW n \in Nat
  PROVE  /\ InnerHeight \in Nat /\ MaxScroll(n) \in Nat
         /\ n < U16 => /\ MaxScroll(n) + InnerHeight >= n
                       /\ n >= InnerHeight => MaxScroll(n) + InnerHeight = n
<1>1. InnerHeight \in Nat
  BY InnerHeightType DEF ViewTyped
<1>2. n % U16 \in Nat /\ (n < U16 => n % U16 = n)
  BY Fits, Modulo
<1> QED BY <1>1, <1>2, MinusType DEF MaxScroll

LEMMA NothingUncounted == ~Counted(Nothing)
BY DEF Counted, Nothing

LEMMA ViewInit == Init => ViewInv
<1> SUFFICES ASSUME Init PROVE ViewInv
  OBVIOUS
<1>1. EmptyDoc \in Document /\ EmptyDoc.lines = 0
  BY DEF EmptyDoc, Document
<1>2. ViewTyped
  BY <1>1 DEF Init, ViewTyped, MenuOk
<1>3. Lagging
  BY <1>1 DEF Init, Lagging
<1>4. Pictured
  BY NothingUncounted DEF Init, Pictured
<1> QED BY <1>2, <1>3, <1>4 DEF ViewInv

LEMMA ViewTypedStep == ViewInv /\ [Next]_vars => ViewTyped'
<1> SUFFICES ASSUME ViewInv, [Next]_vars PROVE ViewTyped'
  OBVIOUS
<1> USE DEF ViewInv
<1>1. CASE Output
  <2>1. doc' \in Document
    BY <1>1 DEF Output, ViewTyped, Document
  <2> QED BY <1>1, <2>1 DEF Output, ViewTyped
<1>2. CASE Paint \/ TerminalResized
  BY <1>2 DEF Paint, TerminalResized, loop, ViewTyped
<1>3. CASE Detect
  <2>1. MenuOk(menu')
    <3>1. CASE mode = "Interact"
      <4>1. menu' = DetectMenu(screen.rows) /\ screen.rows \in Seq(Row)
        BY <1>3, <3>1, ScreenAssumption DEF Detect, ViewTyped
      <4> QED BY <4>1, MenuTyped DEF MenuOk
    <3>2. CASE mode # "Interact"
      BY <1>3, <3>2 DEF Detect, MenuOk
    <3> QED BY <3>1, <3>2
  <2> QED BY <1>3, <2>1 DEF Detect, ViewTyped
<1>4. CASE Draw
  <2>1. MaxScroll(blocks.lines) \in Nat
    <3>1. blocks.lines \in Nat
      BY DEF ViewTyped, Document
    <3> QED BY <3>1, MaxScrollType
  <2>2. scroll' \in Nat
    BY <1>4, <2>1 DEF Draw, ViewTyped
  <2> QED BY <1>4, <2>2 DEF Draw, ViewTyped
<1>5. CASE Wake \/ OtherEvent \/ Follow \/ Cycle \/ ThroughRaw
  BY <1>5 DEF Wake, OtherEvent, Follow, Cycle, ThroughRaw, Key, ViewTyped
<1>6. CASE Scroll
  <2>1. PICK n \in {1, 10} : Up(n) \/ Down(n)
    BY <1>6 DEF Scroll
  <2>2. UNCHANGED <<mode, blocks>> /\ scroll' \in Nat
    <3>1. CASE Up(n)
      <4>1. Minus(scroll, n) \in Nat
        BY MinusType DEF ViewTyped
      <4> QED BY <3>1, <4>1 DEF Up
    <3>2. CASE Down(n)
      BY <3>2, U16Assumption DEF Down, ViewTyped
    <3> QED BY <2>1, <3>1, <3>2
  <2> QED BY <1>6, <2>2 DEF Scroll, Key, ViewTyped
<1>7. CASE UNCHANGED vars
  BY <1>7 DEF vars, loop, ViewTyped
<1> QED BY <1>1, <1>2, <1>3, <1>4, <1>5, <1>6, <1>7 DEF Next

LEMMA LaggingStep == ViewInv /\ [Next]_vars => Lagging'
<1> SUFFICES ASSUME ViewInv, [Next]_vars PROVE Lagging'
  OBVIOUS
<1> USE DEF ViewInv, Lagging
<1>0. doc.lines \in Nat /\ blocks.lines \in Nat
  BY DEF ViewTyped, Document
<1>1. CASE Output
  <2>1. doc'.lines = doc.lines + 1 /\ blocks' = blocks /\ woken' = TRUE
    BY <1>1 DEF Output
  <2> QED BY <1>0, <2>1
<1>2. CASE UNCHANGED <<doc, blocks, woken>> \/ (blocks' = doc /\ doc' = doc)
  BY <1>0, <1>2
<1>3. CASE ~Output
  <2>1. UNCHANGED <<doc, blocks, woken>> \/ (blocks' = doc /\ doc' = doc)
    BY <1>3 DEF Next, Paint, TerminalResized, Detect, Draw, Wake, OtherEvent, Scroll, Up, Down,
       Follow, Cycle, ThroughRaw, Key, vars, loop
  <2> QED BY <1>2, <2>1
<1> QED BY <1>1, <1>3

(* What Draw shows.                                                        *)
LEMMA DrawShows ==
  ASSUME ViewInv, Draw
  PROVE  /\ shown' \in Picture /\ shown'.top = scroll' /\ shown'.doc = blocks
         /\ shown'.height = InnerHeight /\ (shown'.kind = "blocks" <=> ~screen.alternate)
<1>1. screen.alternate \in BOOLEAN
  BY ScreenAssumption DEF ViewInv, ViewTyped
<1>2. InnerHeight \in Nat /\ scroll' \in Nat /\ blocks \in Document
  <2>1. Draw => [Next]_vars
    BY DEF Next
  <2> QED BY <2>1, MaxScrollType, ViewTypedStep DEF ViewInv, ViewTyped
<1>3. shown' = [kind |-> IF screen.alternate THEN "screen" ELSE "blocks",
                top |-> scroll', height |-> InnerHeight, doc |-> blocks]
  BY DEF Draw
<1> QED BY <1>1, <1>2, <1>3 DEF Picture

LEMMA PicturedStep == ViewInv /\ [Next]_vars => Pictured'
<1> SUFFICES ASSUME ViewInv, [Next]_vars PROVE Pictured'
  OBVIOUS
<1> USE DEF ViewInv
<1>1. CASE Draw
  <2>1. /\ shown' \in Picture /\ shown'.top = scroll' /\ shown'.doc = blocks
        /\ shown'.height = InnerHeight /\ (shown'.kind = "blocks" <=> ~screen.alternate)
    BY <1>1, DrawShows
  <2>2. blocks' = blocks /\ follow' = follow /\ keyed' = FALSE /\ blocks.lines \in Nat
    BY <1>1 DEF Draw, ViewTyped, Document
  <2>3. ASSUME Counted(shown'), follow PROVE NewestInView(shown')
    <3>1. blocks.lines < U16 /\ ~screen.alternate
      BY <2>1, <2>3 DEF Counted
    <3>2. scroll' = MaxScroll(blocks.lines)
      BY <1>1, <2>3, <3>1 DEF Draw
    <3>3. MaxScroll(blocks.lines) + InnerHeight >= blocks.lines
      BY <2>2, <3>1, MaxScrollType
    <3> QED BY <2>1, <3>2, <3>3 DEF NewestInView
  <2>4. Counted(shown)' = Counted(shown') /\ NewestInView(shown)' = NewestInView(shown')
    BY DEF Counted, NewestInView
  <2> QED BY <2>1, <2>2, <2>3, <2>4 DEF Pictured
<1>2. CASE ~Draw /\ (UNCHANGED <<blocks, scroll, follow, keyed, shown>> \/ keyed' \/ Wake)
  <2>1. shown' = shown
    BY <1>2 DEF Next, Output, Paint, TerminalResized, Detect, Wake, OtherEvent, Scroll, Follow,
       Cycle, ThroughRaw, Key, vars, loop
  <2>2. ui' = "select" => ui = "select" /\ UNCHANGED <<blocks, keyed>>
    BY <1>2 DEF Next, Output, Paint, TerminalResized, Detect, Wake, OtherEvent, Scroll, Follow,
       Cycle, ThroughRaw, Key, vars, loop
  <2>3. Counted(shown)' = Counted(shown) /\ NewestInView(shown)' = NewestInView(shown)
    BY <2>1 DEF Counted, NewestInView
  <2>4. CASE UNCHANGED <<blocks, scroll, follow, keyed, shown>>
    BY <2>1, <2>2, <2>3, <2>4 DEF Pictured
  <2>5. CASE keyed'
    BY <2>1, <2>2, <2>3, <2>5 DEF Pictured
  <2>6. CASE Wake
    <3>1. /\ blocks' = doc /\ UNCHANGED <<scroll, follow, keyed>> /\ ui' = "detect"
          /\ blocks.lines =< doc.lines /\ blocks.lines \in Nat /\ doc.lines \in Nat
      BY <2>6 DEF Wake, Lagging, ViewTyped, Document
    <3>2. ASSUME ~keyed, Counted(shown) PROVE shown.doc.lines =< doc.lines
      <4>1. shown.doc.lines =< blocks.lines
        BY <3>2 DEF Pictured
      <4>2. shown.doc.lines \in Nat
        BY <3>2, NothingUncounted DEF Pictured, Picture, Document
      <4> QED BY <3>1, <4>1, <4>2
    <3> QED BY <2>1, <2>3, <3>1, <3>2 DEF Pictured
  <2> QED BY <1>2, <2>4, <2>5, <2>6
<1>3. CASE ~Draw
  <2>1. UNCHANGED <<blocks, scroll, follow, keyed, shown>> \/ keyed' \/ Wake
    BY <1>3 DEF Next, Output, Paint, TerminalResized, Detect, OtherEvent, Scroll, Follow, Cycle,
       ThroughRaw, Key, vars, loop
  <2> QED BY <1>2, <1>3, <2>1
<1> QED BY <1>1, <1>3

(* The invariant of the view is inductive.                                 *)
THEOREM ViewInvariant == Spec => []ViewInv
<1>1. ViewInv /\ [Next]_vars => ViewInv'
  BY ViewTypedStep, LaggingStep, PicturedStep DEF ViewInv
<1> QED BY ViewInit, <1>1, PTL DEF Spec

(* A view that follows shows the newest line, whatever room a menu takes   *)
(* and however the terminal was resized (session_ui.rs:337-365, 385).      *)
THEOREM NewestIsShown == Spec => []FollowShowsNewest
<1>1. ViewInv => FollowShowsNewest
  BY DEF ViewInv, Lagging, Pictured, FollowShowsNewest
<1> QED BY <1>1, ViewInvariant, PTL

LEMMA DrawKeepsPlace ==
  ASSUME ViewInv, Draw, ~keyed, Counted(shown), Counted(shown')
  PROVE  shown'.top = shown.top \/ NewestInView(shown) \/ shown'.height > shown.height
<1>1. /\ shown'.top = scroll' /\ shown'.doc = blocks /\ shown'.height = InnerHeight
      /\ ~screen.alternate /\ blocks.lines < U16 /\ InnerHeight \in Nat
  BY DrawShows, MaxScrollType DEF Counted, ViewInv, Picture
<1>2. /\ shown.top = scroll /\ shown.doc.lines =< blocks.lines
      /\ follow => NewestInView(shown)
  BY DEF ViewInv, Pictured
<1>3. /\ scroll \in Nat /\ blocks.lines \in Nat /\ shown.height \in Nat /\ shown.doc.lines \in Nat
      /\ shown.height > 0
  BY NothingUncounted DEF ViewInv, ViewTyped, Pictured, Picture, Document, Counted
<1>4. CASE follow
  BY <1>2, <1>4
<1>5. CASE ~follow /\ ~(scroll > MaxScroll(blocks.lines))
  <2>1. scroll' = scroll
    BY <1>1, <1>5 DEF Draw
  <2> QED BY <1>1, <1>2, <2>1
<1>6. CASE ~follow /\ scroll > MaxScroll(blocks.lines)
  <2>1. SUFFICES ASSUME ~(InnerHeight > shown.height) PROVE NewestInView(shown)
    BY <1>1
  <2>2. MaxScroll(blocks.lines) \in Nat /\ MaxScroll(blocks.lines) + InnerHeight >= blocks.lines
    BY <1>1, <1>3, MaxScrollType DEF ViewInv
  <2> QED BY <1>1, <1>2, <1>3, <1>6, <2>1, <2>2 DEF NewestInView
<1> QED BY <1>4, <1>5, <1>6

(* Output does not move the window of a reader of older lines              *)
(* (session_ui.rs:361-365).                                                *)
THEOREM ReaderKeepsPlace == Spec => KeepsPlace
<1>1. ViewInv /\ [Next]_vars =>
        [Draw /\ ~keyed /\ Counted(shown) /\ Counted(shown') =>
           \/ shown'.top = shown.top
           \/ NewestInView(shown)
           \/ shown'.height > shown.height]_vars
  BY DrawKeepsPlace
<1> QED BY <1>1, ViewInvariant, PTL DEF Spec, KeepsPlace

(* On every screen, the menu found is the lowest list of options that a    *)
(* user sees there, whatever lies above it; without a list, a question at  *)
(* the end (menu.rs:4-8).                                                  *)
THEOREM MenusAreWhatIsSeen == Spec => []MenuExact
<1>1. ViewInv => MenuExact
  <2>1. ViewInv => screen.rows \in Seq(Row)
    BY ScreenAssumption DEF ViewInv, ViewTyped
  <2> QED BY <2>1, MenusAreExact DEF MenuExact
<1> QED BY <1>1, ViewInvariant, PTL

(* On every screen, the keys for an option make an app pick its row, by    *)
(* the key that the row shows or from the only marked row                  *)
(* (input.rs:88-109).                                                      *)
THEOREM PicksReachOptions == Spec => []PickReachesOption
<1>1. ViewInv => PickReachesOption
  <2>1. ViewInv => screen.rows \in Seq(Row)
    BY ScreenAssumption DEF ViewInv, ViewTyped
  <2> QED BY <2>1, KeysPickWhatIsMeant DEF PickReachesOption
<1> QED BY <1>1, ViewInvariant, PTL
=============================================================================

---------------------------- MODULE AdaptersProofs ----------------------------
(***************************************************************************)
(* Proofs about the two adapters, for output of any length: what a reader  *)
(* sees between any two calls, and between any two lines; and, at the end, *)
(* that the floor's bytes become the lines the whole output defines.       *)
(***************************************************************************)
EXTENDS Adapters, FloorLines, BlockLogProofs, FiniteSetTheorems, SequenceTheorems, TLAPS

None == -1          \* no block is open: NoId, and the id of NoBlock

LastBlock(l) == l.blocks[Len(l.blocks)]

(* A block as Document shows it, and Document of any log. *)
Shows(block) == [kind |-> block.kind, text |-> block.text, complete |-> block.complete]

DocOf(l) == [i \in 1 .. Len(l.blocks) |-> Shows(l.blocks[i].block)]

DocBlock == [kind : BlockKind, text : Seq(Text), complete : BOOLEAN]

(* A log an adapter makes: at most one block is open, the last.            *)
ChatLog(l, open) ==
  /\ IsLog(l) /\ WellFormed(l)
  /\ \A i \in 1 .. Len(l.blocks) :
       /\ l.blocks[i].block.kind \in ClosableKind
       /\ l.blocks[i].block.complete <=> l.blocks[i].id # open
  /\ open # None => l.blocks # <<>> /\ LastBlock(l).id = open

-----------------------------------------------------------------------------
(***************************************************************************)
(* The three calls an adapter makes, in the logs it makes them in.         *)
(***************************************************************************)
NewBlock(kind) == [kind |-> kind, text |-> <<>>, complete |-> FALSE]

MoreText(d, chunk) == [d EXCEPT ![Len(d)].text = Append(@, chunk)]

LastClosed(d) == [d EXCEPT ![Len(d)].complete = TRUE]

LEMMA ShowsOf ==
  ASSUME NEW block \in Block
  PROVE  /\ Shows(block) \in DocBlock
         /\ Shows(block).kind = block.kind
         /\ Shows(block).text = block.text
         /\ Shows(block).complete = block.complete
BY DEF Shows, Block, DocBlock

LEMMA ShowsMore ==
  ASSUME NEW old \in Block, NEW new \in Block, NEW chunk,
         new.kind = old.kind, new.text = Append(old.text, chunk),
         new.complete = old.complete
  PROVE  Shows(new) = [Shows(old) EXCEPT !.text = Append(@, chunk)]
<1>1. ASSUME NEW x \in DocBlock, NEW y \in DocBlock,
             y.kind = x.kind, y.text = Append(x.text, chunk), y.complete = x.complete
      PROVE  y = [x EXCEPT !.text = Append(@, chunk)]
  BY <1>1 DEF DocBlock
<1>2. Shows(old) \in DocBlock /\ Shows(new) \in DocBlock
  BY ShowsOf
<1>3. /\ Shows(new).kind = Shows(old).kind
      /\ Shows(new).text = Append(Shows(old).text, chunk)
      /\ Shows(new).complete = Shows(old).complete
  BY DEF Shows
<1> QED BY <1>1, <1>2, <1>3

LEMMA ShowsClosed ==
  ASSUME NEW old \in Block, NEW new \in Block,
         new.kind = old.kind, new.text = old.text, new.complete = TRUE
  PROVE  Shows(new) = [Shows(old) EXCEPT !.complete = TRUE]
<1>1. ASSUME NEW x \in DocBlock, NEW y \in DocBlock,
             y.kind = x.kind, y.text = x.text, y.complete = TRUE
      PROVE  y = [x EXCEPT !.complete = TRUE]
  BY <1>1 DEF DocBlock
<1>2. Shows(old) \in DocBlock /\ Shows(new) \in DocBlock
  BY ShowsOf
<1>3. /\ Shows(new).kind = Shows(old).kind
      /\ Shows(new).text = Shows(old).text
      /\ Shows(new).complete = TRUE
  BY DEF Shows
<1> QED BY <1>1, <1>2, <1>3

LEMMA ChatLogShape ==
  ASSUME NEW l, NEW open, ChatLog(l, open)
  PROVE  /\ l.blocks \in Seq(Entry) /\ Len(l.blocks) \in Nat /\ l.next_id \in Nat
         /\ Len(DocOf(l)) = Len(l.blocks)
         /\ DocOf(l) \in Seq(DocBlock)
         /\ \A i \in 1 .. Len(l.blocks) : l.blocks[i] \in Entry
         /\ open # None => /\ Len(l.blocks) \in 1 .. Len(l.blocks)
                           /\ open \in DOMAIN l.index
                           /\ l.index[open] = Len(l.blocks)
<1>1. l.blocks \in Seq(Entry) /\ Len(l.blocks) \in Nat /\ l.next_id \in Nat
  BY DEF ChatLog, IsLog
<1>2. \A i \in 1 .. Len(l.blocks) : l.blocks[i] \in Entry
  BY <1>1
<1>3. /\ Len(DocOf(l)) = Len(l.blocks)
      /\ DocOf(l) \in Seq(DocBlock)
  <2>1. \A i \in 1 .. Len(l.blocks) : Shows(l.blocks[i].block) \in DocBlock
    BY <1>2 DEF Shows, Entry, Block, DocBlock
  <2> QED BY <1>1, <2>1 DEF DocOf
<1>4. ASSUME open # None
      PROVE  /\ Len(l.blocks) \in 1 .. Len(l.blocks)
             /\ open \in DOMAIN l.index
             /\ l.index[open] = Len(l.blocks)
  <2>1. Len(l.blocks) \in 1 .. Len(l.blocks)
    BY <1>1, <1>4 DEF ChatLog
  <2> QED BY <1>4, <2>1 DEF ChatLog, WellFormed, LastBlock
<1> QED BY <1>1, <1>2, <1>3, <1>4

LEMMA AppendChat ==
  ASSUME NEW l, ChatLog(l, None), NEW kind \in ClosableKind
  PROVE  /\ ChatLog(LogAppend(l, kind), l.next_id)
         /\ LogAppend(l, kind).next_id = l.next_id + 1
         /\ l.next_id # None
         /\ DocOf(LogAppend(l, kind)) = Append(DocOf(l), NewBlock(kind))
<1> DEFINE m == LogAppend(l, kind)
           n == Len(l.blocks)
           e == [id |-> l.next_id, rev |-> 0, block |-> EmptyBlock(kind)]
<1>1. /\ l.blocks \in Seq(Entry) /\ n \in Nat /\ l.next_id \in Nat
      /\ DocOf(l) \in Seq(DocBlock)
      /\ Len(DocOf(l)) = n
  BY ChatLogShape
<1>2. kind \in BlockKind
  BY DEF ClosableKind, BlockKind
<1>3. IsLog(m) /\ WellFormed(m)
  BY <1>2, AppendSound DEF ChatLog
<1>4. e \in Entry
  BY <1>1, <1>2, EmptyBlockType DEF Entry, BlockId
<1>5. m.blocks = Append(l.blocks, e) /\ m.next_id = l.next_id + 1
  BY DEF LogAppend
<1>6. /\ e.id = l.next_id /\ e.block.kind = kind /\ e.block.text = <<>>
      /\ e.block.complete = FALSE
  BY DEF EmptyBlock
<1> HIDE DEF m, e
<1>7. /\ Len(m.blocks) = n + 1 /\ m.blocks[n + 1] = e
      /\ \A i \in 1 .. n : m.blocks[i] = l.blocks[i]
  BY <1>1, <1>4, <1>5
<1>8. \A i \in 1 .. n : l.blocks[i].id < l.next_id /\ l.blocks[i].id \in Nat
  <2>1. \A i \in 1 .. n : l.blocks[i] \in Entry
    BY <1>1
  <2> QED BY <2>1 DEF ChatLog, WellFormed, Entry, BlockId
<1>9. ChatLog(m, l.next_id)
  <2>1. \A i \in 1 .. n + 1 : /\ m.blocks[i].block.kind \in ClosableKind
                              /\ m.blocks[i].block.complete <=> m.blocks[i].id # l.next_id
    <3>1. TAKE i \in 1 .. n + 1
    <3>2. CASE i = n + 1
      BY <1>6, <1>7, <3>2
    <3>3. CASE i \in 1 .. n
      <4>1. l.blocks[i].id # None /\ l.blocks[i].id # l.next_id
        BY <1>1, <1>8, <3>3 DEF None
      <4>2. l.blocks[i].block.kind \in ClosableKind /\ l.blocks[i].block.complete
        BY <3>3, <4>1 DEF ChatLog
      <4> QED BY <1>7, <3>3, <4>1, <4>2
    <3> QED BY <1>1, <3>2, <3>3
  <2> QED BY <1>1, <1>3, <1>6, <1>7, <2>1 DEF ChatLog, LastBlock
<1>10. DocOf(m) = Append(DocOf(l), NewBlock(kind))
  <2>1. NewBlock(kind) \in DocBlock
    BY <1>2 DEF NewBlock, DocBlock
  <2>2. Shows(e.block) = NewBlock(kind)
    BY <1>6 DEF Shows, NewBlock
  <2>3. DocOf(m) = [i \in 1 .. n + 1 |-> Shows(m.blocks[i].block)]
    BY <1>7 DEF DocOf
  <2>4. \A i \in 1 .. n : Shows(m.blocks[i].block) = DocOf(l)[i]
    BY <1>7 DEF DocOf
  <2> DEFINE s == DocOf(m)
             t == Append(DocOf(l), NewBlock(kind))
  <2>5. /\ s \in Seq(DocBlock) /\ t \in Seq(DocBlock)
        /\ Len(s) = n + 1 /\ Len(t) = n + 1
    BY <1>1, <1>7, <1>9, <2>1, ChatLogShape
  <2>6. ASSUME NEW i \in 1 .. n + 1 PROVE s[i] = t[i]
    <3>1. CASE i = n + 1
      BY <1>1, <1>7, <2>1, <2>2, <2>3, <3>1
    <3>2. CASE i \in 1 .. n
      BY <1>1, <2>1, <2>3, <2>4, <3>2
    <3> QED BY <1>1, <3>1, <3>2
  <2> HIDE DEF s, t
  <2>7. s = t
    BY <2>5, <2>6, SeqEqual
  <2> QED BY <2>7 DEF s, t
<1> QED BY <1>1, <1>5, <1>9, <1>10 DEF m, None

(* An edit of the open block, which stays open or is closed.               *)
LEMMA EditChat ==
  ASSUME NEW l, NEW open, ChatLog(l, open), open # None, NEW block \in Block,
         block.kind = LastBlock(l).block.kind,
         NEW still, still = IF block.complete THEN None ELSE open
  PROVE  /\ ChatLog(Edit(l, open, block), still)
         /\ Edit(l, open, block).next_id = l.next_id
         /\ DocOf(Edit(l, open, block)) =
              [DocOf(l) EXCEPT ![Len(DocOf(l))] = Shows(block)]
<1> DEFINE m == Edit(l, open, block)
           n == Len(l.blocks)
<1>1. /\ l.blocks \in Seq(Entry) /\ n \in Nat /\ n \in 1 .. n
      /\ open \in DOMAIN l.index /\ l.index[open] = n /\ Len(DocOf(l)) = n
      /\ \A i \in 1 .. n : l.blocks[i] \in Entry
  BY ChatLogShape
<1>2. /\ m = [blocks |-> m.blocks, index |-> l.index, next_id |-> l.next_id]
      /\ m.blocks \in Seq(Entry) /\ Len(m.blocks) = n
      /\ m.blocks[n].id = open /\ m.blocks[n].block = block
      /\ \A i \in 1 .. n : i # n => m.blocks[i] = l.blocks[i]
  BY <1>1, EditShape DEF ChatLog
<1>3. IsLog(m) /\ WellFormed(m)
  BY <1>1, EditSound DEF ChatLog
<1> HIDE DEF m
<1>4. ASSUME NEW i \in 1 .. n
      PROVE  /\ m.blocks[i].block.kind \in ClosableKind
             /\ m.blocks[i].block.complete <=> m.blocks[i].id # still
  <2>1. CASE i = n
    <3>1. block.kind \in ClosableKind
      BY <1>1 DEF ChatLog, LastBlock
    <3> QED BY <1>2, <2>1, <3>1
  <2>2. CASE i # n
    <3>1. l.blocks[i].id # l.blocks[n].id /\ l.blocks[n].id = open /\ l.blocks[i].id # None
      BY <1>1, <2>2, SMTT(30) DEF ChatLog, WellFormed, LastBlock, Entry, BlockId, None
    <3>2. l.blocks[i].block.kind \in ClosableKind /\ l.blocks[i].block.complete
      BY <3>1 DEF ChatLog
    <3> QED BY <1>2, <2>2, <3>1, <3>2
  <2> QED BY <2>1, <2>2
<1>5. ChatLog(m, still)
  BY <1>1, <1>2, <1>3, <1>4 DEF ChatLog, LastBlock
<1>6. DocOf(m) = [DocOf(l) EXCEPT ![n] = Shows(block)]
  BY <1>1, <1>2 DEF DocOf
<1> QED BY <1>1, <1>2, <1>5, <1>6 DEF m

LEMMA TextChat ==
  ASSUME NEW l, NEW open, ChatLog(l, open), open # None, NEW chunk \in Text,
         NEW m, m = Perform(l, TextCall(open, chunk))
  PROVE  /\ ChatLog(m, open)
         /\ m.next_id = l.next_id
         /\ DocOf(m) = MoreText(DocOf(l), chunk)
<1> DEFINE n == Len(l.blocks)
           old == LastBlock(l).block
           new == [old EXCEPT !.text = Append(@, chunk)]
<1>1. /\ n \in 1 .. n /\ open \in DOMAIN l.index /\ l.index[open] = n /\ Len(DocOf(l)) = n
      /\ l.blocks[n] \in Entry
  BY ChatLogShape
<1>2. old \in Block /\ old.kind \in ClosableKind /\ ~old.complete
  BY <1>1 DEF LastBlock, Entry, ChatLog
<1>3. new \in Block /\ new.kind = old.kind /\ ~new.complete /\ new.text = Append(old.text, chunk)
  BY <1>2, SMTT(30) DEF Block
<1>4. m = Edit(l, open, new)
  <2>1. m = LogPatch(l, open, [op |-> "AppendText", arg |-> chunk])
    BY <1>1 DEF Perform, TextCall, Known
  <2>2. BlockAt(l, open) = old
    BY <1>1 DEF BlockAt, LastBlock
  <2>3. ApplyPatch(old, [op |-> "AppendText", arg |-> chunk]) = new
    BY <1>2 DEF ApplyPatch, ClosableKind, TextKind
  <2> QED BY <2>1, <2>2, <2>3 DEF LogPatch
<1>5. /\ ChatLog(m, open) /\ m.next_id = l.next_id
      /\ DocOf(m) = [DocOf(l) EXCEPT ![n] = Shows(new)]
  <2>1. new.kind = LastBlock(l).block.kind /\ open = IF new.complete THEN None ELSE open
    BY <1>3
  <2>2. new \in Block
    BY <1>3
  <2> HIDE DEF new
  <2> QED BY <1>1, <1>4, <2>1, <2>2, EditChat
<1>6. DocOf(l)[n] = Shows(old)
  BY <1>1 DEF DocOf, LastBlock
<1>7. new.complete = old.complete
  BY <1>2
<1>8. Shows(new) = [Shows(old) EXCEPT !.text = Append(@, chunk)]
  <2> HIDE DEF new, old
  <2> QED BY <1>2, <1>3, <1>7, ShowsMore
<1> HIDE DEF new, old
<1> QED BY <1>1, <1>5, <1>6, <1>8 DEF MoreText

LEMMA FinalizeChat ==
  ASSUME NEW l, NEW open, ChatLog(l, open), open # None,
         NEW m, m = Perform(l, FinalizeCall(open))
  PROVE  /\ ChatLog(m, None)
         /\ m.next_id = l.next_id
         /\ DocOf(m) = LastClosed(DocOf(l))
<1> DEFINE n == Len(l.blocks)
           old == LastBlock(l).block
           new == [old EXCEPT !.complete = TRUE]
<1>1. /\ n \in 1 .. n /\ open \in DOMAIN l.index /\ l.index[open] = n /\ Len(DocOf(l)) = n
      /\ l.blocks[n] \in Entry
  BY ChatLogShape
<1>2. old \in Block /\ old.kind \in ClosableKind
  BY <1>1 DEF LastBlock, Entry, ChatLog
<1>3. new \in Block /\ new.kind = old.kind /\ new.complete = TRUE /\ new.text = old.text
  BY <1>2 DEF Block
<1>4. m = Edit(l, open, new)
  <2>1. m = LogFinalize(l, open)
    BY <1>1 DEF Perform, FinalizeCall, Known
  <2>2. BlockAt(l, open) = old
    BY <1>1 DEF BlockAt, LastBlock
  <2> QED BY <1>2, <2>1, <2>2 DEF LogFinalize, SetComplete
<1>5. /\ ChatLog(m, None) /\ m.next_id = l.next_id
      /\ DocOf(m) = [DocOf(l) EXCEPT ![n] = Shows(new)]
  <2> HIDE DEF new
  <2> QED BY <1>1, <1>3, <1>4, EditChat
<1>6. DocOf(l)[n] = Shows(old)
  BY <1>1 DEF DocOf, LastBlock
<1>7. Shows(new) = [Shows(old) EXCEPT !.complete = TRUE]
  <2> HIDE DEF new, old
  <2> QED BY <1>2, <1>3, ShowsClosed
<1> HIDE DEF new, old
<1> QED BY <1>1, <1>5, <1>6, <1>7 DEF LastClosed

-----------------------------------------------------------------------------
(***************************************************************************)
(* What the calls do to the document.                                      *)
(***************************************************************************)
LinesIn(d, b) == {d[b].text[k] : k \in 1 .. Len(d[b].text)}

Lines(d) == UNION {LinesIn(d, b) : b \in 1 .. Len(d)}

(* The document shows the lines S in order; strictly: none in two blocks.  *)
Ordered(d, S, strictly) ==
  /\ d \in Seq(DocBlock)
  /\ Lines(d) = S /\ S \subseteq Nat
  /\ \A b \in 1 .. Len(d) :
       \A j, k \in 1 .. Len(d[b].text) : j < k => d[b].text[j] < d[b].text[k]
  /\ \A b, c \in 1 .. Len(d) :
       b < c => \A i \in LinesIn(d, b), j \in LinesIn(d, c) :
                  i =< j /\ (strictly => i # j)

(* What a reader sees of each call, block by block. *)
Opened(d, e, kind) ==
  /\ d \in Seq(DocBlock) /\ e \in Seq(DocBlock) /\ Len(e) = Len(d) + 1
  /\ \A b \in 1 .. Len(d) : e[b] = d[b]
  /\ e[Len(e)] = NewBlock(kind)

Extended(d, e, chunk) ==
  /\ d \in Seq(DocBlock) /\ e \in Seq(DocBlock)
  /\ Len(e) = Len(d) /\ Len(d) \in 1 .. Len(d)
  /\ \A b \in 1 .. Len(d) : b # Len(d) => e[b] = d[b]
  /\ e[Len(d)].text = Append(d[Len(d)].text, chunk)
  /\ e[Len(d)].kind = d[Len(d)].kind

Closed(d, e) ==
  /\ d \in Seq(DocBlock) /\ e \in Seq(DocBlock)
  /\ Len(e) = Len(d) /\ Len(d) \in 1 .. Len(d)
  /\ \A b \in 1 .. Len(d) : e[b].kind = d[b].kind /\ e[b].text = d[b].text

LEMMA OpenShape ==
  ASSUME NEW d \in Seq(DocBlock), NEW kind \in BlockKind
  PROVE  Opened(d, Append(d, NewBlock(kind)), kind)
<1>1. NewBlock(kind) \in DocBlock
  BY DEF NewBlock, DocBlock
<1> QED BY <1>1 DEF Opened

LEMMA ExtendShape ==
  ASSUME NEW d \in Seq(DocBlock), d # <<>>, NEW chunk \in Text
  PROVE  Extended(d, MoreText(d, chunk), chunk)
<1> DEFINE new == [d[Len(d)] EXCEPT !.text = Append(@, chunk)]
           e == [d EXCEPT ![Len(d)] = new]
<1>1. Len(d) \in 1 .. Len(d) /\ d[Len(d)] \in DocBlock
  OBVIOUS
<1>2. /\ new \in DocBlock /\ new.text = Append(d[Len(d)].text, chunk)
      /\ new.kind = d[Len(d)].kind
  <2>1. ASSUME NEW old \in DocBlock, NEW x, x = [old EXCEPT !.text = Append(@, chunk)]
        PROVE  x \in DocBlock /\ x.text = Append(old.text, chunk) /\ x.kind = old.kind
    <3>1. Append(old.text, chunk) \in Seq(Text)
      BY DEF DocBlock
    <3> QED BY <2>1, <3>1 DEF DocBlock
  <2> QED BY <1>1, <2>1
<1>3. e = MoreText(d, chunk)
  BY DEF MoreText
<1> HIDE DEF new
<1>4. e \in Seq(DocBlock) /\ Len(e) = Len(d)
  BY <1>1, <1>2, ExceptSeq
<1>5. /\ \A b \in 1 .. Len(d) : b # Len(d) => e[b] = d[b]
      /\ e[Len(d)] = new
  BY <1>1
<1> HIDE DEF e
<1>6. Extended(d, e, chunk)
  BY <1>1, <1>2, <1>4, <1>5 DEF Extended
<1> QED BY <1>3, <1>6

LEMMA CloseShape ==
  ASSUME NEW d \in Seq(DocBlock), d # <<>>
  PROVE  Closed(d, LastClosed(d))
<1> DEFINE new == [d[Len(d)] EXCEPT !.complete = TRUE]
           e == [d EXCEPT ![Len(d)] = new]
<1>1. Len(d) \in 1 .. Len(d) /\ d[Len(d)] \in DocBlock
  OBVIOUS
<1>2. new \in DocBlock /\ new.text = d[Len(d)].text /\ new.kind = d[Len(d)].kind
  BY <1>1 DEF DocBlock
<1>3. e = LastClosed(d)
  BY DEF LastClosed
<1> HIDE DEF new
<1>4. e \in Seq(DocBlock) /\ Len(e) = Len(d)
  BY <1>1, <1>2, ExceptSeq
<1>5. /\ \A b \in 1 .. Len(d) : b # Len(d) => e[b] = d[b]
      /\ e[Len(d)] = new
  BY <1>1
<1> HIDE DEF e
<1>6. Closed(d, e)
  BY <1>1, <1>2, <1>4, <1>5 DEF Closed
<1> QED BY <1>3, <1>6

LEMMA OpenOrdered ==
  ASSUME NEW S, NEW strictly, NEW d, Ordered(d, S, strictly),
         NEW kind, NEW e, Opened(d, e, kind)
  PROVE  Ordered(e, S, strictly)
<1>1. /\ Len(e) = Len(d) + 1 /\ Len(d) \in Nat
      /\ \A b \in 1 .. Len(d) : e[b] = d[b]
      /\ e[Len(e)].text = <<>>
  BY DEF Opened, NewBlock
<1>2. /\ \A b \in 1 .. Len(d) : LinesIn(e, b) = LinesIn(d, b)
      /\ LinesIn(e, Len(e)) = {}
  BY <1>1 DEF LinesIn
<1>3. Lines(e) = Lines(d)
  BY <1>1, <1>2 DEF Lines
<1>4. \A b \in 1 .. Len(e) :
        \A j, k \in 1 .. Len(e[b].text) : j < k => e[b].text[j] < e[b].text[k]
  BY <1>1 DEF Ordered
<1>5. \A b, c \in 1 .. Len(e) :
        b < c => \A i \in LinesIn(e, b), j \in LinesIn(e, c) :
                   i =< j /\ (strictly => i # j)
  BY <1>1, <1>2 DEF Ordered
<1> QED BY <1>1, <1>3, <1>4, <1>5 DEF Ordered, Opened

LEMMA ExtendLines ==
  ASSUME NEW d, NEW e, NEW chunk \in Text, Extended(d, e, chunk)
  PROVE  /\ \A b \in 1 .. Len(d) : b # Len(d) => LinesIn(e, b) = LinesIn(d, b)
         /\ LinesIn(e, Len(d)) = LinesIn(d, Len(d)) \cup {chunk}
         /\ Lines(e) = Lines(d) \cup {chunk}
<1> DEFINE n == Len(d)
           t == d[n].text
           u == e[n].text
<1>1. /\ n \in 1 .. n /\ n \in Nat /\ Len(e) = n
      /\ t \in Seq(Text) /\ u = Append(t, chunk)
  <2>1. n \in 1 .. n /\ n \in Nat /\ Len(e) = n /\ u = Append(t, chunk)
    BY DEF Extended
  <2>2. d[n] \in DocBlock
    BY DEF Extended
  <2> QED BY <2>1, <2>2 DEF DocBlock
<1>2. \A b \in 1 .. n : b # n => LinesIn(e, b) = LinesIn(d, b)
  BY DEF Extended, LinesIn
<1>3. LinesIn(d, n) = {t[k] : k \in 1 .. Len(t)} /\ LinesIn(e, n) = {u[k] : k \in 1 .. Len(u)}
  BY DEF LinesIn
<1> HIDE DEF t, u, n
<1>4. /\ Len(t) \in Nat /\ 1 .. Len(u) = 1 .. Len(t) \cup {Len(t) + 1}
      /\ u[Len(t) + 1] = chunk /\ \A k \in 1 .. Len(t) : u[k] = t[k]
  BY <1>1
<1>5. LinesIn(e, n) = LinesIn(d, n) \cup {chunk}
  BY <1>3, <1>4
<1>6. Lines(e) = Lines(d) \cup {chunk}
  <2>1. Lines(d) = UNION {LinesIn(d, b) : b \in 1 .. n}
    BY DEF Lines, n
  <2>2. Lines(e) = UNION {LinesIn(e, b) : b \in 1 .. n}
    BY <1>1 DEF Lines
  <2> QED BY <1>1, <1>2, <1>5, <2>1, <2>2
<1> QED BY <1>2, <1>5, <1>6 DEF n

LEMMA ExtendOrdered ==
  ASSUME NEW S, NEW strictly, NEW d, Ordered(d, S, strictly),
         NEW chunk \in Text \cap Nat, NEW e, Extended(d, e, chunk),
         \A i \in S : i =< chunk,
         strictly => chunk \notin S, chunk \notin LinesIn(d, Len(d))
  PROVE  Ordered(e, S \cup {chunk}, strictly)
<1> DEFINE n == Len(d)
           t == d[n].text
           u == e[n].text
<1>1. /\ n \in 1 .. n /\ n \in Nat /\ Len(e) = n /\ e \in Seq(DocBlock)
      /\ t \in Seq(Text) /\ u = Append(t, chunk)
      /\ \A b \in 1 .. Len(d) : b # Len(d) => e[b] = d[b]
  <2>1. d[n] \in DocBlock
    BY DEF Extended
  <2>2. t \in Seq(Text)
    BY <2>1 DEF DocBlock
  <2> QED BY <2>2 DEF Extended
<1>2. /\ \A b \in 1 .. n : b # n => LinesIn(e, b) = LinesIn(d, b)
      /\ LinesIn(e, n) = LinesIn(d, n) \cup {chunk}
      /\ Lines(e) = S \cup {chunk} /\ S \cup {chunk} \subseteq Nat
  BY ExtendLines, ZenonT(40) DEF Ordered
<1>3. \A b \in 1 .. n : LinesIn(d, b) \subseteq S
  BY DEF Ordered, Lines
<1>4. ASSUME NEW j \in 1 .. Len(u), NEW k \in 1 .. Len(u), j < k
      PROVE  u[j] < u[k]
  <2>1. \A i \in 1 .. Len(t) : t[i] \in LinesIn(d, n)
    BY DEF LinesIn
  <2>2. \A i \in 1 .. Len(t) : t[i] \in Nat /\ t[i] < chunk
    BY <1>1, <1>2, <1>3, <2>1
  <2>3. \A x, y \in 1 .. Len(t) : x < y => t[x] < t[y]
    BY <1>1 DEF Ordered
  <2> HIDE DEF t, u, n
  <2>4. Len(t) \in Nat /\ Len(u) = Len(t) + 1 /\ j \in 1 .. Len(t) /\ u[j] = t[j]
    BY <1>1, <1>4
  <2>5. CASE k \in 1 .. Len(t)
    BY <1>1, <1>4, <2>3, <2>4, <2>5
  <2>6. CASE k = Len(t) + 1
    BY <1>1, <2>2, <2>4, <2>6
  <2> QED BY <2>4, <2>5, <2>6
<1>5. ASSUME NEW b \in 1 .. n, NEW j \in 1 .. Len(e[b].text),
             NEW k \in 1 .. Len(e[b].text), j < k
      PROVE  e[b].text[j] < e[b].text[k]
  <2>1. CASE b # n
    BY <1>1, <1>5, <2>1 DEF Ordered
  <2>2. CASE b = n
    BY <1>4, <1>5, <2>2
  <2> QED BY <2>1, <2>2
<1>6. ASSUME NEW b \in 1 .. n, NEW c \in 1 .. n, b < c,
             NEW i \in LinesIn(e, b), NEW j \in LinesIn(e, c)
      PROVE  i =< j /\ (strictly => i # j)
  <2> HIDE DEF n
  <2>1. b # n
    BY <1>1, <1>6
  <2>2. i \in LinesIn(d, b) /\ i \in S
    BY <1>2, <1>3, <2>1
  <2>3. CASE j \in LinesIn(d, c)
    BY <1>6, <2>2, <2>3 DEF Ordered, n
  <2>4. CASE j = chunk
    BY <2>2, <2>4
  <2> QED BY <1>2, <2>3, <2>4
<1> HIDE DEF n
<1> QED BY <1>1, <1>2, <1>5, <1>6 DEF Ordered

LEMMA CloseOrdered ==
  ASSUME NEW S, NEW strictly, NEW d, Ordered(d, S, strictly), NEW e, Closed(d, e)
  PROVE  Ordered(e, S, strictly)
<1>1. \A b \in 1 .. Len(d) : LinesIn(e, b) = LinesIn(d, b)
  BY DEF LinesIn, Closed
<1>2. Len(e) = Len(d) /\ Lines(e) = Lines(d)
  BY <1>1 DEF Lines, Closed
<1>3. \A b \in 1 .. Len(e) :
        \A j, k \in 1 .. Len(e[b].text) : j < k => e[b].text[j] < e[b].text[k]
  BY <1>2 DEF Ordered, Closed
<1>4. \A b, c \in 1 .. Len(e) :
        b < c => \A i \in LinesIn(e, b), j \in LinesIn(e, c) :
                   i =< j /\ (strictly => i # j)
  BY <1>1, <1>2 DEF Ordered
<1> QED BY <1>2, <1>3, <1>4 DEF Ordered, Closed

(* What is shown, and in a block of which kind. *)
EntriesIn(d, b) == {<<d[b].kind, i>> : i \in LinesIn(d, b)}

Entries(d) == UNION {EntriesIn(d, b) : b \in 1 .. Len(d)}

LEMMA OpenEntries ==
  ASSUME NEW d, NEW kind, NEW e, Opened(d, e, kind)
  PROVE  Entries(e) = Entries(d)
<1>1. /\ Len(e) = Len(d) + 1 /\ Len(d) \in Nat
      /\ \A b \in 1 .. Len(d) : e[b] = d[b]
      /\ e[Len(e)].text = <<>>
  BY DEF Opened, NewBlock
<1>2. /\ \A b \in 1 .. Len(d) : EntriesIn(e, b) = EntriesIn(d, b)
      /\ EntriesIn(e, Len(e)) = {}
  BY <1>1 DEF EntriesIn, LinesIn
<1> QED BY <1>1, <1>2 DEF Entries

LEMMA ExtendEntries ==
  ASSUME NEW d, NEW e, NEW chunk \in Text, Extended(d, e, chunk)
  PROVE  Entries(e) = Entries(d) \cup {<<d[Len(d)].kind, chunk>>}
<1> DEFINE n == Len(d)
<1>1. /\ n \in 1 .. n /\ n \in Nat /\ Len(e) = n
      /\ \A b \in 1 .. n : e[b].kind = d[b].kind
  BY DEF Extended
<1>2. /\ \A b \in 1 .. n : b # n => LinesIn(e, b) = LinesIn(d, b)
      /\ LinesIn(e, n) = LinesIn(d, n) \cup {chunk}
  BY ExtendLines
<1>3. Len(d) = n
  OBVIOUS
<1> HIDE DEF n
<1>4. \A b \in 1 .. n : b # n => EntriesIn(e, b) = EntriesIn(d, b)
  BY <1>1, <1>2 DEF EntriesIn
<1>5. EntriesIn(e, n) = EntriesIn(d, n) \cup {<<d[n].kind, chunk>>}
  BY <1>1, <1>2 DEF EntriesIn
<1>6. /\ Entries(d) = UNION {EntriesIn(d, b) : b \in 1 .. n}
      /\ Entries(e) = UNION {EntriesIn(e, b) : b \in 1 .. n}
  BY <1>1, <1>3 DEF Entries
<1> QED BY <1>1, <1>3, <1>4, <1>5, <1>6

LEMMA CloseEntries ==
  ASSUME NEW d, NEW e, Closed(d, e)
  PROVE  Entries(e) = Entries(d)
<1>1. \A b \in 1 .. Len(d) : EntriesIn(e, b) = EntriesIn(d, b)
  BY DEF EntriesIn, LinesIn, Closed
<1> QED BY <1>1 DEF Entries, Closed

-----------------------------------------------------------------------------
(***************************************************************************)
(* The calls an adapter queues lead, one at a time, from the log as it is  *)
(* to a log it describes.  `rules` says what it may write: which chunks    *)
(* into a block of which kind, and of which kinds neighbours may both be.  *)
(***************************************************************************)
SinkCall ==
       {AppendCall(kind) : kind \in ClosableKind}
  \cup {TextCall(id, chunk) : id \in Nat, chunk \in Text}
  \cup {FinalizeCall(id) : id \in Nat}

Lawful(rules, d) ==
  /\ \A b \in 1 .. Len(d) : \A i \in LinesIn(d, b) : <<d[b].kind, i>> \in rules.routes
  /\ \A b \in 1 .. Len(d) - 1 : d[b].kind = d[b + 1].kind => d[b].kind \in rules.repeats

MayAppend(rules, l, kind) ==
  /\ ChatLog(l, None)
  /\ l.blocks # <<>> => LastBlock(l).block.kind # kind \/ kind \in rules.repeats

MayWrite(rules, l, open, chunk) ==
  /\ ChatLog(l, open)
  /\ <<LastBlock(l).block.kind, chunk>> \in rules.routes

Takes(rules, l, call, m) ==
  /\ m = Perform(l, call)
  /\ \/ \E kind \in ClosableKind : call = AppendCall(kind) /\ MayAppend(rules, l, kind)
     \/ \E open \in Nat, chunk \in Text :
          call = TextCall(open, chunk) /\ MayWrite(rules, l, open, chunk)
     \/ \E open \in Nat : call = FinalizeCall(open) /\ ChatLog(l, open)

Leads(rules, calls, l, m) ==
  /\ calls \in Seq(SinkCall)
  /\ \E f : /\ f[0] = l /\ f[Len(calls)] = m
            /\ \A i \in 1 .. Len(calls) : Takes(rules, f[i - 1], calls[i], f[i])

LEMMA CallsDiffer ==
  /\ \A kind, id, chunk : /\ AppendCall(kind) # TextCall(id, chunk)
                          /\ AppendCall(kind) # FinalizeCall(id)
  /\ \A id, chunk, j : TextCall(id, chunk) # FinalizeCall(j)
BY DEF AppendCall, TextCall, FinalizeCall

LEMMA PerformAppend ==
  ASSUME NEW rules, NEW l, NEW kind \in ClosableKind, MayAppend(rules, l, kind),
         NEW m, m = Perform(l, AppendCall(kind))
  PROVE  /\ ChatLog(m, l.next_id) /\ m.next_id = l.next_id + 1 /\ l.next_id \in Nat
         /\ DocOf(m) = Append(DocOf(l), NewBlock(kind))
         /\ Opened(DocOf(l), DocOf(m), kind)
         /\ LastBlock(m).block.kind = kind
<1>1. m = LogAppend(l, kind) /\ ChatLog(l, None) /\ l.next_id \in Nat
  BY ChatLogShape DEF Perform, AppendCall, MayAppend, ChatLog, IsLog
<1>2. /\ ChatLog(m, l.next_id) /\ m.next_id = l.next_id + 1
      /\ DocOf(m) = Append(DocOf(l), NewBlock(kind))
  BY <1>1, AppendChat
<1>3. Opened(DocOf(l), DocOf(m), kind)
  BY <1>1, <1>2, ChatLogShape, OpenShape DEF ClosableKind, BlockKind
<1>4. LastBlock(m).block.kind = kind
  BY <1>1, ChatLogShape DEF LastBlock, LogAppend, EmptyBlock
<1> QED BY <1>1, <1>2, <1>3, <1>4

LEMMA PerformText ==
  ASSUME NEW rules, NEW l, NEW open \in Nat, NEW chunk \in Text,
         MayWrite(rules, l, open, chunk), NEW m, m = Perform(l, TextCall(open, chunk))
  PROVE  /\ ChatLog(m, open) /\ m.next_id = l.next_id
         /\ DocOf(m) = MoreText(DocOf(l), chunk)
         /\ Extended(DocOf(l), DocOf(m), chunk)
         /\ LastBlock(m).block.kind = LastBlock(l).block.kind
<1>1. ChatLog(l, open) /\ open # None
  BY DEF MayWrite, None
<1>2. /\ ChatLog(m, open) /\ m.next_id = l.next_id
      /\ DocOf(m) = MoreText(DocOf(l), chunk)
  BY <1>1, TextChat
<1>3. DocOf(l) \in Seq(DocBlock) /\ DocOf(l) # <<>> /\ Len(DocOf(l)) = Len(l.blocks)
  BY <1>1, ChatLogShape
<1>4. Extended(DocOf(l), DocOf(m), chunk)
  BY <1>2, <1>3, ExtendShape
<1>5. Len(DocOf(m)) = Len(m.blocks)
  BY <1>2, ChatLogShape
<1>6. LastBlock(m).block.kind = LastBlock(l).block.kind
  BY <1>3, <1>4, <1>5 DEF Extended, DocOf, Shows, LastBlock
<1> QED BY <1>2, <1>4, <1>6

LEMMA PerformFinalize ==
  ASSUME NEW l, NEW open \in Nat, ChatLog(l, open),
         NEW m, m = Perform(l, FinalizeCall(open))
  PROVE  /\ ChatLog(m, None) /\ m.next_id = l.next_id
         /\ DocOf(m) = LastClosed(DocOf(l))
         /\ Closed(DocOf(l), DocOf(m))
         /\ l.blocks # <<>> /\ m.blocks # <<>> /\ LastBlock(m).block.kind = LastBlock(l).block.kind
<1>1. open # None
  BY DEF None
<1>2. /\ ChatLog(m, None) /\ m.next_id = l.next_id
      /\ DocOf(m) = LastClosed(DocOf(l))
  BY <1>1, FinalizeChat
<1>3. /\ DocOf(l) \in Seq(DocBlock) /\ DocOf(l) # <<>> /\ Len(DocOf(l)) = Len(l.blocks)
      /\ l.blocks # <<>>
  BY <1>1, ChatLogShape
<1>4. Closed(DocOf(l), DocOf(m))
  BY <1>2, <1>3, CloseShape
<1>5. Len(DocOf(m)) = Len(m.blocks) /\ m.blocks \in Seq(Entry)
  BY <1>2, ChatLogShape
<1>6. m.blocks # <<>> /\ LastBlock(m).block.kind = LastBlock(l).block.kind
  <2> DEFINE n == Len(DocOf(l))
  <2>1. /\ n \in 1 .. n /\ Len(l.blocks) = n /\ Len(m.blocks) = n
        /\ DocOf(m)[n].kind = DocOf(l)[n].kind
    BY <1>3, <1>4, <1>5 DEF Closed
  <2> HIDE DEF n
  <2>2. DocOf(l)[n].kind = LastBlock(l).block.kind /\ DocOf(m)[n].kind = LastBlock(m).block.kind
    BY <2>1 DEF DocOf, Shows, LastBlock
  <2> QED BY <1>5, <2>1, <2>2
<1> QED BY <1>2, <1>3, <1>4, <1>6

LEMMA TakesLawful ==
  ASSUME NEW rules, NEW l, NEW call, NEW m, Takes(rules, l, call, m),
         Lawful(rules, DocOf(l))
  PROVE  Lawful(rules, DocOf(m))
<1>1. CASE \E kind \in ClosableKind : call = AppendCall(kind) /\ MayAppend(rules, l, kind)
  <2>1. PICK kind \in ClosableKind : call = AppendCall(kind) /\ MayAppend(rules, l, kind)
    BY <1>1
  <2>2. Opened(DocOf(l), DocOf(m), kind)
    BY <2>1, PerformAppend DEF Takes
  <2>3. DocOf(l) # <<>> => DocOf(l)[Len(DocOf(l))].kind = LastBlock(l).block.kind /\ l.blocks # <<>>
    <3> DEFINE k == Len(l.blocks)
    <3>1. k \in Nat /\ Len(DocOf(l)) = k /\ DocOf(l) \in Seq(DocBlock) /\ l.blocks \in Seq(Entry)
      BY <2>1, ChatLogShape DEF MayAppend
    <3>2. DocOf(l) # <<>> => k \in 1 .. k /\ l.blocks # <<>>
      BY <3>1
    <3>3. \A i \in 1 .. k : DocOf(l)[i].kind = l.blocks[i].block.kind
      BY DEF DocOf, Shows
    <3> QED BY <3>1, <3>2, <3>3 DEF LastBlock
  <2>4. DocOf(l) # <<>> => DocOf(l)[Len(DocOf(l))].kind # kind \/ kind \in rules.repeats
    BY <2>1, <2>3 DEF MayAppend
  <2> DEFINE d == DocOf(l)
             e == DocOf(m)
             n == Len(d)
  <2>5. /\ n \in Nat /\ Len(e) = n + 1 /\ (n # 0 => d # <<>>)
        /\ \A b \in 1 .. n : e[b] = d[b]
        /\ e[n + 1].text = <<>> /\ e[n + 1].kind = kind
    BY <2>2 DEF Opened, NewBlock
  <2>6. n # 0 => d[n].kind # kind \/ kind \in rules.repeats
    BY <2>4, <2>5
  <2> HIDE DEF d, e, n
  <2>7. /\ \A b \in 1 .. n : \A i \in LinesIn(d, b) : <<d[b].kind, i>> \in rules.routes
        /\ \A b \in 1 .. n - 1 : d[b].kind = d[b + 1].kind => d[b].kind \in rules.repeats
    BY DEF Lawful, d, n
  <2>8. ASSUME NEW b \in 1 .. n + 1, NEW i \in LinesIn(e, b)
        PROVE  <<e[b].kind, i>> \in rules.routes
    BY <2>5, <2>7, <2>8 DEF LinesIn
  <2>9. ASSUME NEW b \in 1 .. n, e[b].kind = e[b + 1].kind
        PROVE  e[b].kind \in rules.repeats
    <3>1. CASE b = n
      BY <2>5, <2>6, <2>9, <3>1
    <3>2. CASE b \in 1 .. n - 1
      BY <2>5, <2>7, <2>9, <3>2
    <3> QED BY <2>5, <3>1, <3>2
  <2>10. (n + 1) - 1 = n
    BY <2>5
  <2>11. Lawful(rules, e)
    BY <2>5, <2>8, <2>9, <2>10 DEF Lawful
  <2> QED BY <2>11 DEF e
<1>2. CASE \E open \in Nat, chunk \in Text :
             call = TextCall(open, chunk) /\ MayWrite(rules, l, open, chunk)
  <2>1. PICK open \in Nat, chunk \in Text :
          call = TextCall(open, chunk) /\ MayWrite(rules, l, open, chunk)
    BY <1>2
  <2>2. Extended(DocOf(l), DocOf(m), chunk)
    BY <2>1, PerformText DEF Takes
  <2>3. DocOf(l)[Len(DocOf(l))].kind = LastBlock(l).block.kind
    BY <2>1, <2>2, ChatLogShape DEF DocOf, Shows, LastBlock, MayWrite, Extended
  <2>4. \A b \in 1 .. Len(DocOf(l)) : DocOf(m)[b].kind = DocOf(l)[b].kind
    BY <2>2 DEF Extended
  <2>5. /\ \A b \in 1 .. Len(DocOf(l)) :
             b # Len(DocOf(l)) => LinesIn(DocOf(m), b) = LinesIn(DocOf(l), b)
        /\ LinesIn(DocOf(m), Len(DocOf(l))) = LinesIn(DocOf(l), Len(DocOf(l))) \cup {chunk}
    BY <2>2, ExtendLines
  <2>6. Len(DocOf(m)) = Len(DocOf(l)) /\ Len(DocOf(l)) \in Nat
    BY <2>2 DEF Extended
  <2>7. <<DocOf(l)[Len(DocOf(l))].kind, chunk>> \in rules.routes
    BY <2>1, <2>3 DEF MayWrite
  <2> QED BY <2>4, <2>5, <2>6, <2>7, SMTT(30) DEF Lawful
<1>3. CASE \E open \in Nat : call = FinalizeCall(open) /\ ChatLog(l, open)
  <2>1. Closed(DocOf(l), DocOf(m))
    BY <1>3, PerformFinalize DEF Takes
  <2> QED BY <2>1, SMTT(30) DEF Closed, Lawful, LinesIn
<1> QED BY <1>1, <1>2, <1>3 DEF Takes

LEMMA LeadsNone ==
  ASSUME NEW rules, NEW l
  PROVE  Leads(rules, <<>>, l, l)
<1> DEFINE f == [i \in {0} |-> l]
<1>1. f[0] = l /\ Len(<<>>) = 0 /\ <<>> \in Seq(SinkCall)
  OBVIOUS
<1>2. \A i \in 1 .. Len(<<>>) : Takes(rules, f[i - 1], <<>>[i], f[i])
  BY <1>1
<1> QED BY <1>1, <1>2 DEF Leads

LEMMA LeadsDone ==
  ASSUME NEW rules, NEW l, NEW m, Leads(rules, <<>>, l, m)
  PROVE  m = l
BY DEF Leads

LEMMA TakesCall ==
  ASSUME NEW rules, NEW l, NEW call, NEW m, Takes(rules, l, call, m)
  PROVE  call \in SinkCall
BY DEF Takes, SinkCall

LEMMA LeadsAppend ==
  ASSUME NEW rules, NEW calls, NEW l, NEW m, Leads(rules, calls, l, m),
         NEW call, NEW n, Takes(rules, m, call, n)
  PROVE  Leads(rules, Append(calls, call), l, n)
<1> DEFINE k == Len(calls)
           more == Append(calls, call)
<1>1. PICK f : /\ f[0] = l /\ f[k] = m
               /\ \A i \in 1 .. k : Takes(rules, f[i - 1], calls[i], f[i])
  BY DEF Leads
<1>2. calls \in Seq(SinkCall) /\ call \in SinkCall /\ k \in Nat
  BY TakesCall DEF Leads
<1>3. /\ more \in Seq(SinkCall) /\ Len(more) = k + 1 /\ more[k + 1] = call
      /\ \A i \in 1 .. k : more[i] = calls[i]
  BY <1>2
<1> HIDE DEF k, more
<1> DEFINE g == [i \in 0 .. k + 1 |-> IF i = k + 1 THEN n ELSE f[i]]
<1>4. g[0] = l /\ g[k + 1] = n /\ \A i \in 0 .. k : g[i] = f[i]
  BY <1>1, <1>2
<1> HIDE DEF g
<1>5. ASSUME NEW i \in 1 .. k + 1
      PROVE  Takes(rules, g[i - 1], more[i], g[i])
  <2>1. CASE i = k + 1
    <3>1. i - 1 = k /\ k \in 0 .. k
      BY <1>2, <2>1
    <3> QED BY <1>1, <1>3, <1>4, <2>1, <3>1
  <2>2. CASE i \in 1 .. k
    <3>1. i - 1 \in 0 .. k /\ i \in 0 .. k
      BY <1>2, <2>2
    <3> QED BY <1>1, <1>3, <1>4, <2>2, <3>1
  <2> QED BY <1>2, <2>1, <2>2
<1> QED BY <1>3, <1>4, <1>5 DEF Leads, more

LEMMA LeadsHead ==
  ASSUME NEW rules, NEW calls, NEW l, NEW m, Leads(rules, calls, l, m), calls # <<>>
  PROVE  /\ Takes(rules, l, Head(calls), Perform(l, Head(calls)))
         /\ Leads(rules, Tail(calls), Perform(l, Head(calls)), m)
<1> DEFINE k == Len(calls)
           rest == Tail(calls)
<1>1. PICK f : /\ f[0] = l /\ f[k] = m
               /\ \A i \in 1 .. k : Takes(rules, f[i - 1], calls[i], f[i])
  BY DEF Leads
<1>2. /\ calls \in Seq(SinkCall) /\ k \in Nat /\ k > 0 /\ Head(calls) = calls[1]
      /\ rest \in Seq(SinkCall) /\ Len(rest) = k - 1
      /\ \A i \in 1 .. k - 1 : rest[i] = calls[i + 1]
  <2>1. calls \in Seq(SinkCall)
    BY DEF Leads
  <2> QED BY <2>1, HeadTailProperties
<1> HIDE DEF k, rest
<1>3. Takes(rules, l, Head(calls), f[1])
  <2>1. 1 \in 1 .. k /\ 1 - 1 = 0
    BY <1>2
  <2> QED BY <1>1, <1>2, <2>1
<1>4. f[1] = Perform(l, Head(calls))
  BY <1>3 DEF Takes
<1> DEFINE g == [i \in 0 .. k - 1 |-> f[i + 1]]
<1>5. g[0] = f[1] /\ g[k - 1] = m
  BY <1>1, <1>2
<1>6. ASSUME NEW i \in 1 .. k - 1
      PROVE  Takes(rules, g[i - 1], rest[i], g[i])
  <2>1. /\ i + 1 \in 1 .. k /\ (i + 1) - 1 = i /\ g[i - 1] = f[i] /\ g[i] = f[i + 1]
    BY <1>2
  <2>2. Takes(rules, f[(i + 1) - 1], calls[i + 1], f[i + 1])
    BY <1>1, <2>1
  <2> QED BY <1>2, <2>1, <2>2
<1> HIDE DEF g
<1>7. Leads(rules, rest, f[1], m)
  BY <1>2, <1>5, <1>6 DEF Leads
<1> QED BY <1>3, <1>4, <1>7 DEF rest

(* A call is a step of ChatDocument. *)
DocStep(d, e) ==
  \/ \E kind \in BlockKind :
       (d # <<>> => d[Len(d)].complete) /\ e = Append(d, NewBlock(kind))
  \/ \E chunk \in Text :
       /\ d # <<>> /\ ~d[Len(d)].complete
       /\ e = MoreText(d, chunk)
  \/ /\ d # <<>> /\ ~d[Len(d)].complete
     /\ e = LastClosed(d)

LEMMA LastIsOpen ==
  ASSUME NEW l, NEW open, ChatLog(l, open)
  PROVE  /\ open # None => DocOf(l) # <<>> /\ ~DocOf(l)[Len(DocOf(l))].complete
         /\ open = None => (DocOf(l) # <<>> => DocOf(l)[Len(DocOf(l))].complete)
<1> DEFINE n == Len(l.blocks)
<1>1. /\ n \in Nat /\ Len(DocOf(l)) = n /\ DocOf(l) \in Seq(DocBlock)
      /\ \A i \in 1 .. n : l.blocks[i] \in Entry
      /\ open # None => n \in 1 .. n
  BY ChatLogShape
<1>2. \A i \in 1 .. n : DocOf(l)[i].complete = l.blocks[i].block.complete
  BY DEF DocOf, Shows
<1>3. \A i \in 1 .. n : l.blocks[i].block.complete <=> l.blocks[i].id # open
  BY DEF ChatLog
<1>4. open # None => l.blocks[n].id = open
  BY DEF ChatLog, LastBlock
<1>5. \A i \in 1 .. n : l.blocks[i].id # None
  BY <1>1 DEF Entry, BlockId, None
<1>6. ASSUME open # None
      PROVE  DocOf(l) # <<>> /\ ~DocOf(l)[n].complete
  BY <1>1, <1>2, <1>3, <1>4, <1>6
<1>7. ASSUME open = None, DocOf(l) # <<>>
      PROVE  DocOf(l)[n].complete
  <2>1. n \in 1 .. n
    BY <1>1, <1>7
  <2> QED BY <1>2, <1>3, <1>5, <1>7, <2>1
<1> QED BY <1>1, <1>6, <1>7

LEMMA TakesDocStep ==
  ASSUME NEW rules, NEW l, NEW call, NEW m, Takes(rules, l, call, m)
  PROVE  DocStep(DocOf(l), DocOf(m))
<1>1. CASE \E kind \in ClosableKind : call = AppendCall(kind) /\ MayAppend(rules, l, kind)
  <2>1. PICK kind \in ClosableKind : call = AppendCall(kind) /\ MayAppend(rules, l, kind)
    BY <1>1
  <2>2. DocOf(m) = Append(DocOf(l), NewBlock(kind))
    BY <2>1, PerformAppend DEF Takes
  <2>3. DocOf(l) # <<>> => DocOf(l)[Len(DocOf(l))].complete
    BY <2>1, LastIsOpen DEF MayAppend
  <2>4. kind \in BlockKind
    BY DEF ClosableKind, BlockKind
  <2> QED BY <2>2, <2>3, <2>4 DEF DocStep
<1>2. CASE \E open \in Nat, chunk \in Text :
             call = TextCall(open, chunk) /\ MayWrite(rules, l, open, chunk)
  <2>1. PICK open \in Nat, chunk \in Text :
          call = TextCall(open, chunk) /\ MayWrite(rules, l, open, chunk)
    BY <1>2
  <2>2. DocOf(m) = MoreText(DocOf(l), chunk)
    BY <2>1, PerformText DEF Takes
  <2>3. DocOf(l) # <<>> /\ ~DocOf(l)[Len(DocOf(l))].complete
    BY <2>1, LastIsOpen DEF MayWrite, None
  <2> QED BY <2>2, <2>3 DEF DocStep
<1>3. CASE \E open \in Nat : call = FinalizeCall(open) /\ ChatLog(l, open)
  <2>1. PICK open \in Nat : call = FinalizeCall(open) /\ ChatLog(l, open)
    BY <1>3
  <2>2. DocOf(m) = LastClosed(DocOf(l))
    BY <2>1, PerformFinalize DEF Takes
  <2>3. DocOf(l) # <<>> /\ ~DocOf(l)[Len(DocOf(l))].complete
    BY <2>1, LastIsOpen DEF None
  <2> QED BY <2>2, <2>3 DEF DocStep
<1> QED BY <1>1, <1>2, <1>3 DEF Takes

LEMMA DocStepRefines ==
  ASSUME DocStep(Document, Document')
  PROVE  Chat!Next
BY DEF DocStep, Chat!Next, Chat!Open, Chat!Extend, Chat!Close, Chat!Last, NewBlock,
       MoreText, LastClosed

LEMMA DocumentIs == Document = DocOf(log) /\ Document' = DocOf(log')
BY DEF Document, DocOf, Shows

(* Both adapters are built over this one sink.                             *)
LEMMA OneSink ==
  /\ Floor!SinkStep <=> SinkStep
  /\ Claude!SinkStep <=> SinkStep
  /\ Floor!SinkInit <=> SinkInit
  /\ Claude!SinkInit <=> SinkInit
  /\ Floor!Idle <=> Idle
  /\ Claude!Idle <=> Idle
  /\ Floor!Document = DocOf(log)
  /\ Claude!Document = DocOf(log)
<1>1. Floor!SinkStep <=> SinkStep
  BY DEF Floor!SinkStep, SinkStep, Floor!Perform, Perform, Floor!Known, Known,
         Floor!LogAppend, LogAppend, Floor!LogPatch, LogPatch, Floor!LogFinalize, LogFinalize,
         Floor!Edit, Edit, Floor!ApplyPatch, ApplyPatch, Floor!SetComplete, SetComplete,
         Floor!BlockAt, BlockAt, Floor!Rev, Rev, Floor!EmptyBlock, EmptyBlock, Floor!Put, Put,
         Floor!NoOption, NoOption, Floor!TextKind, TextKind, Floor!ClosableKind, ClosableKind
<1>2. Claude!SinkStep <=> SinkStep
  BY DEF Claude!SinkStep, SinkStep, Claude!Perform, Perform, Claude!Known, Known,
         Claude!LogAppend, LogAppend, Claude!LogPatch, LogPatch, Claude!LogFinalize,
         LogFinalize, Claude!Edit, Edit, Claude!ApplyPatch, ApplyPatch, Claude!SetComplete,
         SetComplete, Claude!BlockAt, BlockAt, Claude!Rev, Rev, Claude!EmptyBlock, EmptyBlock,
         Claude!Put, Put, Claude!NoOption, NoOption, Claude!TextKind, TextKind,
         Claude!ClosableKind, ClosableKind
<1>3. (Floor!SinkInit <=> SinkInit) /\ (Claude!SinkInit <=> SinkInit)
  BY DEF Floor!SinkInit, Claude!SinkInit, SinkInit, Floor!EmptyLog, Claude!EmptyLog, EmptyLog
<1>4. (Floor!Idle <=> Idle) /\ (Claude!Idle <=> Idle)
  BY DEF Floor!Idle, Claude!Idle, Idle
<1>5. Floor!Document = DocOf(log) /\ Claude!Document = DocOf(log)
  BY DEF Floor!Document, Claude!Document, DocOf, Shows
<1> QED BY <1>1, <1>2, <1>3, <1>4, <1>5

LEMMA SameCalls ==
  /\ \A kind : Floor!AppendCall(kind) = AppendCall(kind)
               /\ Claude!AppendCall(kind) = AppendCall(kind)
  /\ \A id, chunk : Floor!TextCall(id, chunk) = TextCall(id, chunk)
                    /\ Claude!TextCall(id, chunk) = TextCall(id, chunk)
  /\ \A id : Floor!FinalizeCall(id) = FinalizeCall(id)
             /\ Claude!FinalizeCall(id) = FinalizeCall(id)
BY DEF Floor!AppendCall, Claude!AppendCall, AppendCall, Floor!TextCall, Claude!TextCall,
       TextCall, Floor!FinalizeCall, Claude!FinalizeCall, FinalizeCall

-----------------------------------------------------------------------------
(***************************************************************************)
(* The floor's definition of a line's kind, along the lines so far.        *)
(***************************************************************************)
Fences(given, i) == {j \in 1 .. i - 1 : given[j] = "fence"}

FencedIn(given, i) == Cardinality(Fences(given, i)) % 2 = 1

InHunkIn(given, i) ==
  \E h \in 1 .. i :
    /\ given[h] = "hunk" /\ ~FencedIn(given, h)
    /\ \A j \in h .. i : \/ given[j] = "fence" \/ FencedIn(given, j)
                         \/ given[j] \in Floor!IsDiffLine

KindIn(given, i) ==
  IF FencedIn(given, i) THEN "Code" ELSE IF InHunkIn(given, i) THEN "Diff" ELSE "Markdown"

LEMMA FencedOneMore ==
  ASSUME NEW given \in Seq(Floor!Class), NEW c \in Floor!Class
  PROVE  LET n == Len(given)
             more == Append(given, c)
         IN /\ \A i \in 1 .. n + 1 : FencedIn(more, i) <=> FencedIn(given, i)
            /\ FencedIn(more, n + 2) <=> ~(c = "fence" <=> FencedIn(given, n + 1))
<1> DEFINE n == Len(given)
           more == Append(given, c)
<1>1. /\ n \in Nat /\ Len(more) = n + 1 /\ more[n + 1] = c
      /\ \A i \in 1 .. n : more[i] = given[i]
  OBVIOUS
<1> HIDE DEF n, more
<1>2. ASSUME NEW i \in 1 .. n + 1
      PROVE  FencedIn(more, i) <=> FencedIn(given, i)
  <2>1. Fences(more, i) = Fences(given, i)
    BY <1>1 DEF Fences
  <2> QED BY <2>1 DEF FencedIn
<1>3. FencedIn(more, n + 2) <=> ~(c = "fence" <=> FencedIn(given, n + 1))
  <2> DEFINE F == Fences(given, n + 1)
  <2>1. IsFiniteSet(F) /\ Cardinality(F) \in Nat
    <3>1. IsFiniteSet(1 .. n)
      BY <1>1, FS_Interval
    <3>2. F \subseteq 1 .. n
      BY <1>1 DEF Fences
    <3> QED BY <3>1, <3>2, FS_Subset, FS_CardinalityType
  <2>2. CASE c = "fence"
    <3>1. Fences(more, n + 2) = F \cup {n + 1}
      BY <1>1, <2>2 DEF Fences
    <3>2. n + 1 \notin F
      BY <1>1 DEF Fences
    <3>3. Cardinality(Fences(more, n + 2)) = Cardinality(F) + 1
      BY <2>1, <3>1, <3>2, FS_AddElement
    <3> QED BY <2>1, <2>2, <3>3 DEF FencedIn
  <2>3. CASE c # "fence"
    <3>1. Fences(more, n + 2) = F
      BY <1>1, <2>3 DEF Fences
    <3> QED BY <2>3, <3>1 DEF FencedIn
  <2> QED BY <2>2, <2>3
<1> QED BY <1>2, <1>3 DEF n, more

LEMMA HunkOneMore ==
  ASSUME NEW given \in Seq(Floor!Class), NEW c \in Floor!Class
  PROVE  LET n == Len(given)
             more == Append(given, c)
         IN /\ \A i \in 0 .. n : InHunkIn(more, i) <=> InHunkIn(given, i)
            /\ InHunkIn(more, n + 1) <=>
                 \/ c = "hunk" /\ ~FencedIn(given, n + 1)
                 \/ /\ InHunkIn(given, n)
                    /\ \/ c = "fence" \/ FencedIn(given, n + 1)
                       \/ c \in Floor!IsDiffLine
<1> DEFINE n == Len(given)
           more == Append(given, c)
           stays(l, j) == \/ l[j] = "fence" \/ FencedIn(l, j) \/ l[j] \in Floor!IsDiffLine
           starts(l, h) == l[h] = "hunk" /\ ~FencedIn(l, h)
<1>1. /\ n \in Nat /\ Len(more) = n + 1 /\ more[n + 1] = c
      /\ \A i \in 1 .. n : more[i] = given[i]
  OBVIOUS
<1>2. \A i \in 1 .. n + 1 : FencedIn(more, i) <=> FencedIn(given, i)
  BY FencedOneMore
<1> HIDE DEF n, more
<1>3. \A i \in 1 .. n : (stays(more, i) <=> stays(given, i)) /\ (starts(more, i) <=> starts(given, i))
  BY <1>1, <1>2
<1>4. /\ starts(more, n + 1) <=> c = "hunk" /\ ~FencedIn(given, n + 1)
      /\ stays(more, n + 1) <=> \/ c = "fence" \/ FencedIn(given, n + 1)
                                \/ c \in Floor!IsDiffLine
  BY <1>1, <1>2
<1>5. starts(more, n + 1) => stays(more, n + 1)
  BY <1>1 DEF Floor!IsDiffLine
<1>6. \A l, i : InHunkIn(l, i) <=>
                  \E h \in 1 .. i : starts(l, h) /\ \A j \in h .. i : stays(l, j)
  BY DEF InHunkIn
<1> HIDE DEF stays, starts
<1>7. \A i \in 0 .. n : InHunkIn(more, i) <=> InHunkIn(given, i)
  <2>1. TAKE i \in 0 .. n
  <2>2. \A h \in 1 .. i : (starts(more, h) <=> starts(given, h))
                          /\ \A j \in h .. i : stays(more, j) <=> stays(given, j)
    BY <1>1, <1>3
  <2> QED BY <1>6, <2>2
<1>8. InHunkIn(more, n + 1) <=>
        \/ starts(more, n + 1)
        \/ InHunkIn(more, n) /\ stays(more, n + 1)
  <2>1. ASSUME InHunkIn(more, n + 1)
        PROVE  starts(more, n + 1) \/ (InHunkIn(more, n) /\ stays(more, n + 1))
    <3>1. PICK h \in 1 .. n + 1 : starts(more, h) /\ \A j \in h .. n + 1 : stays(more, j)
      BY <1>6, <2>1
    <3>2. CASE h = n + 1
      BY <3>1, <3>2
    <3>3. CASE h \in 1 .. n
      <4>1. /\ \A j \in h .. n : stays(more, j)
            /\ stays(more, n + 1)
        BY <1>1, <3>1, <3>3
      <4> QED BY <1>6, <3>1, <3>3, <4>1
    <3> QED BY <1>1, <3>2, <3>3
  <2>2. ASSUME starts(more, n + 1)
        PROVE  InHunkIn(more, n + 1)
    <3>1. n + 1 \in 1 .. n + 1 /\ \A j \in n + 1 .. n + 1 : stays(more, j)
      BY <1>1, <1>5, <2>2
    <3> QED BY <1>6, <2>2, <3>1
  <2>3. ASSUME InHunkIn(more, n), stays(more, n + 1)
        PROVE  InHunkIn(more, n + 1)
    <3>1. PICK h \in 1 .. n : starts(more, h) /\ \A j \in h .. n : stays(more, j)
      BY <1>6, <2>3
    <3>2. h \in 1 .. n + 1 /\ \A j \in h .. n + 1 : stays(more, j)
      BY <1>1, <2>3, <3>1
    <3> QED BY <1>6, <3>1, <3>2
  <2> QED BY <2>1, <2>2, <2>3
<1>9. n \in 0 .. n
  BY <1>1
<1> QED BY <1>4, <1>7, <1>8, <1>9 DEF n, more

-----------------------------------------------------------------------------
(***************************************************************************)
(* The floor adapter: the calls it queues and the log they lead to.        *)
(***************************************************************************)
(* A log that shows the lines S, whose open block is `open`.               *)
FloorEnd(l, open, S) ==
  /\ ChatLog(l, open.id)
  /\ \/ open = Floor!NoBlock
     \/ /\ open.id \in Nat /\ open.kind \in ClosableKind
        /\ LastBlock(l).block.kind = open.kind
  /\ Ordered(DocOf(l), S, TRUE)

LEMMA FloorOpen ==
  ASSUME NEW l, NEW open, NEW S, FloorEnd(l, open, S)
  PROVE  /\ open # Floor!NoBlock => /\ open.id \in Nat /\ open.kind \in ClosableKind
                                    /\ LastBlock(l).block.kind = open.kind
                                    /\ l.blocks # <<>>
         /\ open = Floor!NoBlock => ChatLog(l, None) /\ open.id = None
         /\ l.next_id \in Nat
<1>1. ChatLog(l, open.id)
  BY DEF FloorEnd
<1>2. l.next_id \in Nat
  BY <1>1, ChatLogShape
<1>3. open = Floor!NoBlock => open.id = None
  BY DEF Floor!NoBlock, None
<1>4. ASSUME open # Floor!NoBlock
      PROVE  /\ open.id \in Nat /\ open.kind \in ClosableKind
             /\ LastBlock(l).block.kind = open.kind /\ l.blocks # <<>>
  <2>1. /\ open.id \in Nat /\ open.kind \in ClosableKind
        /\ LastBlock(l).block.kind = open.kind
    BY <1>4 DEF FloorEnd
  <2>2. l.blocks # <<>>
    BY <1>1, <2>1 DEF ChatLog, None
  <2> QED BY <2>1, <2>2
<1>5. open = Floor!NoBlock => ChatLog(l, None)
  BY <1>1, <1>3
<1> QED BY <1>2, <1>3, <1>4, <1>5

(* Calls lead to such a log; and they do so by closing the block `open`    *)
(* that the log l leaves.                                                  *)
FloorLeads(rules, calls, first, open, S) ==
  \E m : Leads(rules, calls, first, m) /\ FloorEnd(m, open, S)

FloorCloses(rules, calls, first, l, open, S) ==
  \E m : /\ Leads(rules, calls, first, m)
         /\ FloorEnd(m, Floor!NoBlock, S)
         /\ m.next_id = l.next_id
         /\ IF open = Floor!NoBlock THEN m = l
            ELSE m.blocks # <<>> /\ LastBlock(m).block.kind = open.kind

LEMMA LeadsClose ==
  ASSUME NEW rules, NEW calls, NEW first, NEW l, Leads(rules, calls, first, l),
         NEW open, NEW S, FloorEnd(l, open, S)
  PROVE  FloorCloses(rules, calls \o Floor!CloseCalls(open), first, l, open, S)
<1>1. calls \in Seq(SinkCall)
  BY DEF Leads
<1>2. CASE open = Floor!NoBlock
  <2>1. calls \o Floor!CloseCalls(open) = calls
    BY <1>1, <1>2, ConcatEmptySeq DEF Floor!CloseCalls
  <2> QED BY <1>2, <2>1 DEF FloorCloses
<1>3. CASE open # Floor!NoBlock
  <2> DEFINE m == Perform(l, FinalizeCall(open.id))
  <2>1. open.id \in Nat /\ ChatLog(l, open.id) /\ LastBlock(l).block.kind = open.kind
    BY <1>3, FloorOpen DEF FloorEnd
  <2>2. Takes(rules, l, FinalizeCall(open.id), m)
    BY <2>1 DEF Takes
  <2>3. /\ ChatLog(m, None) /\ m.next_id = l.next_id /\ Closed(DocOf(l), DocOf(m))
        /\ m.blocks # <<>> /\ LastBlock(m).block.kind = open.kind
    BY <2>1, PerformFinalize
  <2> HIDE DEF m
  <2>4. calls \o Floor!CloseCalls(open) = Append(calls, FinalizeCall(open.id))
    <3>1. Floor!CloseCalls(open) = <<FinalizeCall(open.id)>>
      BY <1>3, SameCalls DEF Floor!CloseCalls
    <3>2. FinalizeCall(open.id) \in SinkCall
      BY <2>1 DEF SinkCall
    <3> QED BY <1>1, <3>1, <3>2, AppendIsConcat
  <2>5. Leads(rules, calls \o Floor!CloseCalls(open), first, m)
    BY <2>2, <2>4, LeadsAppend
  <2>6. Ordered(DocOf(m), S, TRUE)
    BY <2>3, CloseOrdered DEF FloorEnd
  <2>7. FloorEnd(m, Floor!NoBlock, S)
    BY <2>3, <2>6 DEF FloorEnd, Floor!NoBlock, None
  <2> QED BY <1>3, <2>3, <2>5, <2>7 DEF FloorCloses
<1> QED BY <1>2, <1>3

LEMMA LeadsOpen ==
  ASSUME NEW rules, NEW calls, NEW first, NEW l, Leads(rules, calls, first, l),
         NEW S, FloorEnd(l, Floor!NoBlock, S), NEW kind \in ClosableKind,
         l.blocks # <<>> => LastBlock(l).block.kind # kind \/ kind \in rules.repeats
  PROVE  /\ FloorLeads(rules, Append(calls, AppendCall(kind)), first,
                       Floor!OpenBlock(l.next_id, kind), S)
         /\ Floor!OpenBlock(l.next_id, kind) # Floor!NoBlock
<1> DEFINE m == Perform(l, AppendCall(kind))
           open == Floor!OpenBlock(l.next_id, kind)
<1>1. MayAppend(rules, l, kind)
  BY FloorOpen DEF MayAppend
<1>2. Takes(rules, l, AppendCall(kind), m)
  BY <1>1 DEF Takes
<1>3. /\ ChatLog(m, l.next_id) /\ l.next_id \in Nat
      /\ Opened(DocOf(l), DocOf(m), kind) /\ LastBlock(m).block.kind = kind
  BY <1>1, PerformAppend
<1> HIDE DEF m
<1>4. open.id = l.next_id /\ open.kind = kind /\ open # Floor!NoBlock
  BY <1>3 DEF Floor!OpenBlock, Floor!NoBlock
<1>5. Ordered(DocOf(m), S, TRUE)
  BY <1>3, OpenOrdered DEF FloorEnd
<1> HIDE DEF open
<1>6. FloorEnd(m, open, S)
  BY <1>3, <1>4, <1>5 DEF FloorEnd
<1>7. Leads(rules, Append(calls, AppendCall(kind)), first, m)
  BY <1>2, LeadsAppend
<1> QED BY <1>4, <1>6, <1>7 DEF open, FloorLeads

LEMMA LeadsText ==
  ASSUME NEW rules, NEW calls, NEW first, NEW l, Leads(rules, calls, first, l),
         NEW open, NEW S, FloorEnd(l, open, S), open # Floor!NoBlock,
         NEW chunk \in Text \cap Nat, \A i \in S : i < chunk,
         <<open.kind, chunk>> \in rules.routes
  PROVE  FloorLeads(rules, Append(calls, TextCall(open.id, chunk)), first, open,
                    S \cup {chunk})
<1> DEFINE m == Perform(l, TextCall(open.id, chunk))
<1>1. /\ open.id \in Nat /\ open.kind \in ClosableKind /\ LastBlock(l).block.kind = open.kind
      /\ ChatLog(l, open.id)
  BY FloorOpen DEF FloorEnd
<1>2. MayWrite(rules, l, open.id, chunk)
  BY <1>1 DEF MayWrite
<1>3. Takes(rules, l, TextCall(open.id, chunk), m)
  BY <1>1, <1>2 DEF Takes
<1>4. /\ ChatLog(m, open.id) /\ Extended(DocOf(l), DocOf(m), chunk)
      /\ LastBlock(m).block.kind = open.kind
  BY <1>1, <1>2, PerformText
<1> HIDE DEF m
<1>5. Ordered(DocOf(m), S \cup {chunk}, TRUE)
  <2>1. S \subseteq Nat /\ Ordered(DocOf(l), S, TRUE)
    BY DEF FloorEnd, Ordered
  <2>2. chunk \notin S /\ \A i \in S : i =< chunk
    BY <2>1
  <2>3. LinesIn(DocOf(l), Len(DocOf(l))) \subseteq S
    BY <1>4, <2>1 DEF Ordered, Lines, Extended
  <2> QED BY <1>4, <2>1, <2>2, <2>3, ExtendOrdered
<1>6. FloorEnd(m, open, S \cup {chunk})
  BY <1>1, <1>4, <1>5 DEF FloorEnd
<1> QED BY <1>3, <1>6, LeadsAppend DEF FloorLeads

(* The calls of append_line, after those `before` made for the same line,  *)
(* lead to a log in which the block they leave open also holds the chunk.  *)
LineLeads(rules, before, open, kind, chunk, S) ==
  LET new == Floor!Ensured(open, kind)
  IN /\ FloorLeads(rules, before \o Floor!EnsureCalls(open, kind)
                                 \o <<Floor!TextCall(new.id, chunk)>>,
                   log, new, S \cup {chunk})
     /\ new # Floor!NoBlock /\ new.kind = kind

LEMMA LeadsLine ==
  ASSUME NEW rules, NEW before, NEW l, Leads(rules, before, log, l),
         NEW open, NEW S, FloorEnd(l, open, S), l.next_id = log.next_id,
         NEW kind \in ClosableKind,
         open = Floor!NoBlock /\ l.blocks # <<>> =>
           LastBlock(l).block.kind # kind \/ kind \in rules.repeats,
         NEW chunk \in Text \cap Nat, \A i \in S : i < chunk,
         <<kind, chunk>> \in rules.routes
  PROVE  LineLeads(rules, before, open, kind, chunk, S)
<1> DEFINE new == Floor!Ensured(open, kind)
           calls == before \o Floor!EnsureCalls(open, kind)
<1>1. before \in Seq(SinkCall) /\ l.next_id \in Nat
  BY FloorOpen DEF Leads
<1>2. /\ FloorLeads(rules, calls, log, new, S)
      /\ new # Floor!NoBlock /\ new.kind = kind
  <2>1. CASE open # Floor!NoBlock /\ open.kind = kind
    <3>1. new = open /\ Floor!EnsureCalls(open, kind) = <<>>
      BY <2>1 DEF Floor!Ensured, Floor!EnsureCalls
    <3>2. calls = before
      BY <1>1, <3>1, ConcatEmptySeq
    <3> QED BY <2>1, <3>1, <3>2 DEF FloorLeads
  <2>2. CASE ~(open # Floor!NoBlock /\ open.kind = kind)
    <3>1. PICK k : /\ Leads(rules, before \o Floor!CloseCalls(open), log, k)
                   /\ FloorEnd(k, Floor!NoBlock, S) /\ k.next_id = log.next_id
                   /\ IF open = Floor!NoBlock THEN k = l
                      ELSE k.blocks # <<>> /\ LastBlock(k).block.kind = open.kind
      <4>1. FloorCloses(rules, before \o Floor!CloseCalls(open), log, l, open, S)
        BY LeadsClose
      <4> QED BY <4>1 DEF FloorCloses
    <3>2. k.blocks # <<>> => LastBlock(k).block.kind # kind \/ kind \in rules.repeats
      BY <2>2, <3>1
    <3>3. new = Floor!OpenBlock(k.next_id, kind)
      BY <2>2, <3>1 DEF Floor!Ensured
    <3>4. calls = Append(before \o Floor!CloseCalls(open), AppendCall(kind))
      <4>1. Floor!EnsureCalls(open, kind) = Floor!CloseCalls(open) \o <<AppendCall(kind)>>
        BY <2>2, SameCalls DEF Floor!EnsureCalls
      <4>2. Floor!CloseCalls(open) \in Seq(SinkCall)
        <5>1. open # Floor!NoBlock => Floor!FinalizeCall(open.id) \in SinkCall
          BY FloorOpen, SameCalls DEF SinkCall
        <5> QED BY <5>1 DEF Floor!CloseCalls
      <4>3. AppendCall(kind) \in SinkCall /\ <<AppendCall(kind)>> \in Seq(SinkCall)
        BY DEF SinkCall
      <4>4. /\ calls = (before \o Floor!CloseCalls(open)) \o <<AppendCall(kind)>>
            /\ before \o Floor!CloseCalls(open) \in Seq(SinkCall)
        BY <1>1, <4>1, <4>2, <4>3, ConcatAssociative, ConcatProperties
      <4> QED BY <4>3, <4>4, AppendIsConcat
    <3>5. new.kind = kind
      BY <3>3 DEF Floor!OpenBlock
    <3> HIDE DEF new, calls
    <3> QED BY <3>1, <3>2, <3>3, <3>4, <3>5, LeadsOpen
  <2> QED BY <2>1, <2>2
<1> HIDE DEF new, calls
<1>3. PICK k : /\ Leads(rules, calls, log, k) /\ FloorEnd(k, new, S)
               /\ new # Floor!NoBlock /\ new.kind = kind
  BY <1>2 DEF FloorLeads
<1>4. calls \in Seq(SinkCall) /\ TextCall(new.id, chunk) \in SinkCall
  BY <1>3, FloorOpen DEF Leads, SinkCall
<1>5. calls \o <<Floor!TextCall(new.id, chunk)>> = Append(calls, TextCall(new.id, chunk))
  BY <1>4, SameCalls, AppendIsConcat
<1>6. FloorLeads(rules, Append(calls, TextCall(new.id, chunk)), log, new, S \cup {chunk})
  BY <1>3, LeadsText
<1>7. /\ FloorLeads(rules, calls \o <<Floor!TextCall(new.id, chunk)>>, log, new, S \cup {chunk})
      /\ new # Floor!NoBlock /\ new.kind = kind
  BY <1>3, <1>5, <1>6
<1> QED BY <1>7 DEF new, calls, LineLeads

FloorRules(given) ==
  [routes |-> {<<KindIn(given, i), i>> : i \in 1 .. Len(given)}, repeats |-> {"Code"}]

Content(given) == {i \in 1 .. Len(given) : given[i] # "fence"}

(* Between two lines: a fence is open in a code block; no block is open    *)
(* only at the start and after a fenced block.                             *)
FloorReady(l) ==
  ~flushed => /\ in_code => current.kind = "Code"
              /\ current = Floor!NoBlock /\ l.blocks # <<>> => LastBlock(l).block.kind = "Code"

FloorInv ==
  /\ fed \in Seq(Floor!Class) /\ Len(fed) =< FloorMax
  /\ in_code \in BOOLEAN /\ in_diff \in BOOLEAN
  /\ in_code <=> FencedIn(fed, Len(fed) + 1)
  /\ in_diff <=> InHunkIn(fed, Len(fed))
  /\ Lawful(FloorRules(fed), DocOf(log))
  /\ \E end : /\ Leads(FloorRules(fed), todo, log, end)
              /\ FloorEnd(end, current, Content(fed)) /\ FloorReady(end)

LEMMA FloorIdle ==
  ASSUME FloorInv, todo = <<>>
  PROVE  FloorEnd(log, current, Content(fed)) /\ FloorReady(log)
BY LeadsDone DEF FloorInv

LEMMA FloorGrows ==
  ASSUME NEW given \in Seq(Floor!Class), NEW c \in Floor!Class
  PROVE  LET n == Len(given)
             more == Append(given, c)
         IN /\ more \in Seq(Floor!Class) /\ Len(more) = n + 1 /\ n \in Nat
            /\ FloorRules(given).routes \subseteq FloorRules(more).routes
            /\ <<KindIn(more, n + 1), n + 1>> \in FloorRules(more).routes
            /\ FloorRules(more).repeats = {"Code"} /\ FloorRules(given).repeats = {"Code"}
            /\ \A i \in Content(given) : i < n + 1
            /\ c = "fence" => Content(more) = Content(given)
            /\ c # "fence" => Content(more) = Content(given) \cup {n + 1}
<1> DEFINE n == Len(given)
           more == Append(given, c)
<1>1. /\ n \in Nat /\ Len(more) = n + 1 /\ more[n + 1] = c /\ more \in Seq(Floor!Class)
      /\ \A i \in 1 .. n : more[i] = given[i]
  OBVIOUS
<1>2. \A i \in 1 .. n : KindIn(more, i) = KindIn(given, i)
  <2>1. \A i \in 1 .. n : FencedIn(more, i) <=> FencedIn(given, i)
    BY <1>1, FencedOneMore
  <2>2. \A i \in 1 .. n : InHunkIn(more, i) <=> InHunkIn(given, i)
    BY <1>1, HunkOneMore
  <2> HIDE DEF n, more
  <2> QED BY <2>1, <2>2 DEF KindIn
<1> HIDE DEF more
<1>3. /\ FloorRules(given).routes \subseteq FloorRules(more).routes
      /\ <<KindIn(more, n + 1), n + 1>> \in FloorRules(more).routes
      /\ FloorRules(more).repeats = {"Code"} /\ FloorRules(given).repeats = {"Code"}
  BY <1>1, <1>2 DEF FloorRules
<1>4. /\ \A i \in Content(given) : i < n + 1
      /\ c = "fence" => Content(more) = Content(given)
      /\ c # "fence" => Content(more) = Content(given) \cup {n + 1}
  BY <1>1 DEF Content
<1> QED BY <1>1, <1>3, <1>4 DEF more

LEMMA LawfulGrows ==
  ASSUME NEW d, NEW rules, NEW more, Lawful(rules, d),
         rules.routes \subseteq more.routes, rules.repeats \subseteq more.repeats
  PROVE  Lawful(more, d)
BY DEF Lawful

(* What every line does, whatever its class.                               *)
LEMMA FloorLine ==
  ASSUME FloorInv, NEW c \in Floor!Class, Floor!Line(c)
  PROVE  /\ ~flushed /\ flushed' = flushed /\ log' = log
         /\ FloorEnd(log, current, Content(fed)) /\ FloorReady(log)
         /\ Leads(FloorRules(fed'), <<>>, log, log)
         /\ Lawful(FloorRules(fed'), DocOf(log'))
         /\ fed' \in Seq(Floor!Class) /\ Len(fed') = Len(fed) + 1 /\ Len(fed') =< FloorMax
         /\ Len(fed) + 1 \in Text \cap Nat
         /\ \A i \in Content(fed) : i < Len(fed) + 1
         /\ <<KindIn(fed', Len(fed')), Len(fed')>> \in FloorRules(fed').routes
         /\ FloorRules(fed').repeats = {"Code"}
         /\ c = "fence" => Content(fed') = Content(fed)
         /\ c # "fence" => Content(fed') = Content(fed) \cup {Len(fed) + 1}
         /\ FencedIn(fed', Len(fed')) <=> in_code
         /\ FencedIn(fed', Len(fed') + 1) <=> ~(c = "fence" <=> in_code)
         /\ InHunkIn(fed', Len(fed')) <=>
              \/ c = "hunk" /\ ~in_code
              \/ in_diff /\ (c = "fence" \/ in_code \/ c \in Floor!IsDiffLine)
<1>1. /\ todo = <<>> /\ ~flushed /\ flushed' = flushed /\ log' = log
      /\ fed' = Append(fed, c) /\ Len(fed) < FloorMax
  BY OneSink DEF Floor!Line, Idle
<1>2. fed \in Seq(Floor!Class) /\ Len(fed) \in Nat
  BY DEF FloorInv
<1>3. FloorEnd(log, current, Content(fed)) /\ FloorReady(log)
  BY <1>1, FloorIdle
<1>4. Leads(FloorRules(fed'), <<>>, log, log)
  BY LeadsNone
<1>5. /\ fed' \in Seq(Floor!Class) /\ Len(fed') = Len(fed) + 1 /\ Len(fed') =< FloorMax
      /\ FloorRules(fed).routes \subseteq FloorRules(fed').routes
      /\ FloorRules(fed).repeats \subseteq FloorRules(fed').repeats
      /\ \A i \in Content(fed) : i < Len(fed) + 1
      /\ <<KindIn(fed', Len(fed')), Len(fed')>> \in FloorRules(fed').routes
      /\ FloorRules(fed').repeats = {"Code"}
      /\ c = "fence" => Content(fed') = Content(fed)
      /\ c # "fence" => Content(fed') = Content(fed) \cup {Len(fed) + 1}
  <2> DEFINE n == Len(fed)
             more == Append(fed, c)
  <2>1. /\ more \in Seq(Floor!Class) /\ Len(more) = n + 1
        /\ FloorRules(fed).routes \subseteq FloorRules(more).routes
        /\ <<KindIn(more, n + 1), n + 1>> \in FloorRules(more).routes
        /\ FloorRules(more).repeats = {"Code"} /\ FloorRules(fed).repeats = {"Code"}
        /\ \A i \in Content(fed) : i < n + 1
        /\ c = "fence" => Content(more) = Content(fed)
        /\ c # "fence" => Content(more) = Content(fed) \cup {n + 1}
    BY <1>2, FloorGrows
  <2>2. fed' = more /\ n + 1 =< FloorMax
    BY <1>1, <1>2, LinesAssumption
  <2> HIDE DEF more
  <2> QED BY <2>1, <2>2
<1>6. Lawful(FloorRules(fed'), DocOf(log'))
  BY <1>1, <1>5, LawfulGrows DEF FloorInv
<1>7. Len(fed) + 1 \in Text \cap Nat
  BY <1>1, <1>2, LinesAssumption
<1>8. /\ FencedIn(fed', Len(fed')) <=> in_code
      /\ FencedIn(fed', Len(fed') + 1) <=> ~(c = "fence" <=> in_code)
  <2>1. FencedIn(fed', Len(fed) + 1) <=> FencedIn(fed, Len(fed) + 1)
    BY <1>1, <1>2, FencedOneMore
  <2>2. FencedIn(fed', Len(fed) + 2) <=> ~(c = "fence" <=> FencedIn(fed, Len(fed) + 1))
    BY <1>1, <1>2, FencedOneMore
  <2>3. in_code <=> FencedIn(fed, Len(fed) + 1)
    BY DEF FloorInv
  <2>4. Len(fed') = Len(fed) + 1 /\ Len(fed') + 1 = Len(fed) + 2
    BY <1>2, <1>5
  <2> QED BY <2>1, <2>2, <2>3, <2>4
<1>9. InHunkIn(fed', Len(fed')) <=>
        \/ c = "hunk" /\ ~in_code
        \/ in_diff /\ (c = "fence" \/ in_code \/ c \in Floor!IsDiffLine)
  BY <1>1, <1>2, <1>5, HunkOneMore DEF FloorInv
<1> QED BY <1>1, <1>3, <1>4, <1>5, <1>6, <1>7, <1>8, <1>9

(* A line that is written, after a block was closed for it or not.         *)
LEMMA FloorWrote ==
  ASSUME FloorInv, NEW c \in Floor!Class \ {"fence"}, Floor!Line(c),
         NEW before, NEW l, Leads(FloorRules(fed'), before, log, l),
         NEW open, FloorEnd(l, open, Content(fed)), l.next_id = log.next_id,
         NEW kind, kind = KindIn(fed', Len(fed')),
         open = Floor!NoBlock /\ l.blocks # <<>> =>
           LastBlock(l).block.kind # kind \/ kind = "Code",
         Floor!AppendLine(before, open, kind)
  PROVE  /\ FloorLeads(FloorRules(fed'), todo', log', current', Content(fed'))
         /\ current' # Floor!NoBlock /\ current'.kind = kind
<1> DEFINE rules == FloorRules(fed')
           chunk == Len(fed) + 1
<1>1. /\ log' = log /\ chunk \in Text \cap Nat /\ \A i \in Content(fed) : i < chunk
      /\ <<kind, chunk>> \in rules.routes /\ rules.repeats = {"Code"}
      /\ Content(fed') = Content(fed) \cup {chunk}
  BY FloorLine
<1>2. kind \in ClosableKind /\ kind \in {"Code", "Diff", "Markdown"}
  BY DEF KindIn, ClosableKind
<1>3. open = Floor!NoBlock /\ l.blocks # <<>> => LastBlock(l).block.kind # kind \/ kind \in rules.repeats
  BY <1>1, <1>2
<1>4. /\ current' = Floor!Ensured(open, kind)
      /\ todo' = before \o Floor!EnsureCalls(open, kind)
                        \o <<Floor!TextCall(Floor!Ensured(open, kind).id, chunk)>>
  BY DEF Floor!AppendLine
<1> HIDE DEF rules, chunk
<1>5. Leads(rules, before, log, l)
  BY DEF rules
<1>6. LineLeads(rules, before, open, kind, chunk, Content(fed))
  <2>1. /\ FloorEnd(l, open, Content(fed)) /\ l.next_id = log.next_id
        /\ \A i \in Content(fed) : i < chunk
    BY <1>1
  <2> DEFINE S == Content(fed)
  <2> HIDE DEF S
  <2>2. FloorEnd(l, open, S) /\ \A i \in S : i < chunk
    BY <2>1 DEF S
  <2>3. LineLeads(rules, before, open, kind, chunk, S)
    BY <1>1, <1>2, <1>3, <1>5, <2>1, <2>2, LeadsLine, SMTT(30)
  <2> QED BY <2>3 DEF S
<1>7. /\ FloorLeads(rules, todo', log', current', Content(fed'))
      /\ current' # Floor!NoBlock /\ current'.kind = kind
  BY <1>1, <1>4, <1>6 DEF LineLeads
<1> QED BY <1>7 DEF rules

(* What is left to show of a step: where the block it leaves open is.      *)
LEMMA FloorStepInv ==
  ASSUME FloorInv, NEW c \in Floor!Class, Floor!Line(c),
         in_code' \in BOOLEAN, in_diff' \in BOOLEAN,
         in_code' <=> ~(c = "fence" <=> in_code),
         in_diff' <=> \/ c = "hunk" /\ ~in_code
                      \/ in_diff /\ (c = "fence" \/ in_code \/ c \in Floor!IsDiffLine),
         NEW end, Leads(FloorRules(fed'), todo', log', end),
         FloorEnd(end, current', Content(fed')),
         in_code' => current'.kind = "Code",
         current' = Floor!NoBlock /\ end.blocks # <<>> => LastBlock(end).block.kind = "Code"
  PROVE  FloorInv'
<1>1. /\ Lawful(FloorRules(fed'), DocOf(log'))
      /\ fed' \in Seq(Floor!Class) /\ Len(fed') =< FloorMax
      /\ FencedIn(fed', Len(fed') + 1) <=> ~(c = "fence" <=> in_code)
      /\ InHunkIn(fed', Len(fed')) <=>
           \/ c = "hunk" /\ ~in_code
           \/ in_diff /\ (c = "fence" \/ in_code \/ c \in Floor!IsDiffLine)
  BY FloorLine
<1>2. FloorReady(end)'
  BY DEF FloorReady
<1> QED BY <1>1, <1>2 DEF FloorInv

LEMMA ClosesFirst ==
  ASSUME NEW rules, NEW l, NEW open, NEW S, FloorEnd(l, open, S)
  PROVE  FloorCloses(rules, Floor!CloseCalls(open), l, l, open, S)
<1> DEFINE none == <<>>
<1>1. Leads(rules, none, l, l)
  BY LeadsNone
<1>2. none \o Floor!CloseCalls(open) = Floor!CloseCalls(open)
  BY DEF Floor!CloseCalls
<1> HIDE DEF none
<1> QED BY <1>1, <1>2, LeadsClose

LEMMA CloseFenceInv == FloorInv /\ Floor!CloseFence => FloorInv'
<1> SUFFICES ASSUME FloorInv, Floor!CloseFence
             PROVE  FloorInv'
  OBVIOUS
<1>1. /\ Floor!Line("fence") /\ "fence" \in Floor!Class /\ in_code /\ in_code' = FALSE
      /\ current' = Floor!NoBlock /\ todo' = Floor!CloseCalls(current) /\ in_diff' = in_diff
  BY DEF Floor!CloseFence, Floor!Class
<1>2. /\ log' = log /\ FloorEnd(log, current, Content(fed)) /\ current.kind = "Code"
      /\ Leads(FloorRules(fed'), <<>>, log, log) /\ Content(fed') = Content(fed)
  BY <1>1, FloorLine DEF FloorReady
<1>3. PICK end : /\ Leads(FloorRules(fed'), Floor!CloseCalls(current), log, end)
                 /\ FloorEnd(end, Floor!NoBlock, Content(fed))
                 /\ IF current = Floor!NoBlock THEN end = log
                    ELSE end.blocks # <<>> /\ LastBlock(end).block.kind = current.kind
  <2>1. FloorCloses(FloorRules(fed'), Floor!CloseCalls(current), log, log, current,
                    Content(fed))
    BY <1>2, ClosesFirst
  <2> QED BY <2>1 DEF FloorCloses
<1>5. current # Floor!NoBlock
  BY <1>2 DEF Floor!NoBlock
<1>6. in_diff \in BOOLEAN
  BY DEF FloorInv
<1> QED BY <1>1, <1>2, <1>3, <1>5, <1>6, FloorStepInv

LEMMA OpenFenceInv == FloorInv /\ Floor!OpenFence => FloorInv'
<1> SUFFICES ASSUME FloorInv, Floor!OpenFence
             PROVE  FloorInv'
  OBVIOUS
<1>1. /\ Floor!Line("fence") /\ "fence" \in Floor!Class /\ ~in_code /\ in_code' = TRUE
      /\ current' = Floor!OpenBlock(log.next_id, "Code")
      /\ todo' = Floor!CloseCalls(current) \o <<AppendCall("Code")>> /\ in_diff' = in_diff
  BY SameCalls DEF Floor!OpenFence, Floor!Class
<1>2. /\ log' = log /\ FloorEnd(log, current, Content(fed))
      /\ Leads(FloorRules(fed'), <<>>, log, log) /\ Content(fed') = Content(fed)
      /\ FloorRules(fed').repeats = {"Code"}
  BY <1>1, FloorLine
<1>3. PICK l : /\ Leads(FloorRules(fed'), Floor!CloseCalls(current), log, l)
               /\ FloorEnd(l, Floor!NoBlock, Content(fed)) /\ l.next_id = log.next_id
  <2>1. FloorCloses(FloorRules(fed'), Floor!CloseCalls(current), log, log, current,
                    Content(fed))
    BY <1>2, ClosesFirst
  <2> QED BY <2>1 DEF FloorCloses
<1>5. "Code" \in ClosableKind /\ "Code" \in FloorRules(fed').repeats
  BY <1>2 DEF ClosableKind
<1>6. PICK end : /\ Leads(FloorRules(fed'), Append(Floor!CloseCalls(current), AppendCall("Code")),
                          log, end)
                 /\ FloorEnd(end, current', Content(fed)) /\ current' # Floor!NoBlock
  BY <1>1, <1>3, <1>5, LeadsOpen DEF FloorLeads
<1>7. todo' = Append(Floor!CloseCalls(current), AppendCall("Code"))
  <2>1. Floor!CloseCalls(current) \in Seq(SinkCall) /\ AppendCall("Code") \in SinkCall
    BY <1>3, <1>5 DEF Leads, SinkCall
  <2> QED BY <1>1, <2>1, AppendIsConcat
<1>8. in_diff \in BOOLEAN /\ current'.kind = "Code"
  BY <1>1 DEF FloorInv, Floor!OpenBlock
<1> QED BY <1>1, <1>2, <1>6, <1>7, <1>8, FloorStepInv

LEMMA WrittenInv ==
  ASSUME FloorInv, NEW c \in Floor!Class \ {"fence"}, Floor!Line(c),
         NEW before, NEW l, Leads(FloorRules(fed'), before, log, l),
         NEW open, FloorEnd(l, open, Content(fed)), l.next_id = log.next_id,
         NEW kind, kind = KindIn(fed', Len(fed')),
         open = Floor!NoBlock /\ l.blocks # <<>> =>
           LastBlock(l).block.kind # kind \/ kind = "Code", Floor!AppendLine(before, open, kind),
         in_code' = in_code, in_diff' \in BOOLEAN,
         in_diff' <=> \/ c = "hunk" /\ ~in_code
                      \/ in_diff /\ (in_code \/ c \in Floor!IsDiffLine)
  PROVE  FloorInv'
<1>1. PICK end : Leads(FloorRules(fed'), todo', log', end)
                 /\ FloorEnd(end, current', Content(fed'))
  BY FloorWrote DEF FloorLeads
<1>2. current' # Floor!NoBlock /\ current'.kind = kind
  BY FloorWrote
<1>3. in_code \in BOOLEAN /\ c # "fence"
  BY DEF FloorInv
<1>4. in_code' => current'.kind = "Code"
  <2>1. FencedIn(fed', Len(fed')) <=> in_code
    BY FloorLine
  <2> QED BY <1>2, <2>1 DEF KindIn
<1> QED BY <1>1, <1>2, <1>3, <1>4, FloorStepInv

(* A line appended to the open block, or to a new one.                     *)
LEMMA AppendedInv ==
  ASSUME FloorInv, NEW c \in Floor!Class \ {"fence"}, Floor!Line(c),
         NEW kind, kind = KindIn(fed', Len(fed')),
         Floor!AppendLine(<<>>, current, kind),
         in_code' = in_code, in_diff' \in BOOLEAN,
         in_diff' <=> \/ c = "hunk" /\ ~in_code
                      \/ in_diff /\ (in_code \/ c \in Floor!IsDiffLine)
  PROVE  FloorInv'
<1> DEFINE none == <<>>
<1>1. /\ FloorEnd(log, current, Content(fed)) /\ FloorReady(log) /\ ~flushed
      /\ Leads(FloorRules(fed'), none, log, log)
  BY FloorLine
<1>2. current = Floor!NoBlock /\ log.blocks # <<>> =>
        LastBlock(log).block.kind # kind \/ kind = "Code"
  BY <1>1 DEF FloorReady
<1>3. Floor!AppendLine(none, current, kind)
  OBVIOUS
<1> HIDE DEF none
<1> QED BY <1>1, <1>2, <1>3, WrittenInv

LEMMA FloorKinds ==
  ASSUME FloorInv, NEW c \in Floor!Class \ {"fence"}, Floor!Line(c)
  PROVE  KindIn(fed', Len(fed')) =
           IF in_code THEN "Code"
           ELSE IF c = "hunk" \/ (in_diff /\ c \in Floor!IsDiffLine) THEN "Diff"
           ELSE "Markdown"
BY FloorLine DEF KindIn

LEMMA CodeLineInv ==
  ASSUME FloorInv, NEW c \in Floor!Class \ {"fence"}, Floor!CodeLine(c)
  PROVE  FloorInv'
<1>1. /\ Floor!Line(c) /\ in_code /\ in_code' = in_code /\ in_diff' = in_diff
      /\ Floor!AppendLine(<<>>, current, "Code")
  BY DEF Floor!CodeLine
<1>2. KindIn(fed', Len(fed')) = "Code"
  BY <1>1, FloorKinds
<1>3. in_diff \in BOOLEAN
  BY DEF FloorInv
<1> QED BY <1>1, <1>2, <1>3, AppendedInv

LEMMA DiffLineInv ==
  ASSUME FloorInv, NEW c \in Floor!Class \ {"fence"}, Floor!DiffLine(c)
  PROVE  FloorInv'
<1>1. /\ Floor!Line(c) /\ ~in_code /\ in_code' = in_code /\ in_diff' = TRUE
      /\ in_diff \/ c \in Floor!StartsDiff
      /\ c \in Floor!IsDiffLine
      /\ Floor!AppendLine(<<>>, current, "Diff")
  BY DEF Floor!DiffLine
<1>2. c = "hunk" \/ in_diff
  BY <1>1 DEF Floor!StartsDiff, Floor!IsDiffLine
<1>3. KindIn(fed', Len(fed')) = "Diff"
  BY <1>1, <1>2, FloorKinds
<1> QED BY <1>1, <1>2, <1>3, AppendedInv

LEMMA ProseLineInv ==
  ASSUME FloorInv, NEW c \in Floor!Class \ {"fence"}, Floor!ProseLine(c)
  PROVE  FloorInv'
<1>1. /\ Floor!Line(c) /\ ~in_code /\ in_code' = in_code /\ ~in_diff /\ in_diff' = in_diff
      /\ c \notin Floor!StartsDiff
      /\ Floor!AppendLine(<<>>, current, "Markdown")
  BY DEF Floor!ProseLine
<1>2. c # "hunk"
  BY <1>1 DEF Floor!StartsDiff
<1>3. KindIn(fed', Len(fed')) = "Markdown"
  BY <1>1, <1>2, FloorKinds
<1>4. in_diff \in BOOLEAN
  BY DEF FloorInv
<1> QED BY <1>1, <1>2, <1>3, <1>4, AppendedInv

LEMMA EndDiffLineInv ==
  ASSUME FloorInv, NEW c \in Floor!Class \ {"fence"}, Floor!EndDiffLine(c)
  PROVE  FloorInv'
<1>1. /\ Floor!Line(c) /\ ~in_code /\ in_code' = in_code /\ in_diff' = FALSE
      /\ c \notin Floor!IsDiffLine
      /\ IF current.kind = "Diff"
           THEN Floor!AppendLine(Floor!CloseCalls(current), Floor!NoBlock, "Markdown")
           ELSE Floor!AppendLine(<<>>, current, "Markdown")
  BY DEF Floor!EndDiffLine
<1>2. c # "hunk"
  BY <1>1 DEF Floor!IsDiffLine
<1>3. KindIn(fed', Len(fed')) = "Markdown"
  BY <1>1, <1>2, FloorKinds
<1>4. CASE current.kind # "Diff"
  BY <1>1, <1>2, <1>3, <1>4, AppendedInv
<1>5. CASE current.kind = "Diff"
  <2>1. FloorEnd(log, current, Content(fed))
    BY <1>1, FloorLine
  <2>2. FloorCloses(FloorRules(fed'), Floor!CloseCalls(current), log, log, current,
                    Content(fed))
    BY <2>1, ClosesFirst
  <2>3. current # Floor!NoBlock
    BY <1>5 DEF Floor!NoBlock
  <2>4. PICK l : /\ Leads(FloorRules(fed'), Floor!CloseCalls(current), log, l)
                 /\ FloorEnd(l, Floor!NoBlock, Content(fed)) /\ l.next_id = log.next_id
                 /\ l.blocks # <<>> /\ LastBlock(l).block.kind = "Diff"
    BY <1>5, <2>2, <2>3 DEF FloorCloses
  <2>5. Floor!AppendLine(Floor!CloseCalls(current), Floor!NoBlock, "Markdown")
    BY <1>1, <1>5
  <2>6. LastBlock(l).block.kind # "Markdown"
    BY <2>4
  <2> QED BY <1>1, <1>2, <1>3, <2>4, <2>5, <2>6, WrittenInv
<1> QED BY <1>4, <1>5

LEMMA FloorFlushInv == FloorInv /\ Floor!Flush => FloorInv'
<1> SUFFICES ASSUME FloorInv, Floor!Flush
             PROVE  FloorInv'
  OBVIOUS
<1>1. /\ todo = <<>> /\ flushed' = TRUE /\ todo' = Floor!CloseCalls(current)
      /\ current' = Floor!NoBlock
      /\ log' = log /\ in_code' = in_code /\ in_diff' = in_diff /\ fed' = fed
  BY OneSink DEF Floor!Flush, Idle
<1>2. FloorEnd(log, current, Content(fed))
  BY <1>1, FloorIdle
<1>3. FloorCloses(FloorRules(fed), Floor!CloseCalls(current), log, log, current, Content(fed))
  BY <1>2, ClosesFirst
<1>4. PICK end : Leads(FloorRules(fed), Floor!CloseCalls(current), log, end)
                 /\ FloorEnd(end, Floor!NoBlock, Content(fed))
  BY <1>3 DEF FloorCloses
<1>5. FloorReady(end)'
  BY <1>1 DEF FloorReady
<1> QED BY <1>1, <1>4, <1>5 DEF FloorInv

LEMMA FloorSinkInv ==
  FloorInv /\ SinkStep /\ UNCHANGED <<floor, flushed, fed>> => FloorInv'
<1> SUFFICES ASSUME FloorInv, SinkStep, UNCHANGED <<floor, flushed, fed>>
             PROVE  FloorInv'
  OBVIOUS
<1>1. /\ todo # <<>> /\ log' = Perform(log, Head(todo)) /\ todo' = Tail(todo)
      /\ in_code' = in_code /\ in_diff' = in_diff /\ current' = current
      /\ flushed' = flushed /\ fed' = fed
  BY DEF SinkStep, floor
<1>2. PICK end : /\ Leads(FloorRules(fed), todo, log, end)
                 /\ FloorEnd(end, current, Content(fed)) /\ FloorReady(end)
  BY DEF FloorInv
<1>3. /\ Takes(FloorRules(fed), log, Head(todo), log')
      /\ Leads(FloorRules(fed), todo', log', end)
  BY <1>1, <1>2, LeadsHead
<1>4. Lawful(FloorRules(fed), DocOf(log'))
  BY <1>3, TakesLawful DEF FloorInv
<1>5. FloorReady(end)'
  BY <1>1, <1>2 DEF FloorReady
<1> QED BY <1>1, <1>2, <1>3, <1>4, <1>5 DEF FloorInv

LEMMA FloorInductive == FloorInv /\ [Floor!Next]_(<<sink, floor, flushed, fed>>) => FloorInv'
<1> SUFFICES ASSUME FloorInv, [Floor!Next]_(<<sink, floor, flushed, fed>>)
             PROVE  FloorInv'
  OBVIOUS
<1>1. CASE UNCHANGED <<sink, floor, flushed, fed>>
  BY <1>1 DEF FloorInv, FloorReady, sink, floor
<1>2. CASE Floor!SinkStep /\ UNCHANGED Floor!adapter
  <2>1. SinkStep /\ UNCHANGED <<floor, flushed, fed>>
    BY <1>2, OneSink DEF Floor!adapter, floor
  <2> QED BY <2>1, FloorSinkInv
<1>3. ASSUME NEW c \in Floor!Class \ {"fence"},
             Floor!CodeLine(c) \/ Floor!DiffLine(c) \/ Floor!EndDiffLine(c) \/ Floor!ProseLine(c)
      PROVE  FloorInv'
  BY <1>3, CodeLineInv, DiffLineInv, EndDiffLineInv, ProseLineInv
<1> QED BY <1>1, <1>2, <1>3, CloseFenceInv, OpenFenceInv, FloorFlushInv DEF Floor!Next

LEMMA FloorInit == SinkInit /\ Floor!Init => FloorInv
<1> SUFFICES ASSUME SinkInit, Floor!Init
             PROVE  FloorInv
  OBVIOUS
<1>1. /\ log = EmptyLog /\ todo = <<>> /\ in_code = FALSE /\ in_diff = FALSE
      /\ current = Floor!NoBlock /\ fed = <<>>
  BY DEF SinkInit, Floor!Init
<1>2. fed \in Seq(Floor!Class) /\ Len(fed) = 0 /\ Len(fed) =< FloorMax
  BY <1>1, LinesAssumption
<1>3. ~FencedIn(fed, 1)
  <2>1. Fences(fed, 1) = {}
    BY DEF Fences
  <2> QED BY <2>1, FS_EmptySet DEF FencedIn
<1>4. ~InHunkIn(fed, 0)
  BY DEF InHunkIn
<1>5. log.blocks = <<>> /\ DocOf(log) = <<>>
  BY <1>1 DEF EmptyLog, DocOf
<1>6. Lawful(FloorRules(fed), DocOf(log))
  BY <1>5 DEF Lawful
<1>7. FloorEnd(log, current, Content(fed))
  <2>1. ChatLog(log, current.id)
    BY <1>1, <1>5, EmptyLogSound DEF ChatLog, Floor!NoBlock, None
  <2>2. Content(fed) = {}
    BY <1>2 DEF Content
  <2>3. Ordered(DocOf(log), Content(fed), TRUE)
    BY <1>5, <2>2 DEF Ordered, Lines
  <2> QED BY <1>1, <2>1, <2>3 DEF FloorEnd
<1>8. FloorReady(log)
  BY <1>1, <1>5 DEF FloorReady
<1>9. Leads(FloorRules(fed), todo, log, log)
  BY <1>1, LeadsNone
<1>10. /\ in_code \in BOOLEAN /\ in_diff \in BOOLEAN
       /\ in_code <=> FencedIn(fed, Len(fed) + 1)
       /\ in_diff <=> InHunkIn(fed, Len(fed))
  <2>1. Len(fed) = 0 /\ Len(fed) + 1 = 1
    BY <1>2
  <2>2. ~FencedIn(fed, Len(fed) + 1) /\ ~InHunkIn(fed, Len(fed))
    BY <1>3, <1>4, <2>1
  <2>3. in_code = FALSE /\ in_diff = FALSE
    BY <1>1
  <2> QED BY <2>2, <2>3
<1> QED BY <1>2, <1>6, <1>7, <1>8, <1>9, <1>10 DEF FloorInv

LEMMA FloorReads ==
  /\ \A b : Floor!TextOf(b) = DocOf(log)[b].text
  /\ \A b : Floor!LinesOf(b) = LinesIn(DocOf(log), b)
  /\ Floor!ContentLines = Content(fed)
  /\ \A i : Floor!KindOf(i) = KindIn(fed, i)
<1>1. \A b : Floor!TextOf(b) = DocOf(log)[b].text
  BY OneSink DEF Floor!TextOf
<1>2. \A b : Floor!LinesOf(b) = LinesIn(DocOf(log), b)
  BY <1>1 DEF Floor!LinesOf, LinesIn
<1>3. Floor!ContentLines = Content(fed)
  BY DEF Floor!ContentLines, Content
<1>4. \A i : Floor!KindOf(i) = KindIn(fed, i)
  <2>1. \A S : Floor!Cardinality(S) = Cardinality(S)
    BY DEF Floor!Cardinality, Cardinality
  <2>2. \A i : Floor!Fenced(i) <=> FencedIn(fed, i)
    BY <2>1 DEF Floor!Fenced, FencedIn, Fences
  <2>3. \A i : Floor!InHunk(i) <=> InHunkIn(fed, i)
    BY <2>2 DEF Floor!InHunk, InHunkIn
  <2> QED BY <2>2, <2>3 DEF Floor!KindOf, KindIn
<1> QED BY <1>1, <1>2, <1>3, <1>4

LEMMA FloorCurrentIsOpen == FloorInv => Floor!CurrentIsOpen
<1> SUFFICES ASSUME FloorInv, todo = <<>>
             PROVE  /\ \A i \in 1 .. Len(log.blocks) :
                         log.blocks[i].block.complete <=> current.id # log.blocks[i].id
                    /\ current # Floor!NoBlock =>
                         /\ log.blocks # <<>>
                         /\ log.blocks[Len(log.blocks)].id = current.id
                         /\ log.blocks[Len(log.blocks)].block.kind = current.kind
  BY OneSink DEF Floor!CurrentIsOpen, Idle
<1>1. FloorEnd(log, current, Content(fed))
  BY FloorIdle
<1>2. ChatLog(log, current.id)
  BY <1>1 DEF FloorEnd
<1>3. \A i \in 1 .. Len(log.blocks) :
        log.blocks[i].block.complete <=> current.id # log.blocks[i].id
  BY <1>2 DEF ChatLog
<1>4. ASSUME current # Floor!NoBlock
      PROVE  /\ log.blocks # <<>>
             /\ log.blocks[Len(log.blocks)].id = current.id
             /\ log.blocks[Len(log.blocks)].block.kind = current.kind
  <2>1. current.id \in Nat /\ LastBlock(log).block.kind = current.kind
    BY <1>1, <1>4, FloorOpen
  <2> QED BY <1>2, <2>1 DEF ChatLog, LastBlock, None
<1> QED BY <1>3, <1>4

LEMMA FloorNothingLost == FloorInv => Floor!NothingLost
<1> SUFFICES ASSUME FloorInv, todo = <<>>
             PROVE  LET d == DocOf(log)
                    IN /\ UNION {LinesIn(d, b) : b \in 1 .. Len(d)} = Content(fed)
                       /\ \A b \in 1 .. Len(d) :
                            \A j, k \in 1 .. Len(d[b].text) : j < k => d[b].text[j] < d[b].text[k]
                       /\ \A b, c \in 1 .. Len(d) :
                            b < c => \A i \in LinesIn(d, b), j \in LinesIn(d, c) : i < j
  BY OneSink, FloorReads DEF Floor!NothingLost, Idle
<1> DEFINE d == DocOf(log)
<1>1. Ordered(d, Content(fed), TRUE)
  BY FloorIdle DEF FloorEnd
<1> HIDE DEF d
<1>2. \A b \in 1 .. Len(d) : LinesIn(d, b) \subseteq Nat
  BY <1>1 DEF Ordered, Lines
<1>3. \A b, c \in 1 .. Len(d) : b < c => \A i \in LinesIn(d, b), j \in LinesIn(d, c) : i < j
  <2>1. TAKE b, c \in 1 .. Len(d)
  <2>2. HAVE b < c
  <2>3. TAKE i \in LinesIn(d, b), j \in LinesIn(d, c)
  <2>4. i =< j /\ i # j /\ i \in Nat /\ j \in Nat
    BY <1>1, <1>2, <2>2 DEF Ordered
  <2> QED BY <2>4
<1> QED BY <1>1, <1>3 DEF Ordered, Lines, d

LEMMA FloorLinesRouted == FloorInv => Floor!LinesRouted
<1> SUFFICES ASSUME FloorInv
             PROVE  \A b \in 1 .. Len(DocOf(log)) : \A i \in LinesIn(DocOf(log), b) :
                      DocOf(log)[b].kind = KindIn(fed, i)
  BY OneSink, FloorReads DEF Floor!LinesRouted
<1>1. \A b \in 1 .. Len(DocOf(log)) : \A i \in LinesIn(DocOf(log), b) :
        <<DocOf(log)[b].kind, i>> \in FloorRules(fed).routes
  BY DEF FloorInv, Lawful
<1> QED BY <1>1 DEF FloorRules

LEMMA FloorProse == FloorInv => Floor!ProseInOneBlock
<1> SUFFICES ASSUME FloorInv
             PROVE  \A b \in 1 .. Len(DocOf(log)) - 1 :
                      DocOf(log)[b].kind = DocOf(log)[b + 1].kind => DocOf(log)[b].kind = "Code"
  BY OneSink DEF Floor!ProseInOneBlock
<1>1. \A b \in 1 .. Len(DocOf(log)) - 1 :
        DocOf(log)[b].kind = DocOf(log)[b + 1].kind =>
          DocOf(log)[b].kind \in FloorRules(fed).repeats
  BY DEF FloorInv, Lawful
<1> QED BY <1>1 DEF FloorRules

-----------------------------------------------------------------------------
(***************************************************************************)
(* The Claude adapter.  It may write anything anywhere: what its blocks    *)
(* show is said of the logs its calls lead to.                             *)
(***************************************************************************)
ClaudeRules == [routes |-> ClosableKind \X Text, repeats |-> ClosableKind]

Singles(d) == \A b \in 1 .. Len(d) : d[b].kind = "Code" => Len(d[b].text) = 1

(* The items of the pairs <<kind, item>>. *)
Numbers(P) == {p[2] : p \in P}

(* A log that shows the pairs P, whose open text block is `open`.          *)
ClaudeEnd(l, open, P) ==
  /\ ChatLog(l, open)
  /\ open # None => open \in Nat /\ LastBlock(l).block.kind = "Markdown"
  /\ Ordered(DocOf(l), Numbers(P), FALSE)
  /\ Entries(DocOf(l)) = P
  /\ Singles(DocOf(l))

BuildState == [calls : Seq(SinkCall), open : Nat \cup {None}, next : Nat]

(* The calls built so far lead to such a log. *)
Built(st, first, P) ==
  /\ st \in BuildState
  /\ \E m : /\ Leads(ClaudeRules, st.calls, first, m)
            /\ ClaudeEnd(m, st.open, P) /\ m.next_id = st.next

LEMMA StateFields ==
  ASSUME NEW calls, NEW open, NEW next
  PROVE  /\ Claude!State(calls, open, next).calls = calls
         /\ Claude!State(calls, open, next).open = open
         /\ Claude!State(calls, open, next).next = next
         /\ calls \in Seq(SinkCall) /\ open \in Nat \cup {None} /\ next \in Nat =>
              Claude!State(calls, open, next) \in BuildState
BY DEF Claude!State, BuildState

LEMMA CallFields ==
  ASSUME NEW st \in BuildState, NEW call \in SinkCall
  PROVE  /\ Claude!Call(st, call) \in BuildState
         /\ Claude!Call(st, call).calls = Append(st.calls, call)
         /\ Claude!Call(st, call).open = st.open
         /\ Claude!Call(st, call).next = st.next
<1>1. Append(st.calls, call) \in Seq(SinkCall)
  BY DEF BuildState
<1> QED BY <1>1 DEF Claude!Call, BuildState

LEMMA CloseFields ==
  ASSUME NEW st \in BuildState
  PROVE  /\ Claude!CloseText(st) \in BuildState
         /\ Claude!CloseText(st).open = None
         /\ Claude!CloseText(st).next = st.next
         /\ Claude!CloseText(st).calls =
              IF st.open = None THEN st.calls ELSE Append(st.calls, FinalizeCall(st.open))
<1>1. CASE st.open = None
  BY <1>1 DEF Claude!CloseText, Claude!NoId, None
<1>2. CASE st.open # None
  <2> DEFINE calls == Append(st.calls, FinalizeCall(st.open))
  <2>1. st.open \in Nat /\ st.next \in Nat /\ st.calls \in Seq(SinkCall)
    BY <1>2 DEF BuildState
  <2>2. FinalizeCall(st.open) \in SinkCall
    BY <2>1 DEF SinkCall
  <2>3. calls \in Seq(SinkCall)
    BY <2>1, <2>2
  <2>4. Claude!CloseText(st) = Claude!State(calls, None, st.next)
    BY <1>2, SameCalls DEF Claude!CloseText, Claude!NoId, None
  <2> HIDE DEF calls
  <2>5. None \in Nat \cup {None}
    OBVIOUS
  <2>6. /\ Claude!CloseText(st) \in BuildState /\ Claude!CloseText(st).calls = calls
        /\ Claude!CloseText(st).open = None /\ Claude!CloseText(st).next = st.next
    BY <2>1, <2>3, <2>4, <2>5, StateFields
  <2> QED BY <1>2, <2>6 DEF calls
<1> QED BY <1>1, <1>2

LEMMA Append1Fields ==
  ASSUME NEW st \in BuildState, NEW kind \in ClosableKind
  PROVE  /\ Claude!Append1(st, kind) \in BuildState
         /\ Claude!Append1(st, kind).calls = Append(st.calls, AppendCall(kind))
         /\ Claude!Append1(st, kind).open = st.next
         /\ Claude!Append1(st, kind).next = st.next + 1
<1> DEFINE calls == Append(st.calls, AppendCall(kind))
<1>1. st.next \in Nat /\ st.next + 1 \in Nat /\ st.calls \in Seq(SinkCall)
  BY DEF BuildState
<1>2. AppendCall(kind) \in SinkCall
  BY DEF SinkCall
<1>3. calls \in Seq(SinkCall)
  BY <1>1, <1>2
<1>4. Claude!Append1(st, kind) = Claude!State(calls, st.next, st.next + 1)
  BY SameCalls DEF Claude!Append1
<1> HIDE DEF calls
<1>5. /\ Claude!Append1(st, kind) \in BuildState /\ Claude!Append1(st, kind).calls = calls
      /\ Claude!Append1(st, kind).open = st.next
      /\ Claude!Append1(st, kind).next = st.next + 1
  BY <1>1, <1>3, <1>4, StateFields
<1> QED BY <1>5 DEF calls

LEMMA ClaudeMay ==
  /\ \A l, kind : ChatLog(l, None) /\ kind \in ClosableKind => MayAppend(ClaudeRules, l, kind)
  /\ \A l, open, chunk : ChatLog(l, open) /\ open \in Nat /\ chunk \in Text =>
                           MayWrite(ClaudeRules, l, open, chunk)
<1>1. ASSUME NEW l, NEW kind, ChatLog(l, None), kind \in ClosableKind
      PROVE  MayAppend(ClaudeRules, l, kind)
  BY <1>1 DEF MayAppend, ClaudeRules
<1>2. ASSUME NEW l, NEW open, NEW chunk, ChatLog(l, open), open \in Nat, chunk \in Text
      PROVE  MayWrite(ClaudeRules, l, open, chunk)
  <2>1. LastBlock(l).block.kind \in ClosableKind
    BY <1>2, ChatLogShape DEF ChatLog, LastBlock, None
  <2> QED BY <1>2, <2>1 DEF MayWrite, ClaudeRules
<1> QED BY <1>1, <1>2

LEMMA CloseTextBuilt ==
  ASSUME NEW st, NEW first, NEW P, Built(st, first, P)
  PROVE  Built(Claude!CloseText(st), first, P) /\ Claude!CloseText(st).open = None
<1> DEFINE closed == Claude!CloseText(st)
<1>1. st \in BuildState
  BY DEF Built
<1>2. /\ closed \in BuildState /\ closed.open = None /\ closed.next = st.next
      /\ closed.calls = IF st.open = None THEN st.calls
                        ELSE Append(st.calls, FinalizeCall(st.open))
  BY <1>1, CloseFields
<1> HIDE DEF closed
<1>3. PICK l : /\ Leads(ClaudeRules, st.calls, first, l)
               /\ ClaudeEnd(l, st.open, P) /\ l.next_id = st.next
  BY DEF Built
<1>4. ASSUME st.open = None
      PROVE  Built(closed, first, P)
  BY <1>2, <1>3, <1>4 DEF Built
<1>5. ASSUME st.open # None
      PROVE  Built(closed, first, P)
  <2> DEFINE m == Perform(l, FinalizeCall(st.open))
  <2>1. ChatLog(l, st.open) /\ st.open \in Nat
    BY <1>3, <1>5 DEF ClaudeEnd
  <2>2. Takes(ClaudeRules, l, FinalizeCall(st.open), m)
    BY <2>1 DEF Takes
  <2>3. Leads(ClaudeRules, closed.calls, first, m)
    BY <1>2, <1>3, <1>5, <2>2, LeadsAppend
  <2>4. /\ ChatLog(m, None) /\ m.next_id = l.next_id /\ Closed(DocOf(l), DocOf(m))
    BY <2>1, PerformFinalize
  <2> HIDE DEF m
  <2>5. Ordered(DocOf(m), Numbers(P), FALSE)
    BY <1>3, <2>4, CloseOrdered DEF ClaudeEnd
  <2>6. Singles(DocOf(m))
    BY <1>3, <2>4 DEF ClaudeEnd, Singles, Closed
  <2>7. Entries(DocOf(m)) = P
    BY <1>3, <2>4, CloseEntries DEF ClaudeEnd
  <2>8. ClaudeEnd(m, None, P)
    BY <2>4, <2>5, <2>6, <2>7 DEF ClaudeEnd
  <2> QED BY <1>2, <1>3, <2>3, <2>4, <2>8 DEF Built
<1> QED BY <1>2, <1>4, <1>5 DEF closed

(* A block is opened: nothing is shown of it yet.                          *)
LEMMA OpensBlock ==
  ASSUME NEW st, NEW first, NEW P, Built(st, first, P), st.open = None,
         NEW kind \in ClosableKind
  PROVE  LET opened == Claude!Append1(st, kind)
         IN /\ opened \in BuildState /\ opened.open \in Nat
            /\ \E l, m : /\ ClaudeEnd(l, None, P)
                         /\ Opened(DocOf(l), DocOf(m), kind)
                         /\ Leads(ClaudeRules, opened.calls, first, m)
                         /\ ChatLog(m, opened.open) /\ m.next_id = opened.next
                         /\ LastBlock(m).block.kind = kind
<1> DEFINE opened == Claude!Append1(st, kind)
<1>1. st \in BuildState /\ st.next \in Nat
  BY DEF Built, BuildState
<1>2. /\ opened \in BuildState /\ opened.calls = Append(st.calls, AppendCall(kind))
      /\ opened.open = st.next /\ opened.next = st.next + 1
  BY <1>1, Append1Fields
<1> HIDE DEF opened
<1>3. PICK l : /\ Leads(ClaudeRules, st.calls, first, l)
               /\ ClaudeEnd(l, None, P) /\ l.next_id = st.next
  BY DEF Built
<1> DEFINE m == Perform(l, AppendCall(kind))
<1>4. MayAppend(ClaudeRules, l, kind)
  BY <1>3, ClaudeMay DEF ClaudeEnd
<1>5. Takes(ClaudeRules, l, AppendCall(kind), m)
  BY <1>4 DEF Takes
<1>6. /\ ChatLog(m, l.next_id) /\ m.next_id = l.next_id + 1
      /\ Opened(DocOf(l), DocOf(m), kind) /\ LastBlock(m).block.kind = kind
  BY <1>4, PerformAppend
<1>7. Leads(ClaudeRules, opened.calls, first, m)
  BY <1>2, <1>3, <1>5, LeadsAppend
<1> HIDE DEF m
<1> QED BY <1>1, <1>2, <1>3, <1>6, <1>7 DEF opened

(* A chunk is written to the open block.                                   *)
WroteChunk(first, l, chunk, st) ==
  \E m : /\ Extended(DocOf(l), DocOf(m), chunk)
         /\ Leads(ClaudeRules, st.calls, first, m)
         /\ ChatLog(m, st.open) /\ m.next_id = st.next
         /\ LastBlock(m).block.kind = LastBlock(l).block.kind

LEMMA WritesChunk ==
  ASSUME NEW st \in BuildState, st.open \in Nat, NEW first,
         NEW l, Leads(ClaudeRules, st.calls, first, l), ChatLog(l, st.open),
         l.next_id = st.next, NEW chunk \in Text
  PROVE  LET filled == Claude!Call(st, Claude!TextCall(st.open, chunk))
         IN /\ filled \in BuildState /\ filled.open = st.open
            /\ WroteChunk(first, l, chunk, filled)
<1> DEFINE filled == Claude!Call(st, Claude!TextCall(st.open, chunk))
           m == Perform(l, TextCall(st.open, chunk))
<1>1. TextCall(st.open, chunk) \in SinkCall
  BY DEF SinkCall
<1>2. /\ filled \in BuildState /\ filled.open = st.open /\ filled.next = st.next
      /\ filled.calls = Append(st.calls, TextCall(st.open, chunk))
  BY <1>1, SameCalls, CallFields
<1> HIDE DEF filled
<1>3. MayWrite(ClaudeRules, l, st.open, chunk)
  BY ClaudeMay
<1>4. Takes(ClaudeRules, l, TextCall(st.open, chunk), m)
  BY <1>3 DEF Takes
<1>5. /\ ChatLog(m, st.open) /\ m.next_id = l.next_id
      /\ Extended(DocOf(l), DocOf(m), chunk)
      /\ LastBlock(m).block.kind = LastBlock(l).block.kind
  BY <1>3, PerformText
<1>6. Leads(ClaudeRules, filled.calls, first, m)
  BY <1>2, <1>4, LeadsAppend
<1> HIDE DEF m
<1>7. WroteChunk(first, l, chunk, filled)
  BY <1>2, <1>5, <1>6 DEF WroteChunk
<1> QED BY <1>2, <1>7 DEF filled

LEMMA NumbersMore ==
  ASSUME NEW P, NEW kind, NEW chunk
  PROVE  Numbers(P \cup {<<kind, chunk>>}) = Numbers(P) \cup {chunk}
<1> DEFINE pair == <<kind, chunk>>
<1>1. pair[2] = chunk
  OBVIOUS
<1> HIDE DEF pair
<1>2. Numbers(P \cup {pair}) = Numbers(P) \cup {chunk}
  BY <1>1 DEF Numbers
<1> QED BY <1>2 DEF pair

LEMMA PushMarkdownBuilt ==
  ASSUME NEW st, NEW first, NEW P, Built(st, first, P),
         NEW chunk \in Text \cap Nat, \A i \in Numbers(P) : i =< chunk,
         st.open # None => chunk \notin Numbers(P)
  PROVE  Built(Claude!PushMarkdown(st, chunk), first, P \cup {<<"Markdown", chunk>>})
<1> DEFINE opened == IF st.open = None THEN Claude!Append1(st, "Markdown") ELSE st
           filled == Claude!Call(opened, Claude!TextCall(opened.open, chunk))
<1>1. Claude!PushMarkdown(st, chunk) = filled
  BY DEF Claude!PushMarkdown, Claude!NoId, None
<1>2. /\ opened \in BuildState /\ opened.open \in Nat
      /\ \E m : /\ Ordered(DocOf(m), Numbers(P), FALSE) /\ Singles(DocOf(m))
                /\ Entries(DocOf(m)) = P
                /\ chunk \notin LinesIn(DocOf(m), Len(DocOf(m)))
                /\ Leads(ClaudeRules, opened.calls, first, m)
                /\ ChatLog(m, opened.open) /\ m.next_id = opened.next
                /\ LastBlock(m).block.kind = "Markdown"
  <2>1. CASE st.open = None
    <3>1. opened = Claude!Append1(st, "Markdown") /\ "Markdown" \in ClosableKind
      BY <2>1 DEF ClosableKind
    <3> HIDE DEF opened
    <3>2. opened \in BuildState /\ opened.open \in Nat
      BY <2>1, <3>1, OpensBlock
    <3>3. PICK l, m : /\ ClaudeEnd(l, None, P)
                      /\ Opened(DocOf(l), DocOf(m), "Markdown")
                      /\ Leads(ClaudeRules, opened.calls, first, m)
                      /\ ChatLog(m, opened.open) /\ m.next_id = opened.next
                      /\ LastBlock(m).block.kind = "Markdown"
      BY <2>1, <3>1, OpensBlock
    <3>4. Ordered(DocOf(m), Numbers(P), FALSE)
      BY <3>3, OpenOrdered DEF ClaudeEnd
    <3>5. LinesIn(DocOf(m), Len(DocOf(m))) = {}
      BY <3>3 DEF Opened, LinesIn, NewBlock
    <3>6. Singles(DocOf(m))
      <4>1. /\ \A b \in 1 .. Len(DocOf(l)) : DocOf(m)[b] = DocOf(l)[b]
            /\ DocOf(m)[Len(DocOf(m))].kind # "Code"
            /\ Len(DocOf(m)) = Len(DocOf(l)) + 1 /\ Len(DocOf(l)) \in Nat
        BY <3>3 DEF Opened, NewBlock
      <4> QED BY <3>3, <4>1 DEF ClaudeEnd, Singles
    <3>7. Entries(DocOf(m)) = P
      BY <3>3, OpenEntries DEF ClaudeEnd
    <3> QED BY <3>2, <3>3, <3>4, <3>5, <3>6, <3>7
  <2>2. CASE st.open # None
    <3>1. opened = st /\ st \in BuildState
      BY <2>2 DEF Built
    <3>2. st.open \in Nat
      BY <2>2, <3>1 DEF BuildState
    <3>3. PICK m : /\ Leads(ClaudeRules, st.calls, first, m)
                   /\ ClaudeEnd(m, st.open, P) /\ m.next_id = st.next
      BY DEF Built
    <3>4. chunk \notin LinesIn(DocOf(m), Len(DocOf(m)))
      <4>1. DocOf(m) # <<>> /\ Len(DocOf(m)) \in 1 .. Len(DocOf(m))
        BY <2>2, <3>3, LastIsOpen, ChatLogShape DEF ClaudeEnd
      <4>2. LinesIn(DocOf(m), Len(DocOf(m))) \subseteq Numbers(P)
        BY <3>3, <4>1 DEF ClaudeEnd, Ordered, Lines
      <4> QED BY <2>2, <4>2
    <3> HIDE DEF opened
    <3> QED BY <2>2, <3>1, <3>2, <3>3, <3>4 DEF ClaudeEnd
  <2> QED BY <2>1, <2>2
<1> HIDE DEF opened
<1>3. PICK l : /\ Ordered(DocOf(l), Numbers(P), FALSE) /\ Singles(DocOf(l))
               /\ Entries(DocOf(l)) = P
               /\ chunk \notin LinesIn(DocOf(l), Len(DocOf(l)))
               /\ Leads(ClaudeRules, opened.calls, first, l)
               /\ ChatLog(l, opened.open) /\ l.next_id = opened.next
               /\ LastBlock(l).block.kind = "Markdown"
  BY <1>2
<1>4. /\ filled \in BuildState /\ filled.open = opened.open
      /\ WroteChunk(first, l, chunk, filled)
  BY <1>2, <1>3, WritesChunk
<1>5. PICK m : /\ Extended(DocOf(l), DocOf(m), chunk)
               /\ Leads(ClaudeRules, filled.calls, first, m)
               /\ ChatLog(m, opened.open) /\ m.next_id = filled.next
               /\ LastBlock(m).block.kind = "Markdown"
  BY <1>3, <1>4 DEF WroteChunk
<1> HIDE DEF filled
<1> DEFINE Q == P \cup {<<"Markdown", chunk>>}
<1>6. Ordered(DocOf(m), Numbers(Q), FALSE)
  <2>1. Ordered(DocOf(m), Numbers(P) \cup {chunk}, FALSE)
    BY <1>3, <1>5, ExtendOrdered
  <2> QED BY <2>1, NumbersMore
<1>7. Singles(DocOf(m))
  <2>1. DocOf(m)[Len(DocOf(m))].kind = "Markdown"
    BY <1>5, ChatLogShape DEF DocOf, Shows, LastBlock, Extended
  <2>2. /\ Len(DocOf(m)) = Len(DocOf(l)) /\ Len(DocOf(l)) \in 1 .. Len(DocOf(l))
        /\ \A b \in 1 .. Len(DocOf(l)) : b # Len(DocOf(l)) => DocOf(m)[b] = DocOf(l)[b]
    BY <1>5 DEF Extended
  <2> QED BY <1>3, <2>1, <2>2 DEF Singles
<1>8. Entries(DocOf(m)) = Q
  <2>1. DocOf(l)[Len(DocOf(l))].kind = "Markdown"
    BY <1>3, <1>5, ChatLogShape DEF DocOf, Shows, LastBlock, Extended
  <2> QED BY <1>3, <1>5, <2>1, ExtendEntries
<1> HIDE DEF Q
<1>9. ClaudeEnd(m, filled.open, Q)
  BY <1>2, <1>4, <1>5, <1>6, <1>7, <1>8 DEF ClaudeEnd
<1>10. Built(filled, first, Q)
  BY <1>4, <1>5, <1>9 DEF Built
<1> QED BY <1>1, <1>10 DEF Q

LEMMA PushWholeBuilt ==
  ASSUME NEW st, NEW first, NEW P, Built(st, first, P), NEW kind \in ClosableKind,
         NEW chunk \in Text \cap Nat, \A i \in Numbers(P) : i =< chunk
  PROVE  /\ Built(Claude!PushWhole(st, kind, chunk), first, P \cup {<<kind, chunk>>})
         /\ Claude!PushWhole(st, kind, chunk).open = None
<1> DEFINE before == Claude!CloseText(st)
           opened == Claude!Append1(before, kind)
           filled == Claude!Call(opened, Claude!TextCall(opened.open, chunk))
           closed == Claude!CloseText(filled)
<1>1. Claude!PushWhole(st, kind, chunk) = closed
  BY DEF Claude!PushWhole
<1>2. Built(before, first, P) /\ before.open = None
  BY CloseTextBuilt
<1> HIDE DEF before
<1>3. /\ opened \in BuildState /\ opened.open \in Nat
      /\ \E l, m : /\ ClaudeEnd(l, None, P)
                   /\ Opened(DocOf(l), DocOf(m), kind)
                   /\ Leads(ClaudeRules, opened.calls, first, m)
                   /\ ChatLog(m, opened.open) /\ m.next_id = opened.next
                   /\ LastBlock(m).block.kind = kind
  BY <1>2, OpensBlock
<1> HIDE DEF opened
<1>4. PICK l, k : /\ ClaudeEnd(l, None, P)
                  /\ Opened(DocOf(l), DocOf(k), kind)
                  /\ Leads(ClaudeRules, opened.calls, first, k)
                  /\ ChatLog(k, opened.open) /\ k.next_id = opened.next
  BY <1>3
<1>5. /\ filled \in BuildState /\ filled.open = opened.open
      /\ WroteChunk(first, k, chunk, filled)
  BY <1>3, <1>4, WritesChunk
<1> HIDE DEF filled
<1>6. PICK m : /\ Extended(DocOf(k), DocOf(m), chunk)
               /\ Leads(ClaudeRules, filled.calls, first, m)
               /\ ChatLog(m, filled.open) /\ m.next_id = filled.next
  BY <1>5 DEF WroteChunk
<1>7. filled.open \in Nat /\ filled.open # None
  BY <1>3, <1>5 DEF None
<1>8. /\ closed \in BuildState /\ closed.open = None /\ closed.next = filled.next
      /\ closed.calls = Append(filled.calls, FinalizeCall(filled.open))
  BY <1>5, <1>7, CloseFields
<1> HIDE DEF closed
<1> DEFINE end == Perform(m, FinalizeCall(filled.open))
<1>9. Takes(ClaudeRules, m, FinalizeCall(filled.open), end)
  BY <1>6, <1>7 DEF Takes
<1>10. Leads(ClaudeRules, closed.calls, first, end)
  BY <1>6, <1>8, <1>9, LeadsAppend
<1>11. /\ ChatLog(end, None) /\ end.next_id = m.next_id
       /\ Closed(DocOf(m), DocOf(end))
  BY <1>6, <1>7, PerformFinalize
<1> HIDE DEF end
<1> DEFINE Q == P \cup {<<kind, chunk>>}
<1>12. Ordered(DocOf(end), Numbers(Q), FALSE)
  <2>1. Ordered(DocOf(k), Numbers(P), FALSE)
    BY <1>4, OpenOrdered DEF ClaudeEnd
  <2>2. LinesIn(DocOf(k), Len(DocOf(k))) = {}
    BY <1>4 DEF Opened, LinesIn, NewBlock
  <2>3. Ordered(DocOf(m), Numbers(P) \cup {chunk}, FALSE)
    BY <1>6, <2>1, <2>2, ExtendOrdered
  <2>4. Ordered(DocOf(end), Numbers(P) \cup {chunk}, FALSE)
    BY <1>11, <2>3, CloseOrdered
  <2> QED BY <2>4, NumbersMore
<1>13. Singles(DocOf(end))
  <2> DEFINE n == Len(DocOf(l))
  <2>1. /\ n \in Nat /\ Len(DocOf(k)) = n + 1 /\ DocOf(k)[n + 1].text = <<>>
        /\ \A b \in 1 .. n : DocOf(k)[b] = DocOf(l)[b]
    BY <1>4 DEF Opened, NewBlock
  <2>2. /\ Len(DocOf(m)) = n + 1 /\ DocOf(m)[n + 1].text = Append(DocOf(k)[n + 1].text, chunk)
        /\ \A b \in 1 .. n : DocOf(m)[b] = DocOf(k)[b]
    BY <1>6, <2>1 DEF Extended
  <2>3. Len(DocOf(m)[n + 1].text) = 1
    BY <2>1, <2>2
  <2>4. \A b \in 1 .. n : DocOf(l)[b].kind = "Code" => Len(DocOf(l)[b].text) = 1
    BY <1>4 DEF ClaudeEnd, Singles
  <2> HIDE DEF n
  <2>5. ASSUME NEW b \in 1 .. n + 1, DocOf(m)[b].kind = "Code"
        PROVE  Len(DocOf(m)[b].text) = 1
    <3>1. CASE b = n + 1
      BY <2>3, <3>1
    <3>2. CASE b \in 1 .. n
      <4>1. DocOf(m)[b] = DocOf(l)[b]
        BY <2>1, <2>2, <3>2
      <4> QED BY <2>4, <2>5, <3>2, <4>1
    <3> QED BY <2>1, <3>1, <3>2
  <2>6. Singles(DocOf(m))
    BY <2>2, <2>5 DEF Singles
  <2> QED BY <1>11, <2>6 DEF Singles, Closed
<1>14. Entries(DocOf(end)) = Q
  <2>1. Entries(DocOf(k)) = P
    BY <1>4, OpenEntries DEF ClaudeEnd
  <2>2. DocOf(k)[Len(DocOf(k))].kind = kind
    BY <1>4 DEF Opened, NewBlock
  <2>3. Entries(DocOf(m)) = Q
    BY <1>6, <2>1, <2>2, ExtendEntries
  <2> QED BY <1>11, <2>3, CloseEntries
<1> HIDE DEF Q
<1>15. ClaudeEnd(end, closed.open, Q)
  BY <1>8, <1>11, <1>12, <1>13, <1>14 DEF ClaudeEnd
<1>16. Built(closed, first, Q)
  BY <1>6, <1>8, <1>10, <1>11, <1>15 DEF Built
<1> QED BY <1>1, <1>8, <1>16 DEF Q

(* What an item adds, and whether the text block is closed after it.       *)
LEMMA HandleItemBuilt ==
  ASSUME NEW st, NEW first, NEW P, Built(st, first, P), NEW item \in Claude!Item,
         NEW chunk \in Nat, \A i \in Numbers(P) : i < chunk,
         Claude!KindsOf(item) # {} => chunk \in Text
  PROVE  /\ Built(Claude!HandleItem(st, item, chunk), first,
                  P \cup {<<kind, chunk>> : kind \in Claude!KindsOf(item)})
         /\ item = "close" => Claude!HandleItem(st, item, chunk).open = None
<1> DEFINE Text1 == {<<"Markdown", chunk>>}
           Code1 == {<<"Code", chunk>>}
           said == Claude!PushMarkdown(st, chunk)
<1>1. Numbers(P) \subseteq Nat /\ Built(st, first, P)
  BY DEF Built, ClaudeEnd, Ordered
<1>2. chunk \notin Numbers(P) /\ \A i \in Numbers(P) : i =< chunk
  BY <1>1
<1>3. "Code" \in ClosableKind /\ "Markdown" \in ClosableKind
  BY DEF ClosableKind
<1>4. ASSUME chunk \in Text
      PROVE  /\ Built(said, first, P \cup Text1)
             /\ Built(Claude!PushCode(st, chunk), first, P \cup Code1)
             /\ Built(Claude!PushWhole(st, "Markdown", chunk), first, P \cup Text1)
  BY <1>2, <1>3, <1>4, PushMarkdownBuilt, PushWholeBuilt DEF Claude!PushCode
<1>5. ASSUME chunk \in Text
      PROVE  Built(Claude!PushCode(said, chunk), first, (P \cup Text1) \cup Code1)
  <2>1. Numbers(P \cup Text1) = Numbers(P) \cup {chunk}
    BY NumbersMore
  <2>2. \A i \in Numbers(P \cup Text1) : i =< chunk
    BY <1>2, <2>1
  <2> HIDE DEF said, Text1
  <2> QED BY <1>3, <1>4, <1>5, <2>2, PushWholeBuilt DEF Claude!PushCode
<1>6. Built(Claude!CloseText(st), first, P) /\ Claude!CloseText(st).open = None
  BY <1>1, CloseTextBuilt
<1> HIDE DEF said
<1>7. CASE item \in {"text", "garbage", "header"}
  <2>1. /\ Claude!HandleItem(st, item, chunk) = said
        /\ {<<kind, chunk>> : kind \in Claude!KindsOf(item)} = Text1
        /\ Claude!KindsOf(item) # {} /\ item # "close"
    BY <1>7 DEF Claude!HandleItem, Claude!KindsOf, said
  <2> QED BY <1>4, <2>1
<1>8. CASE item = "tool"
  <2>1. /\ Claude!HandleItem(st, item, chunk) = Claude!PushCode(said, chunk)
        /\ Claude!KindsOf(item) = {"Markdown", "Code"} /\ item # "close"
    BY <1>8 DEF Claude!HandleItem, Claude!KindsOf, said
  <2>2. P \cup {<<kind, chunk>> : kind \in Claude!KindsOf(item)} = (P \cup Text1) \cup Code1
    BY <2>1
  <2> QED BY <1>5, <2>1, <2>2
<1>9. CASE item = "output"
  <2>1. /\ Claude!HandleItem(st, item, chunk) = Claude!PushCode(st, chunk)
        /\ {<<kind, chunk>> : kind \in Claude!KindsOf(item)} = Code1
        /\ Claude!KindsOf(item) # {} /\ item # "close"
    BY <1>9 DEF Claude!HandleItem, Claude!KindsOf
  <2> QED BY <1>4, <2>1
<1>10. CASE item = "answer"
  <2>1. /\ Claude!HandleItem(st, item, chunk) = Claude!PushWhole(st, "Markdown", chunk)
        /\ {<<kind, chunk>> : kind \in Claude!KindsOf(item)} = Text1
        /\ Claude!KindsOf(item) # {} /\ item # "close"
    BY <1>10 DEF Claude!HandleItem, Claude!KindsOf
  <2> QED BY <1>4, <2>1
<1>11. CASE item \in {"close", "skipped", "blank"}
  <2>1. /\ Claude!HandleItem(st, item, chunk) = IF item = "close" THEN Claude!CloseText(st) ELSE st
        /\ P \cup {<<kind, chunk>> : kind \in Claude!KindsOf(item)} = P
    BY <1>11 DEF Claude!HandleItem, Claude!KindsOf
  <2> QED BY <1>1, <1>6, <2>1
<1> QED BY <1>7, <1>8, <1>9, <1>10, <1>11 DEF Claude!Item

(* What the first n items given show.                                      *)
Showing(given, n) ==
  UNION {{<<kind, i>> : kind \in Claude!KindsOf(given[i])} : i \in 1 .. n}

(* The calls to come lead to a log that shows these pairs.                 *)
ClaudeReaches(calls, l, open, P) ==
  \E end : Leads(ClaudeRules, calls, l, end) /\ ClaudeEnd(end, open, P)

Passed(given, items) == Len(given) - Len(items)

(* The items in hand are the last of those given.                          *)
LastOf(given, items) ==
  /\ given \in Seq(Claude!Item) /\ items \in Seq(Claude!Item)
  /\ Len(items) =< Len(given)
  /\ \A k \in 1 .. Len(items) : items[k] = given[Passed(given, items) + k]

(* Only what closes the text at the end may be beyond the bound.           *)
Bounded(given) ==
  \A i \in 1 .. Len(given) : Claude!KindsOf(given[i]) # {} => i =< JsonMax

ClaudeInv ==
  /\ LastOf(fed, content) /\ Bounded(fed)
  /\ buf \in Claude!Line \cup {Claude!Nothing}
  /\ buf # Claude!Nothing => Len(fed) + Len(buf) < JsonMax
  /\ flushed => IF content = <<>> THEN text_block = None
                ELSE content[Len(content)] = "close"
  /\ ClaudeReaches(todo, log, text_block, Showing(fed, Passed(fed, content)))

LEMMA LineItems ==
  /\ \A items \in Claude!Line : items \in Seq(Claude!Item)
  /\ Claude!Json \subseteq Claude!Line
<1>1. ASSUME NEW Items \in SUBSET Claude!Item, NEW items \in Claude!Array(Items)
      PROVE  items \in Seq(Claude!Item)
  <2>1. PICK n \in Nat : items \in [1 .. n -> Items]
    <3>1. PICK n \in 1 .. ContentMax : items \in [1 .. n -> Items]
      BY <1>1 DEF Claude!Array
    <3> QED BY <3>1, LinesAssumption
  <2>2. items \in Seq(Items)
    BY <2>1, SeqDef
  <2> QED BY <2>2
<1>2. /\ {"text", "tool", "header", "skipped"} \subseteq Claude!Item
      /\ {"output", "skipped"} \subseteq Claude!Item
      /\ {"answer", "close", "garbage", "blank"} \subseteq Claude!Item
  BY DEF Claude!Item
<1>3. ASSUME NEW items \in Claude!Json PROVE items \in Seq(Claude!Item)
  <2>1. CASE items \in Claude!Array({"text", "tool", "header", "skipped"})
    BY <1>1, <1>2, <2>1
  <2>2. CASE items \in Claude!Array({"output", "skipped"})
    BY <1>1, <1>2, <2>2
  <2>3. CASE items \in {<<"answer">>, <<"close">>, <<"skipped">>}
    <3>1. \A item \in Claude!Item : <<item>> \in Seq(Claude!Item)
      OBVIOUS
    <3>2. {"answer", "close", "skipped"} \subseteq Claude!Item
      BY DEF Claude!Item
    <3> QED BY <2>3, <3>1, <3>2
  <2> QED BY <1>3, <2>1, <2>2, <2>3 DEF Claude!Json
<1>4. <<"garbage">> \in Seq(Claude!Item) /\ <<"blank">> \in Seq(Claude!Item)
  BY <1>2
<1> QED BY <1>3, <1>4 DEF Claude!Line

LEMMA ShowingFacts ==
  ASSUME NEW given, NEW n \in Nat
  PROVE  /\ Numbers(Showing(given, n)) \subseteq 1 .. n
         /\ Showing(given, n + 1) =
              Showing(given, n)
                \cup {<<kind, n + 1>> : kind \in Claude!KindsOf(given[n + 1])}
<1>1. ASSUME NEW p \in Showing(given, n) PROVE p[2] \in 1 .. n
  BY <1>1 DEF Showing
<1>2. Numbers(Showing(given, n)) \subseteq 1 .. n
  BY <1>1 DEF Numbers
<1>3. 1 .. (n + 1) = (1 .. n) \cup {n + 1}
  OBVIOUS
<1>4. Showing(given, n + 1) =
        Showing(given, n) \cup {<<kind, n + 1>> : kind \in Claude!KindsOf(given[n + 1])}
  BY <1>3 DEF Showing
<1> QED BY <1>2, <1>4

LEMMA ClaudeIdle ==
  ASSUME ClaudeInv, todo = <<>>
  PROVE  ClaudeEnd(log, text_block, Showing(fed, Passed(fed, content)))
BY LeadsDone DEF ClaudeInv, ClaudeReaches

LEMMA StartBuilt ==
  ASSUME NEW P, ClaudeEnd(log, text_block, P)
  PROVE  Built(Claude!Start, log, P)
<1> DEFINE none == <<>>
<1>1. ChatLog(log, text_block) /\ log.next_id \in Nat /\ text_block \in Nat \cup {None}
  BY ChatLogShape DEF ClaudeEnd
<1>2. Claude!Start = Claude!State(none, text_block, log.next_id)
  BY DEF Claude!Start
<1>3. none \in Seq(SinkCall) /\ Leads(ClaudeRules, none, log, log)
  BY LeadsNone
<1> HIDE DEF none
<1>4. /\ Claude!Start \in BuildState /\ Claude!Start.calls = none
      /\ Claude!Start.open = text_block /\ Claude!Start.next = log.next_id
  BY <1>1, <1>2, <1>3, StateFields
<1> QED BY <1>3, <1>4 DEF Built

(* New items come into hand when there are none: what is shown stays.      *)
LEMMA TakeInHand ==
  ASSUME ClaudeInv, content = <<>>, NEW items \in Seq(Claude!Item),
         NEW given, given = fed \o items
  PROVE  /\ LastOf(given, items)
         /\ Showing(given, Passed(given, items)) = Showing(fed, Passed(fed, content))
         /\ Len(given) = Len(fed) + Len(items)
         /\ \A k \in 1 .. Len(fed) : given[k] = fed[k]
         /\ \A k \in 1 .. Len(items) : given[Len(fed) + k] = items[k]
<1>1. fed \in Seq(Claude!Item) /\ Passed(fed, content) = Len(fed) /\ Len(fed) \in Nat
  BY DEF ClaudeInv, LastOf, Passed
<1>2. /\ given \in Seq(Claude!Item) /\ Len(given) = Len(fed) + Len(items)
      /\ \A k \in 1 .. Len(fed) : given[k] = fed[k]
      /\ \A k \in 1 .. Len(items) : given[Len(fed) + k] = items[k]
  BY <1>1, ConcatProperties
<1>3. Passed(given, items) = Len(fed) /\ Len(items) \in Nat
  BY <1>1, <1>2 DEF Passed
<1>4. LastOf(given, items)
  BY <1>1, <1>2, <1>3 DEF LastOf
<1>5. Showing(given, Len(fed)) = Showing(fed, Len(fed))
  BY <1>2 DEF Showing
<1> QED BY <1>1, <1>2, <1>3, <1>4, <1>5

LEMMA FeedLineInv ==
  ASSUME ClaudeInv, NEW items \in Claude!Line, Claude!FeedLine(items)
  PROVE  ClaudeInv'
<1>1. /\ todo' = todo /\ log' = log /\ text_block' = text_block
      /\ flushed' = flushed /\ ~flushed /\ content = <<>>
      /\ content' = items /\ fed' = fed \o items /\ buf' = Claude!Nothing
      /\ Len(fed) + Len(items) < JsonMax
  BY DEF Claude!FeedLine, Claude!Reading, Claude!Fits, Claude!sink
<1>2. items \in Seq(Claude!Item) /\ fed \in Seq(Claude!Item)
  BY LineItems DEF ClaudeInv, LastOf
<1>3. /\ LastOf(fed', content')
      /\ Showing(fed', Passed(fed', content')) = Showing(fed, Passed(fed, content))
      /\ Len(fed') = Len(fed) + Len(items)
  BY <1>1, <1>2, TakeInHand
<1>4. Bounded(fed')
  BY <1>1, <1>2, <1>3, LinesAssumption DEF Bounded
<1>5. ClaudeReaches(todo', log', text_block', Showing(fed', Passed(fed', content')))
  BY <1>1, <1>3 DEF ClaudeInv
<1> QED BY <1>1, <1>3, <1>4, <1>5 DEF ClaudeInv

(* The next item is shown by the log to which the adapter's calls lead.    *)
LEMMA HandleNextInv ==
  ASSUME ClaudeInv, Claude!HandleNext
  PROVE  ClaudeInv'
<1> DEFINE n == Passed(fed, content)
           item == Head(content)
           st == Claude!HandleItem(Claude!Start, item, n + 1)
           P == Showing(fed, n)
<1>1. /\ todo = <<>> /\ content # <<>> /\ content' = Tail(content)
      /\ log' = log /\ buf' = buf /\ flushed' = flushed /\ fed' = fed
      /\ todo' = st.calls /\ text_block' = st.open
  BY OneSink DEF Claude!HandleNext, Claude!Become, Idle, Passed
<1>2. /\ LastOf(fed, content) /\ Bounded(fed)
      /\ fed \in Seq(Claude!Item) /\ content \in Seq(Claude!Item)
      /\ Len(fed) \in Nat /\ Len(content) \in Nat /\ Len(content) =< Len(fed)
  BY DEF ClaudeInv, LastOf
<1>3. /\ item \in Claude!Item /\ item = content[1] /\ Len(content) >= 1
      /\ content' \in Seq(Claude!Item) /\ Len(content') = Len(content) - 1
      /\ \A k \in 1 .. Len(content') : content'[k] = content[k + 1]
  BY <1>1, <1>2, HeadTailProperties
<1>4. /\ n \in Nat /\ n + 1 \in 1 .. Len(fed) /\ fed[n + 1] = item
      /\ Passed(fed', content') = n + 1
  BY <1>1, <1>2, <1>3 DEF Passed, LastOf
<1> HIDE DEF item
<1>5. LastOf(fed', content')
  <2>1. ASSUME NEW k \in 1 .. Len(content')
        PROVE  content'[k] = fed'[(n + 1) + k]
    <3>1. k + 1 \in 1 .. Len(content) /\ content'[k] = content[k + 1]
      BY <1>2, <1>3
    <3>2. content[k + 1] = fed[n + (k + 1)]
      BY <1>2, <3>1 DEF LastOf
    <3>3. n + (k + 1) = (n + 1) + k
      BY <1>4
    <3> QED BY <1>1, <3>1, <3>2, <3>3
  <2> HIDE DEF n
  <2>2. fed' \in Seq(Claude!Item) /\ content' \in Seq(Claude!Item)
    BY <1>1, <1>2, <1>3
  <2>3. Len(content') =< Len(fed')
    BY <1>1, <1>2, <1>3
  <2>4. \A k \in 1 .. Len(content') : content'[k] = fed'[Passed(fed', content') + k]
    BY <1>4, <2>1
  <2> QED BY <2>2, <2>3, <2>4 DEF LastOf
<1> HIDE DEF n
<1>6. /\ Numbers(P) \subseteq 1 .. n
      /\ Showing(fed, n + 1) = P \cup {<<kind, n + 1>> : kind \in Claude!KindsOf(item)}
  BY <1>4, ShowingFacts
<1>7. Claude!KindsOf(item) # {} => n + 1 \in Text
  <2>1. Claude!KindsOf(item) # {} => n + 1 =< JsonMax
    BY <1>2, <1>4 DEF Bounded
  <2> QED BY <1>4, <2>1, LinesAssumption
<1>8. Built(Claude!Start, log, P)
  BY <1>1, ClaudeIdle, StartBuilt DEF n
<1> HIDE DEF P
<1>9. n + 1 \in Nat /\ \A i \in Numbers(P) : i < n + 1
  BY <1>4, <1>6
<1>10. /\ Built(st, log, Showing(fed, n + 1))
       /\ item = "close" => st.open = None
  BY <1>3, <1>6, <1>7, <1>8, <1>9, HandleItemBuilt
<1> HIDE DEF st
<1>11. ClaudeReaches(todo', log', text_block', Showing(fed', Passed(fed', content')))
  BY <1>1, <1>4, <1>10 DEF Built, ClaudeReaches
<1>12. flushed' => IF content' = <<>> THEN text_block' = None
                   ELSE content'[Len(content')] = "close"
  <2> SUFFICES ASSUME flushed
               PROVE  IF content' = <<>> THEN text_block' = None
                      ELSE content'[Len(content')] = "close"
    BY <1>1
  <2>1. content[Len(content)] = "close"
    BY <1>1 DEF ClaudeInv
  <2>2. CASE content' = <<>>
    <3>1. Len(content) = 1
      BY <1>2, <1>3, <2>2
    <3> QED BY <1>1, <1>3, <1>10, <2>1, <2>2, <3>1
  <2>3. CASE content' # <<>>
    <3>1. Len(content') \in 1 .. Len(content')
      BY <1>3, <2>3
    <3>2. content'[Len(content')] = content[Len(content') + 1] /\ Len(content') + 1 = Len(content)
      BY <1>2, <1>3, <3>1
    <3> QED BY <2>1, <2>3, <3>2
  <2> QED BY <2>2, <2>3
<1> QED BY <1>1, <1>2, <1>5, <1>11, <1>12 DEF ClaudeInv

LEMMA ClaudeFlushInv ==
  ASSUME ClaudeInv, Claude!Flush
  PROVE  ClaudeInv'
<1> DEFINE rest == IF buf \in Claude!Json THEN buf ELSE <<>>
           items == rest \o <<"close">>
<1>1. /\ todo' = todo /\ log' = log /\ text_block' = text_block
      /\ content = <<>> /\ flushed' = TRUE /\ buf' = Claude!Nothing
      /\ content' = items /\ fed' = fed \o items
  BY DEF Claude!Flush, Claude!Reading, Claude!sink
<1>2. /\ rest \in Seq(Claude!Item) /\ Len(rest) \in Nat
      /\ rest # <<>> => Len(fed) + Len(rest) < JsonMax
  BY LineItems DEF ClaudeInv, Claude!Nothing
<1> HIDE DEF rest
<1>3. "close" \in Claude!Item
  BY DEF Claude!Item
<1>4. /\ items \in Seq(Claude!Item) /\ Len(items) = Len(rest) + 1
      /\ items # <<>> /\ items[Len(items)] = "close"
  BY <1>2, <1>3
<1>5. fed \in Seq(Claude!Item) /\ Len(fed) \in Nat /\ Bounded(fed)
  BY DEF ClaudeInv, LastOf
<1> HIDE DEF items
<1>6. /\ LastOf(fed', content')
      /\ Showing(fed', Passed(fed', content')) = Showing(fed, Passed(fed, content))
      /\ Len(fed') = Len(fed) + Len(items)
      /\ \A k \in 1 .. Len(fed) : fed'[k] = fed[k]
      /\ \A k \in 1 .. Len(items) : fed'[Len(fed) + k] = items[k]
  BY <1>1, <1>4, TakeInHand
<1>7. Bounded(fed')
  <2> SUFFICES ASSUME NEW i \in 1 .. Len(fed'), Claude!KindsOf(fed'[i]) # {}
               PROVE  i =< JsonMax
    BY DEF Bounded
  <2>1. CASE i \in 1 .. Len(fed)
    BY <1>5, <1>6, <2>1 DEF Bounded
  <2>2. CASE i \in Len(fed) + 1 .. Len(fed) + Len(rest)
    <3>1. Len(rest) > 0
      BY <1>2, <1>5, <2>2
    <3>2. rest # <<>>
      BY <3>1
    <3> QED BY <1>2, <1>5, <2>2, <3>2, LinesAssumption
  <2>3. CASE i = Len(fed) + Len(items)
    <3>1. Len(items) \in 1 .. Len(items)
      BY <1>2, <1>4
    <3>2. fed'[i] = "close"
      BY <1>4, <1>6, <2>3, <3>1
    <3>3. Claude!KindsOf("close") = {}
      BY DEF Claude!KindsOf
    <3> QED BY <3>2, <3>3
  <2>4. /\ Len(fed') = Len(fed) + Len(rest) + 1
        /\ Len(fed) + Len(items) = Len(fed) + Len(rest) + 1
        /\ Len(fed) \in Nat /\ Len(rest) \in Nat
    BY <1>2, <1>4, <1>5, <1>6
  <2>5. \/ i \in 1 .. Len(fed)
        \/ i \in Len(fed) + 1 .. Len(fed) + Len(rest)
        \/ i = Len(fed) + Len(items)
    BY <2>4
  <2> QED BY <2>1, <2>2, <2>3, <2>5
<1>8. ClaudeReaches(todo', log', text_block', Showing(fed', Passed(fed', content')))
  BY <1>1, <1>6 DEF ClaudeInv
<1> QED BY <1>1, <1>4, <1>6, <1>7, <1>8 DEF ClaudeInv

LEMMA ClaudeSinkInv ==
  ASSUME ClaudeInv, SinkStep, UNCHANGED <<claude, flushed, fed>>
  PROVE  ClaudeInv'
<1>1. /\ todo # <<>> /\ log' = Perform(log, Head(todo)) /\ todo' = Tail(todo)
      /\ buf' = buf /\ content' = content /\ text_block' = text_block
      /\ flushed' = flushed /\ fed' = fed
  BY DEF SinkStep, claude
<1> DEFINE P == Showing(fed, Passed(fed, content))
<1>2. PICK end : Leads(ClaudeRules, todo, log, end) /\ ClaudeEnd(end, text_block, P)
  BY DEF ClaudeInv, ClaudeReaches
<1>3. Leads(ClaudeRules, todo', log', end)
  BY <1>1, <1>2, LeadsHead
<1>4. ClaudeReaches(todo', log', text_block', P)
  BY <1>1, <1>2, <1>3 DEF ClaudeReaches
<1> QED BY <1>1, <1>4 DEF ClaudeInv

LEMMA ClaudeInductive == ClaudeInv /\ [Claude!Next]_(<<sink, claude, flushed, fed>>) => ClaudeInv'
<1> SUFFICES ASSUME ClaudeInv, [Claude!Next]_(<<sink, claude, flushed, fed>>)
             PROVE  ClaudeInv'
  OBVIOUS
<1>1. CASE UNCHANGED <<sink, claude, flushed, fed>>
  BY <1>1 DEF ClaudeInv, sink, claude
<1>2. CASE Claude!SinkStep /\ UNCHANGED Claude!adapter
  <2>1. SinkStep /\ UNCHANGED <<claude, flushed, fed>>
    BY <1>2, OneSink DEF Claude!adapter, claude
  <2> QED BY <2>1, ClaudeSinkInv
<1>3. ASSUME NEW items \in Claude!Line, Claude!FeedPart(items)
      PROVE  ClaudeInv'
  <2>1. /\ todo' = todo /\ log' = log /\ text_block' = text_block /\ flushed' = flushed
        /\ content' = content /\ fed' = fed /\ buf' = items
        /\ Len(fed) + Len(items) < JsonMax
    BY <1>3 DEF Claude!FeedPart, Claude!Fits, Claude!sink
  <2> QED BY <2>1 DEF ClaudeInv
<1> QED BY <1>1, <1>2, <1>3, FeedLineInv, HandleNextInv, ClaudeFlushInv DEF Claude!Next

LEMMA ClaudeInit == SinkInit /\ Claude!Init => ClaudeInv
<1> SUFFICES ASSUME SinkInit, Claude!Init
             PROVE  ClaudeInv
  OBVIOUS
<1>1. /\ log = EmptyLog /\ todo = <<>> /\ buf = Claude!Nothing /\ content = <<>>
      /\ text_block = None /\ fed = <<>>
  BY DEF SinkInit, Claude!Init, Claude!NoId, None
<1>2. /\ fed \in Seq(Claude!Item) /\ content \in Seq(Claude!Item)
      /\ Len(fed) = 0 /\ Len(content) = 0
  BY <1>1
<1>3. LastOf(fed, content) /\ Bounded(fed) /\ Passed(fed, content) = 0
  BY <1>2 DEF LastOf, Bounded, Passed
<1>4. log.blocks = <<>> /\ DocOf(log) = <<>>
  BY <1>1 DEF EmptyLog, DocOf
<1>5. ClaudeEnd(log, text_block, {})
  <2>1. ChatLog(log, None)
    BY <1>1, <1>4, EmptyLogSound DEF ChatLog
  <2>2. Ordered(DocOf(log), {}, FALSE) /\ Singles(DocOf(log))
    BY <1>4 DEF Ordered, Lines, Singles
  <2>3. Numbers({}) = {} /\ Entries(DocOf(log)) = {}
    BY <1>4 DEF Numbers, Entries
  <2> QED BY <1>1, <2>1, <2>2, <2>3 DEF ClaudeEnd
<1>6. Showing(fed, 0) = {}
  BY DEF Showing
<1>7. Leads(ClaudeRules, todo, log, log)
  BY <1>1, LeadsNone
<1>8. ClaudeReaches(todo, log, text_block, Showing(fed, Passed(fed, content)))
  BY <1>3, <1>5, <1>6, <1>7 DEF ClaudeReaches
<1> QED BY <1>1, <1>3, <1>8 DEF ClaudeInv

LEMMA ClaudeReads ==
  /\ \A b : Claude!TextOf(b) = DocOf(log)[b].text
  /\ \A b : Claude!ShownIn(b) = LinesIn(DocOf(log), b)
<1>1. \A b : Claude!TextOf(b) = DocOf(log)[b].text
  BY OneSink DEF Claude!TextOf
<1> QED BY <1>1 DEF Claude!ShownIn, LinesIn

LEMMA ClaudeTextBlockIsOpen == ClaudeInv => Claude!TextBlockIsOpen
<1> SUFFICES ASSUME ClaudeInv, todo = <<>>
             PROVE  /\ \A i \in 1 .. Len(log.blocks) :
                         /\ log.blocks[i].block.complete <=> log.blocks[i].id # text_block
                         /\ log.blocks[i].id = text_block =>
                              log.blocks[i].block.kind = "Markdown"
                    /\ flushed /\ content = <<>> => text_block = None
  BY OneSink DEF Claude!TextBlockIsOpen, Idle, Claude!NoId, None
<1>1. flushed /\ content = <<>> => text_block = None
  BY DEF ClaudeInv
<1>2. PICK P : ClaudeEnd(log, text_block, P)
  BY ClaudeIdle
<1>3. ChatLog(log, text_block)
  BY <1>2 DEF ClaudeEnd
<1>4. \A i \in 1 .. Len(log.blocks) :
        log.blocks[i].block.complete <=> log.blocks[i].id # text_block
  BY <1>3 DEF ChatLog
<1>5. ASSUME NEW i \in 1 .. Len(log.blocks), log.blocks[i].id = text_block
      PROVE  log.blocks[i].block.kind = "Markdown"
  <2>1. log.blocks[i] \in Entry /\ Len(log.blocks) \in Nat
    BY <1>3, ChatLogShape
  <2>2. text_block # None
    BY <1>5, <2>1 DEF Entry, BlockId, None
  <2>3. log.index[text_block] = Len(log.blocks)
    BY <1>3, <2>2, ChatLogShape
  <2>4. log.index[text_block] = i
    BY <1>3, <1>5 DEF ChatLog, WellFormed
  <2> QED BY <1>2, <2>2, <2>3, <2>4 DEF ClaudeEnd, LastBlock
<1> QED BY <1>1, <1>4, <1>5

LEMMA ClaudeInOrder == ClaudeInv => Claude!InOrder
<1> SUFFICES ASSUME ClaudeInv, todo = <<>>
             PROVE  LET d == DocOf(log)
                    IN /\ \A b \in 1 .. Len(d) :
                            /\ \A j, k \in 1 .. Len(d[b].text) :
                                 j < k => d[b].text[j] < d[b].text[k]
                            /\ d[b].kind = "Code" => Len(d[b].text) = 1
                       /\ \A b, c \in 1 .. Len(d) :
                            b < c => \A i \in LinesIn(d, b), j \in LinesIn(d, c) : i =< j
  BY OneSink, ClaudeReads DEF Claude!InOrder, Idle
<1> DEFINE d == DocOf(log)
<1>1. PICK S : Ordered(d, S, FALSE) /\ Singles(d)
  BY ClaudeIdle DEF ClaudeEnd
<1> HIDE DEF d
<1> QED BY <1>1 DEF Ordered, Singles, d

LEMMA ClaudeItemsShown == ClaudeInv => Claude!ItemsShown
<1> SUFFICES ASSUME ClaudeInv, todo = <<>>, content = <<>>
             PROVE  Entries(DocOf(log)) = Showing(fed, Len(fed))
  BY OneSink, ClaudeReads DEF Claude!ItemsShown, Idle, Showing, Entries, EntriesIn
<1>1. Entries(DocOf(log)) = Showing(fed, Passed(fed, content))
  BY ClaudeIdle DEF ClaudeEnd
<1>2. fed \in Seq(Claude!Item) /\ Len(fed) \in Nat /\ Len(content) = 0
  BY DEF ClaudeInv, LastOf
<1>3. Passed(fed, content) = Len(fed)
  BY <1>2 DEF Passed
<1> QED BY <1>1, <1>3

-----------------------------------------------------------------------------
(***************************************************************************)
(* The adapter that was picked.                                            *)
(***************************************************************************)
AdapterInv ==
  /\ adapter \in {"floor", "claude"}
  /\ adapter = "floor" => FloorInv
  /\ adapter = "claude" => ClaudeInv

LEMMA AdapterInit == Init => AdapterInv
<1> SUFFICES ASSUME Init PROVE AdapterInv
  OBVIOUS
<1>1. SinkInit
  BY OneSink DEF Init, Floor!Init
<1> QED BY <1>1, FloorInit, ClaudeInit DEF Init, AdapterInv

LEMMA AdapterInductive == AdapterInv /\ [Next]_vars => AdapterInv'
<1> SUFFICES ASSUME AdapterInv, [Next]_vars PROVE AdapterInv'
  OBVIOUS
<1>1. CASE adapter = "floor" /\ Floor!Next /\ UNCHANGED <<adapter, claude>>
  BY <1>1, FloorInductive DEF AdapterInv
<1>2. CASE adapter = "claude" /\ Claude!Next /\ UNCHANGED <<adapter, floor>>
  BY <1>2, ClaudeInductive DEF AdapterInv
<1>3. CASE UNCHANGED vars
  BY <1>3, FloorInductive, ClaudeInductive DEF AdapterInv, vars
<1> QED BY <1>1, <1>2, <1>3 DEF Next

LEMMA Invariant == Spec => []AdapterInv
BY AdapterInit, AdapterInductive, PTL DEF Spec

(* Between two lines the floor's `current` is exactly the open block, the  *)
(* last one, of the kind recorded, after any number of lines.              *)
THEOREM CurrentIsOpenHolds == Spec => []CurrentIsOpen
<1>1. AdapterInv => CurrentIsOpen
  BY FloorCurrentIsOpen DEF AdapterInv, CurrentIsOpen
<1> QED BY <1>1, Invariant, PTL

(* The floor loses, doubles and moves no line.                             *)
THEOREM NothingLostHolds == Spec => []NothingLost
<1>1. AdapterInv => NothingLost
  BY FloorNothingLost DEF AdapterInv, NothingLost
<1> QED BY <1>1, Invariant, PTL

(* At every moment, also between two calls for one line, every line is in  *)
(* a block of the kind that all the lines before it determine.             *)
THEOREM LinesRoutedHolds == Spec => []LinesRouted
<1>1. AdapterInv => LinesRouted
  BY FloorLinesRouted DEF AdapterInv, LinesRouted
<1> QED BY <1>1, Invariant, PTL

(* At every moment, neighbours of one kind are two fenced blocks.          *)
THEOREM ProseInOneBlockHolds == Spec => []ProseInOneBlock
<1>1. AdapterInv => ProseInOneBlock
  BY FloorProse DEF AdapterInv, ProseInOneBlock
<1> QED BY <1>1, Invariant, PTL

(* Between two items the Claude adapter's open text block is the log's     *)
(* only open block, and a Markdown block; at the end there is none.        *)
THEOREM TextBlockIsOpenHolds == Spec => []TextBlockIsOpen
<1>1. AdapterInv => TextBlockIsOpen
  BY ClaudeTextBlockIsOpen DEF AdapterInv, TextBlockIsOpen
<1> QED BY <1>1, Invariant, PTL

(* Its blocks show the items of the stream in order, however they are      *)
(* spread over events, and a tool's input or output is a block by itself.  *)
THEOREM InOrderHolds == Spec => []InOrder
<1>1. AdapterInv => InOrder
  BY ClaudeInOrder DEF AdapterInv, InOrder
<1> QED BY <1>1, Invariant, PTL

(* Every item with something to show, and every line that cannot be        *)
(* parsed, is shown, each part in a block of its kind, as soon as its      *)
(* newline has come and its calls are made; of what a flush finds in the   *)
(* buffer only an event is.                                                *)
THEOREM ItemsShownHolds == Spec => []ItemsShown
<1>1. AdapterInv => ItemsShown
  BY ClaudeItemsShown DEF AdapterInv, ItemsShown
<1> QED BY <1>1, Invariant, PTL

LEMMA PendingLeads ==
  ASSUME AdapterInv
  PROVE  \E rules, end : Leads(rules, todo, log, end)
BY DEF AdapterInv, FloorInv, ClaudeInv, ClaudeReaches

(* A line changes no block by itself: only the calls do. *)
LEMMA OnlyCallsWrite ==
  ASSUME AdapterInv, [Next]_vars
  PROVE  SinkStep \/ log' = log
<1>1. CASE Floor!Next
  BY <1>1, OneSink DEF Floor!Next, Floor!CloseFence, Floor!OpenFence, Floor!CodeLine,
       Floor!DiffLine, Floor!EndDiffLine, Floor!ProseLine, Floor!Flush, Floor!Line
<1>2. CASE Claude!Next
  BY <1>2, OneSink DEF Claude!Next, Claude!FeedPart, Claude!FeedLine, Claude!HandleNext,
       Claude!Flush, Claude!sink
<1>3. CASE UNCHANGED vars
  BY <1>3 DEF vars, sink
<1> QED BY <1>1, <1>2, <1>3 DEF Next

(* Whichever adapter was picked, and however its calls interleave with the *)
(* readers, the log is a document that grows at its end only.              *)
THEOREM Refinement == Spec => ImplementsChat
<1>1. Init => Chat!Init
  <2> SUFFICES ASSUME Init PROVE Document = <<>>
    BY DEF Chat!Init
  <2>1. log = EmptyLog
    BY OneSink DEF Init, Floor!Init, SinkInit
  <2>2. log.blocks = <<>>
    BY <2>1 DEF EmptyLog
  <2> QED BY <2>2 DEF Document
<1>2. AdapterInv /\ [Next]_vars => [Chat!Next]_Document
  <2> SUFFICES ASSUME AdapterInv, [Next]_vars PROVE [Chat!Next]_Document
    OBVIOUS
  <2>1. CASE SinkStep
    <3>1. todo # <<>> /\ log' = Perform(log, Head(todo))
      BY <2>1 DEF SinkStep
    <3>2. PICK rules, end : Leads(rules, todo, log, end)
      BY PendingLeads
    <3>3. Takes(rules, log, Head(todo), log')
      BY <3>1, <3>2, LeadsHead
    <3>4. DocStep(DocOf(log), DocOf(log'))
      BY <3>3, TakesDocStep
    <3>5. DocStep(Document, Document')
      BY <3>4, DocumentIs
    <3> QED BY <3>5, DocStepRefines
  <2>2. CASE log' = log
    BY <2>2 DEF Document
  <2> QED BY <2>1, <2>2, OnlyCallsWrite
<1> QED BY <1>1, <1>2, Invariant, PTL DEF Spec, ImplementsChat, Chat!Spec

-----------------------------------------------------------------------------
(***************************************************************************)
(* The lines of the floor adapter (FloorLines).  Induction over numbers,   *)
(* stated with a set instead of a predicate, and the first of a set of     *)
(* positions: what the proofs about the positions of an output use.        *)
(***************************************************************************)
LEMMA BoundedInduction ==
  ASSUME NEW n \in Nat, NEW Good, 0 \in Good,
         \A k \in 0 .. n - 1 : k \in Good => k + 1 \in Good
  PROVE  0 .. n \subseteq Good
<1> SUFFICES ASSUME NEW m \in 0 .. n, m \notin Good PROVE FALSE
  OBVIOUS
<1> DEFINE Bad == {k \in 0 .. m : k \notin Good}
           f == [k \in Bad |-> k - 1]
<1>1. \A k \in Bad : k - 1 \in Bad \ {m}
  OBVIOUS
<1>2. IsFiniteSet(Bad)
  <2>1. IsFiniteSet(0 .. m)
    BY FS_Interval
  <2>2. Bad \in SUBSET (0 .. m)
    OBVIOUS
  <2> HIDE DEF Bad
  <2> QED BY <2>1, <2>2, FS_Subset
<1>3. m \in Bad
  OBVIOUS
<1>4. \A k \in Bad : k \in Int
  OBVIOUS
<1> HIDE DEF Bad
<1>5. /\ IsFiniteSet(Bad \ {m}) /\ Cardinality(Bad \ {m}) = Cardinality(Bad) - 1
      /\ Cardinality(Bad) \in Nat
  BY <1>2, <1>3, FS_RemoveElement, FS_CardinalityType
<1>6. f \in [Bad -> Bad \ {m}]
  BY <1>1
<1> HIDE DEF f
<1>7. \E x, y \in Bad : x # y /\ f[x] = f[y]
  <2>1. Cardinality(Bad \ {m}) < Cardinality(Bad)
    BY <1>5
  <2> QED BY <1>2, <1>5, <1>6, <2>1, FS_PigeonHole
<1> QED BY <1>4, <1>7 DEF f

LEMMA SetInduction ==
  ASSUME NEW Good, 0 \in Good, \A k \in Nat : k \in Good => k + 1 \in Good
  PROVE  Nat \subseteq Good
<1> SUFFICES ASSUME NEW n \in Nat PROVE n \in Good
  OBVIOUS
<1>1. \A k \in 0 .. n - 1 : k \in Good => k + 1 \in Good
  OBVIOUS
<1>2. 0 .. n \subseteq Good
  BY <1>1, BoundedInduction
<1> QED BY <1>2

(* A set of positions has a first one.                                     *)
LEMMA FirstPosition ==
  ASSUME NEW n \in Nat, NEW S \in SUBSET (1 .. n), S # {}
  PROVE  Min(S) \in S /\ \A k \in S : Min(S) =< k
<1> DEFINE Good == {k \in 0 .. n : (\E m \in S : m =< k) => \E m \in S : \A j \in S : m =< j}
<1>1. 0 \in Good
  OBVIOUS
<1>2. \A k \in 0 .. n - 1 : k \in Good => k + 1 \in Good
  <2> SUFFICES ASSUME NEW k \in 0 .. n - 1, k \in Good, NEW m \in S, m =< k + 1
               PROVE  \E first \in S : \A j \in S : first =< j
    OBVIOUS
  <2>1. CASE \E j \in S : j =< k
    BY <2>1
  <2>2. CASE ~ \E j \in S : j =< k
    <3>1. \A j \in S : m =< j
      BY <2>2
    <3> QED BY <3>1
  <2> QED BY <2>1, <2>2
<1>3. n \in Good
  <2> HIDE DEF Good
  <2> QED BY <1>1, <1>2, BoundedInduction
<1>4. \E m \in S : m =< n
  <2>1. PICK m : m \in S
    OBVIOUS
  <2>2. m =< n
    BY <2>1
  <2> QED BY <2>1, <2>2
<1>5. \E m \in S : \A j \in S : m =< j
  BY <1>3, <1>4
<1> QED BY <1>5 DEF Min

-----------------------------------------------------------------------------
(***************************************************************************)
(* Escape sequences.                                                       *)
(***************************************************************************)
(* What EscapeEnd and Covers say of an output that grows by a byte, at the *)
(* positions before it.                                                    *)
LEMMA FirstOfFacts ==
  ASSUME NEW t \in Seq(Class), NEW ends \in SUBSET (1 .. Len(t) + 1)
  PROVE  /\ FirstOf(t, ends) \in 1 .. Len(t) + 1
         /\ ends = {} => FirstOf(t, ends) = Len(t) + 1
         /\ ends # {} => FirstOf(t, ends) \in ends /\ \A k \in ends : FirstOf(t, ends) =< k
<1>1. Len(t) \in Nat /\ Len(t) + 1 \in Nat
  OBVIOUS
<1>2. ends # {} => Min(ends) \in ends /\ \A k \in ends : Min(ends) =< k
  BY <1>1, FirstPosition
<1>3. CASE ends = {}
  BY <1>1, <1>3 DEF FirstOf
<1>4. CASE ends # {}
  <2>1. FirstOf(t, ends) = Min(ends)
    BY <1>4 DEF FirstOf
  <2> QED BY <1>1, <1>2, <1>4, <2>1
<1> QED BY <1>3, <1>4

LEMMA Grown ==
  ASSUME NEW t \in Seq(Class), NEW b \in Class
  PROVE  /\ Append(t, b) \in Seq(Class)
         /\ Len(t) \in Nat /\ Len(Append(t, b)) = Len(t) + 1
         /\ \A i \in 1 .. Len(t) : Append(t, b)[i] = t[i] /\ t[i] \in Class
         /\ Append(t, b)[Len(t) + 1] = b
OBVIOUS

(* Where a CSI, and an OSC sequence that starts at i may end.              *)
CsiEnds(t, i) == {j \in i + 2 .. Len(t) : t[j] \in Final}
OscEnds(t, i) == {j \in i + 2 .. Len(t) : t[j] = "bel"}
                   \cup {j + 1 : j \in {k \in i + 2 .. Len(t) : t[k] = "esc"}}

LEMMA EndsTyped ==
  ASSUME NEW t \in Seq(Class), NEW i \in 1 .. Len(t)
  PROVE  /\ CsiEnds(t, i) \in SUBSET (1 .. Len(t) + 1) /\ \A e \in CsiEnds(t, i) : e > i
         /\ OscEnds(t, i) \in SUBSET (1 .. Len(t) + 1) /\ \A e \in OscEnds(t, i) : e > i
BY DEF CsiEnds, OscEnds

LEMMA EscapeEndCases ==
  ASSUME NEW t \in Seq(Class), NEW i \in 1 .. Len(t)
  PROVE  /\ i = Len(t) => EscapeEnd(t, i) = Len(t) + 1
         /\ i < Len(t) /\ t[i + 1] = "[" => EscapeEnd(t, i) = FirstOf(t, CsiEnds(t, i))
         /\ i < Len(t) /\ t[i + 1] = "]" => EscapeEnd(t, i) = FirstOf(t, OscEnds(t, i))
         /\ i < Len(t) /\ t[i + 1] \notin {"[", "]"} => EscapeEnd(t, i) = i + 1
<1>1. Len(t) \in Nat /\ i \in Nat
  OBVIOUS
<1>2. CASE i = Len(t)
  BY <1>1, <1>2 DEF EscapeEnd
<1>3. CASE i < Len(t) /\ t[i + 1] = "["
  BY <1>1, <1>3 DEF EscapeEnd, CsiEnds
<1>4. CASE i < Len(t) /\ t[i + 1] = "]"
  BY <1>1, <1>4 DEF EscapeEnd, OscEnds
<1>5. CASE i < Len(t) /\ t[i + 1] \notin {"[", "]"}
  BY <1>1, <1>5 DEF EscapeEnd
<1> QED BY <1>1, <1>2, <1>3, <1>4, <1>5

LEMMA EscapeEndTyped ==
  ASSUME NEW t \in Seq(Class), NEW i \in 1 .. Len(t)
  PROVE  EscapeEnd(t, i) \in i + 1 .. Len(t) + 1
<1>1. Len(t) \in Nat
  OBVIOUS
<1>2. ASSUME NEW ends \in SUBSET (1 .. Len(t) + 1), \A e \in ends : e > i
      PROVE  FirstOf(t, ends) \in i + 1 .. Len(t) + 1
  BY <1>1, <1>2, FirstOfFacts
<1>3. FirstOf(t, CsiEnds(t, i)) \in i + 1 .. Len(t) + 1
  BY <1>2, EndsTyped
<1>4. FirstOf(t, OscEnds(t, i)) \in i + 1 .. Len(t) + 1
  BY <1>2, EndsTyped
<1> QED BY <1>1, <1>3, <1>4, EscapeEndCases

(* A sequence that has ended stays as it is, one that has not ends later.  *)
LEMMA FirstOfGrows ==
  ASSUME NEW t \in Seq(Class), NEW b \in Class,
         NEW ends \in SUBSET (1 .. Len(t) + 1), NEW more \in SUBSET (1 .. Len(t) + 2),
         ends \subseteq more, \A e \in more \ ends : e > Len(t)
  PROVE  LET old == FirstOf(t, ends)
             new == FirstOf(Append(t, b), more)
         IN  (old =< Len(t) => new = old) /\ (old > Len(t) => new > Len(t))
<1>1. /\ Len(t) \in Nat /\ Len(Append(t, b)) = Len(t) + 1 /\ Append(t, b) \in Seq(Class)
  BY Grown
<1>2. more \in SUBSET (1 .. Len(Append(t, b)) + 1)
  BY <1>1
<1> DEFINE old == FirstOf(t, ends)
           new == FirstOf(Append(t, b), more)
<1>3. /\ old \in 1 .. Len(t) + 1
      /\ ends = {} => old = Len(t) + 1
      /\ ends # {} => old \in ends /\ \A k \in ends : old =< k
  BY FirstOfFacts
<1>4. /\ new \in 1 .. Len(t) + 2
      /\ more = {} => new = Len(t) + 2
      /\ more # {} => new \in more /\ \A k \in more : new =< k
  <2>1. PICK u \in Seq(Class) : u = Append(t, b)
    BY <1>1
  <2>2. /\ FirstOf(u, more) \in 1 .. Len(u) + 1
        /\ more = {} => FirstOf(u, more) = Len(u) + 1
        /\ more # {} => FirstOf(u, more) \in more /\ \A k \in more : FirstOf(u, more) =< k
    BY <1>2, <2>1, FirstOfFacts
  <2>3. Len(u) + 1 = Len(t) + 2
    BY <1>1, <2>1
  <2> QED BY <2>1, <2>2, <2>3
<1> HIDE DEF old, new
<1>5. old =< Len(t) => new = old
  BY <1>1, <1>3, <1>4
<1>6. old > Len(t) => new > Len(t)
  BY <1>1, <1>3, <1>4
<1> QED BY <1>5, <1>6 DEF old, new

LEMMA EscapeEndGrows ==
  ASSUME NEW t \in Seq(Class), NEW b \in Class, NEW i \in 1 .. Len(t)
  PROVE  /\ EscapeEnd(t, i) =< Len(t) => EscapeEnd(Append(t, b), i) = EscapeEnd(t, i)
         /\ EscapeEnd(t, i) > Len(t) => EscapeEnd(Append(t, b), i) > Len(t)
<1> DEFINE u == Append(t, b)
<1>1. /\ u \in Seq(Class) /\ Len(t) \in Nat /\ Len(u) = Len(t) + 1
      /\ \A j \in 1 .. Len(t) : u[j] = t[j]
  BY Grown
<1> HIDE DEF u
<1>2. i \in 1 .. Len(u) /\ i < Len(u)
  BY <1>1
<1>3. /\ CsiEnds(t, i) \subseteq CsiEnds(u, i)
      /\ \A e \in CsiEnds(u, i) \ CsiEnds(t, i) : e > Len(t)
  BY <1>1 DEF CsiEnds
<1>4. /\ OscEnds(t, i) \subseteq OscEnds(u, i)
      /\ \A e \in OscEnds(u, i) \ OscEnds(t, i) : e > Len(t)
  BY <1>1 DEF OscEnds
<1>5. /\ CsiEnds(t, i) \in SUBSET (1 .. Len(t) + 1) /\ CsiEnds(u, i) \in SUBSET (1 .. Len(t) + 2)
      /\ OscEnds(t, i) \in SUBSET (1 .. Len(t) + 1) /\ OscEnds(u, i) \in SUBSET (1 .. Len(t) + 2)
  BY <1>1, <1>2, EndsTyped
<1>6. CASE i < Len(t) /\ t[i + 1] = "["
  <2>1. u[i + 1] = "["
    BY <1>1, <1>6
  <2>2. EscapeEnd(t, i) = FirstOf(t, CsiEnds(t, i)) /\ EscapeEnd(u, i) = FirstOf(u, CsiEnds(u, i))
    BY <1>1, <1>2, <1>6, <2>1, EscapeEndCases
  <2> QED BY <1>3, <1>5, <2>2, FirstOfGrows DEF u
<1>7. CASE i < Len(t) /\ t[i + 1] = "]"
  <2>1. u[i + 1] = "]"
    BY <1>1, <1>7
  <2>2. EscapeEnd(t, i) = FirstOf(t, OscEnds(t, i)) /\ EscapeEnd(u, i) = FirstOf(u, OscEnds(u, i))
    BY <1>1, <1>2, <1>7, <2>1, EscapeEndCases
  <2> QED BY <1>4, <1>5, <2>2, FirstOfGrows DEF u
<1>8. CASE i < Len(t) /\ t[i + 1] \notin {"[", "]"}
  <2>1. u[i + 1] \notin {"[", "]"}
    BY <1>1, <1>8
  <2>2. EscapeEnd(t, i) = i + 1 /\ EscapeEnd(u, i) = i + 1
    BY <1>1, <1>2, <1>8, <2>1, EscapeEndCases
  <2> QED BY <1>1, <1>8, <2>2 DEF u
<1>9. CASE i = Len(t)
  <2>1. EscapeEnd(t, i) = Len(t) + 1 /\ EscapeEnd(u, i) \in i + 1 .. Len(u) + 1
    BY <1>1, <1>2, <1>9, EscapeEndCases, EscapeEndTyped
  <2> QED BY <1>1, <1>9, <2>1 DEF u
<1> QED BY <1>1, <1>6, <1>7, <1>8, <1>9

(* Covers, step by step.                                                   *)
CoverIter(t, g, n) ==
  [k \in 0 .. n |-> IF k = 0 THEN 0
                    ELSE IF g[k - 1] >= k THEN g[k - 1]
                    ELSE IF t[k] = "esc" THEN EscapeEnd(t, k) ELSE 0]

LEMMA CoverIterExists ==
  ASSUME NEW t, NEW n \in Nat
  PROVE  \E g : g = CoverIter(t, g, n)
<1> DEFINE Good == {k \in Nat : \E g : g = CoverIter(t, g, k)}
<1>1. 0 \in Good
  <2>1. 0 .. 0 = {0}
    OBVIOUS
  <2>2. \A g : CoverIter(t, g, 0) = [k \in {0} |-> 0]
    BY <2>1 DEF CoverIter
  <2> QED BY <2>2
<1>2. \A k \in Nat : k \in Good => k + 1 \in Good
  <2> SUFFICES ASSUME NEW k \in Nat, NEW g, g = CoverIter(t, g, k)
               PROVE  \E h : h = CoverIter(t, h, k + 1)
    OBVIOUS
  <2> DEFINE h == CoverIter(t, g, k + 1)
  <2>1. ASSUME NEW j \in 0 .. k PROVE h[j] = g[j]
    <3>1. j \in 0 .. k + 1
      OBVIOUS
    <3>2. h[j] = CoverIter(t, g, k)[j]
      BY <3>1 DEF CoverIter
    <3> QED BY <3>2
  <2>2. \A j \in 0 .. k + 1 : j # 0 => h[j - 1] = g[j - 1]
    BY <2>1
  <2> HIDE DEF h
  <2>3. CoverIter(t, g, k + 1) = CoverIter(t, h, k + 1)
    BY <2>2, Zenon DEF CoverIter
  <2>4. h = CoverIter(t, h, k + 1)
    BY <2>3 DEF h
  <2> QED BY <2>4
<1>3. n \in Good
  <2> HIDE DEF Good
  <2> QED BY <1>1, <1>2, SetInduction
<1> QED BY <1>3

LEMMA CoverSteps ==
  ASSUME NEW t \in Seq(Class)
  PROVE  /\ Covers(t)[0] = 0
         /\ \A k \in 1 .. Len(t) :
              /\ Covers(t)[k - 1] >= k => Covers(t)[k] = Covers(t)[k - 1]
              /\ ~(Covers(t)[k - 1] >= k) /\ t[k] = "esc" => Covers(t)[k] = EscapeEnd(t, k)
              /\ ~(Covers(t)[k - 1] >= k) /\ t[k] # "esc" => Covers(t)[k] = 0
<1>1. Len(t) \in Nat
  OBVIOUS
<1>2. \E g : g = CoverIter(t, g, Len(t))
  BY <1>1, CoverIterExists
<1>3. Covers(t) = CHOOSE g : g = CoverIter(t, g, Len(t))
  BY Zenon DEF Covers, CoverIter
<1> DEFINE e == Covers(t)
<1>4. e = CoverIter(t, e, Len(t))
  BY <1>2, <1>3
<1> HIDE DEF e
<1>5. e[0] = 0
  BY <1>1, <1>4 DEF CoverIter
<1>6. ASSUME NEW k \in 1 .. Len(t)
      PROVE e[k] = IF e[k - 1] >= k THEN e[k - 1]
                   ELSE IF t[k] = "esc" THEN EscapeEnd(t, k) ELSE 0
  <2>1. k \in 0 .. Len(t) /\ k # 0
    BY <1>1
  <2>2. CoverIter(t, e, Len(t))[k] = IF e[k - 1] >= k THEN e[k - 1]
                   ELSE IF t[k] = "esc" THEN EscapeEnd(t, k) ELSE 0
    BY <2>1, Zenon DEF CoverIter
  <2> QED BY <1>4, <2>2
<1> QED BY <1>5, <1>6 DEF e

LEMMA CoversTyped ==
  ASSUME NEW t \in Seq(Class)
  PROVE  \A k \in 0 .. Len(t) : Covers(t)[k] \in 0 .. Len(t) + 1
<1>1. Len(t) \in Nat
  OBVIOUS
<1> DEFINE Good == {k \in 0 .. Len(t) : Covers(t)[k] \in 0 .. Len(t) + 1}
<1>2. 0 \in Good
  BY <1>1, CoverSteps
<1>3. \A k \in 0 .. Len(t) - 1 : k \in Good => k + 1 \in Good
  <2> SUFFICES ASSUME NEW k \in 0 .. Len(t) - 1, Covers(t)[k] \in 0 .. Len(t) + 1
               PROVE  Covers(t)[k + 1] \in 0 .. Len(t) + 1
    BY <1>1
  <2>1. k + 1 \in 1 .. Len(t) /\ (k + 1) - 1 = k
    BY <1>1
  <2>2. EscapeEnd(t, k + 1) \in (k + 1) + 1 .. Len(t) + 1
    BY <2>1, EscapeEndTyped
  <2>3. EscapeEnd(t, k + 1) \in 0 .. Len(t) + 1
    BY <1>1, <2>2
  <2>4. \/ Covers(t)[k + 1] = Covers(t)[k]
        \/ Covers(t)[k + 1] = EscapeEnd(t, k + 1)
        \/ Covers(t)[k + 1] = 0
    BY <2>1, CoverSteps
  <2> QED BY <1>1, <2>3, <2>4
<1>4. 0 .. Len(t) \subseteq Good
  <2> HIDE DEF Good
  <2> QED BY <1>1, <1>2, <1>3, BoundedInduction
<1> QED BY <1>4

(* Up to the byte before the last, what was decided stays.                 *)
LEMMA CoversGrows ==
  ASSUME NEW t \in Seq(Class), NEW b \in Class
  PROVE  \A k \in 0 .. Len(t) :
           /\ Covers(t)[k] =< Len(t) => Covers(Append(t, b))[k] = Covers(t)[k]
           /\ Covers(t)[k] > Len(t) => Covers(Append(t, b))[k] > Len(t)
<1> DEFINE u == Append(t, b)
<1>1. /\ u \in Seq(Class) /\ Len(t) \in Nat /\ Len(u) = Len(t) + 1
      /\ \A j \in 1 .. Len(t) : u[j] = t[j]
  BY Grown
<1>2. \A k \in 1 .. Len(t) :
        /\ EscapeEnd(t, k) =< Len(t) => EscapeEnd(u, k) = EscapeEnd(t, k)
        /\ EscapeEnd(t, k) > Len(t) => EscapeEnd(u, k) > Len(t)
  BY EscapeEndGrows
<1> HIDE DEF u
<1>3. /\ \A k \in 0 .. Len(t) : Covers(t)[k] \in Nat
      /\ \A k \in 0 .. Len(u) : Covers(u)[k] \in Nat
  BY <1>1, CoversTyped
<1> DEFINE Good == {k \in 0 .. Len(t) :
                      /\ Covers(t)[k] =< Len(t) => Covers(u)[k] = Covers(t)[k]
                      /\ Covers(t)[k] > Len(t) => Covers(u)[k] > Len(t)}
<1>4. 0 \in Good
  <2>1. Covers(t)[0] = 0 /\ Covers(u)[0] = 0
    BY <1>1, CoverSteps
  <2> QED BY <1>1, <2>1
<1>5. \A k \in 0 .. Len(t) - 1 : k \in Good => k + 1 \in Good
  <2> SUFFICES ASSUME NEW k \in 0 .. Len(t) - 1, k \in Good
               PROVE  k + 1 \in Good
    OBVIOUS
  <2>1. k + 1 \in 1 .. Len(t) /\ (k + 1) - 1 = k /\ k + 1 \in 1 .. Len(u) /\ u[k + 1] = t[k + 1]
    BY <1>1
  <2> PICK next \in Nat : next = k + 1
    BY <1>1
  <2>2. /\ next \in 1 .. Len(t) /\ next \in 1 .. Len(u) /\ next - 1 = k /\ u[next] = t[next]
        /\ Covers(t)[k] \in Nat /\ Covers(u)[k] \in Nat /\ Covers(t)[next] \in Nat
        /\ Covers(u)[next] \in Nat
    BY <1>1, <1>3, <2>1
  <2>3. /\ Covers(t)[k] >= next => Covers(t)[next] = Covers(t)[k]
        /\ ~(Covers(t)[k] >= next) /\ t[next] = "esc" => Covers(t)[next] = EscapeEnd(t, next)
        /\ ~(Covers(t)[k] >= next) /\ t[next] # "esc" => Covers(t)[next] = 0
    BY <2>2, CoverSteps
  <2>4. /\ Covers(u)[k] >= next => Covers(u)[next] = Covers(u)[k]
        /\ ~(Covers(u)[k] >= next) /\ u[next] = "esc" => Covers(u)[next] = EscapeEnd(u, next)
        /\ ~(Covers(u)[k] >= next) /\ u[next] # "esc" => Covers(u)[next] = 0
    BY <1>1, <2>2, CoverSteps
  <2>5. /\ EscapeEnd(t, next) =< Len(t) => EscapeEnd(u, next) = EscapeEnd(t, next)
        /\ EscapeEnd(t, next) > Len(t) => EscapeEnd(u, next) > Len(t)
    BY <1>2, <2>2
  <2>6. /\ Covers(t)[k] =< Len(t) => Covers(u)[k] = Covers(t)[k]
        /\ Covers(t)[k] > Len(t) => Covers(u)[k] > Len(t)
    OBVIOUS
  <2>7. /\ Covers(t)[next] =< Len(t) => Covers(u)[next] = Covers(t)[next]
        /\ Covers(t)[next] > Len(t) => Covers(u)[next] > Len(t)
    <3>1. CASE Covers(t)[k] >= next
      <4>1. Covers(u)[k] >= next
        BY <1>1, <2>2, <2>6, <3>1
      <4> QED BY <2>3, <2>4, <2>6, <3>1, <4>1
    <3>2. CASE ~(Covers(t)[k] >= next)
      <4>1. Covers(u)[k] = Covers(t)[k]
        BY <1>1, <2>2, <2>6, <3>2
      <4>2. CASE t[next] = "esc"
        BY <2>2, <2>3, <2>4, <2>5, <3>2, <4>1, <4>2
      <4>3. CASE t[next] # "esc"
        BY <1>1, <2>2, <2>3, <2>4, <3>2, <4>1, <4>3
      <4> QED BY <4>2, <4>3
    <3> QED BY <3>1, <3>2
  <2> QED BY <2>1, <2>7
<1>6. 0 .. Len(t) \subseteq Good
  <2> HIDE DEF Good
  <2> QED BY <1>1, <1>4, <1>5, BoundedInduction
<1> QED BY <1>6 DEF u

(* A sequence that starts at i covers all up to its end.                   *)
LEMMA CoversOn ==
  ASSUME NEW t \in Seq(Class), NEW i \in 1 .. Len(t),
         t[i] = "esc", Covers(t)[i - 1] < i
  PROVE  \A k \in i .. Len(t) : k =< EscapeEnd(t, i) => Covers(t)[k] = EscapeEnd(t, i)
<1>1. Len(t) \in Nat /\ i \in Nat /\ EscapeEnd(t, i) \in Nat /\ i - 1 \in 0 .. Len(t)
  BY EscapeEndTyped
<1>2. Covers(t)[i - 1] \in Nat
  BY <1>1, CoversTyped
<1> DEFINE last == EscapeEnd(t, i)
           Good == {k \in 0 .. Len(t) : i =< k /\ k =< last => Covers(t)[k] = last}
<1>3. 0 \in Good
  BY <1>1
<1>4. \A k \in 0 .. Len(t) - 1 : k \in Good => k + 1 \in Good
  <2> SUFFICES ASSUME NEW k \in 0 .. Len(t) - 1, k \in Good, i =< k + 1, k + 1 =< last
               PROVE  Covers(t)[k + 1] = last
    BY <1>1
  <2>1. k + 1 \in 1 .. Len(t) /\ (k + 1) - 1 = k
    BY <1>1
  <2>2. CASE i = k + 1
    <3>1. ~(Covers(t)[i - 1] >= i)
      BY <1>1, <1>2
    <3> QED BY <2>2, <3>1, CoverSteps
  <2>3. CASE i # k + 1
    <3>1. Covers(t)[k] = last /\ last >= k + 1
      BY <1>1, <2>1, <2>3
    <3> QED BY <2>1, <3>1, CoverSteps
  <2> QED BY <2>2, <2>3
<1>5. 0 .. Len(t) \subseteq Good
  <2> HIDE DEF Good
  <2> QED BY <1>1, <1>3, <1>4, BoundedInduction
<1> QED BY <1>1, <1>5

(* What `ansi` says of a sequence that started at i and has not ended.     *)
Stage(t, i, a) ==
  \/ a = "Esc" /\ i = Len(t)
  \/ a = "Csi" /\ i < Len(t) /\ t[i + 1] = "[" /\ CsiEnds(t, i) = {}
  \/ a = "Osc" /\ i < Len(t) /\ t[i + 1] = "]" /\ OscEnds(t, i) = {}
  \/ a = "OscEsc" /\ i < Len(t) /\ t[i + 1] = "]" /\ OscEnds(t, i) = {Len(t) + 1}

Starts(t, i) == t[i] = "esc" /\ Covers(t)[i - 1] < i

AnsiSays(t, a) ==
  \/ a = "Normal" /\ Covers(t)[Len(t)] =< Len(t)
  \/ \E i \in 1 .. Len(t) : Starts(t, i) /\ Stage(t, i, a)

LEMMA EndsGrow ==
  ASSUME NEW t \in Seq(Class), NEW b \in Class, NEW i \in 1 .. Len(t)
  PROVE  /\ i = Len(t) => CsiEnds(Append(t, b), i) = {} /\ OscEnds(Append(t, b), i) = {}
         /\ i < Len(t) =>
              /\ CsiEnds(Append(t, b), i) =
                   CsiEnds(t, i) \cup (IF b \in Final THEN {Len(t) + 1} ELSE {})
              /\ OscEnds(Append(t, b), i) =
                   OscEnds(t, i) \cup (IF b = "bel" THEN {Len(t) + 1} ELSE {})
                                 \cup (IF b = "esc" THEN {Len(t) + 2} ELSE {})
<1> DEFINE u == Append(t, b)
           n == Len(t)
<1>1. /\ n \in Nat /\ Len(u) = n + 1 /\ u[n + 1] = b
      /\ \A j \in 1 .. n : u[j] = t[j]
  BY Grown
<1> HIDE DEF u, n
<1>2. i \in 1 .. n
  BY DEF n
<1>3. i = n => CsiEnds(u, i) = {} /\ OscEnds(u, i) = {}
  BY <1>1, <1>2 DEF CsiEnds, OscEnds
<1>4. ASSUME i < n
      PROVE  i + 2 .. n + 1 = (i + 2 .. n) \cup {n + 1}
  BY <1>1, <1>2, <1>4
<1>5. ASSUME i < n
      PROVE  CsiEnds(u, i) = CsiEnds(t, i) \cup (IF b \in Final THEN {n + 1} ELSE {})
  <2>1. \A j \in i + 2 .. n : u[j] = t[j]
    BY <1>1, <1>2
  <2>2. CsiEnds(u, i) = {j \in (i + 2 .. n) \cup {n + 1} : u[j] \in Final}
    BY <1>1, <1>4, <1>5 DEF CsiEnds
  <2>3. CsiEnds(t, i) = {j \in i + 2 .. n : t[j] \in Final}
    BY DEF CsiEnds, n
  <2> QED BY <1>1, <2>1, <2>2, <2>3
<1>6. ASSUME i < n
      PROVE  OscEnds(u, i) = OscEnds(t, i) \cup (IF b = "bel" THEN {n + 1} ELSE {})
                                           \cup (IF b = "esc" THEN {n + 2} ELSE {})
  <2>1. \A j \in i + 2 .. n : u[j] = t[j]
    BY <1>1, <1>2
  <2>2. OscEnds(u, i) = {j \in (i + 2 .. n) \cup {n + 1} : u[j] = "bel"}
                          \cup {j + 1 : j \in {k \in (i + 2 .. n) \cup {n + 1} : u[k] = "esc"}}
    BY <1>1, <1>4, <1>6 DEF OscEnds
  <2>3. OscEnds(t, i) = {j \in i + 2 .. n : t[j] = "bel"}
                          \cup {j + 1 : j \in {k \in i + 2 .. n : t[k] = "esc"}}
    BY DEF OscEnds, n
  <2>4. {j \in (i + 2 .. n) \cup {n + 1} : u[j] = "bel"}
          = {j \in i + 2 .. n : t[j] = "bel"} \cup (IF b = "bel" THEN {n + 1} ELSE {})
    BY <1>1, <2>1
  <2>5. {k \in (i + 2 .. n) \cup {n + 1} : u[k] = "esc"}
          = {k \in i + 2 .. n : t[k] = "esc"} \cup (IF b = "esc" THEN {n + 1} ELSE {})
    BY <1>1, <2>1
  <2>6. ASSUME NEW S
        PROVE  {j + 1 : j \in S \cup (IF b = "esc" THEN {n + 1} ELSE {})}
                 = {j + 1 : j \in S} \cup (IF b = "esc" THEN {n + 2} ELSE {})
    <3>1. (n + 1) + 1 = n + 2
      BY <1>1
    <3> QED BY <3>1
  <2> DEFINE bel == {j \in i + 2 .. n : t[j] = "bel"}
             esc == {k \in i + 2 .. n : t[k] = "esc"}
             next == {j + 1 : j \in esc}
  <2>7. OscEnds(t, i) = bel \cup next
    BY <2>3
  <2>8. {j + 1 : j \in esc \cup (IF b = "esc" THEN {n + 1} ELSE {})}
          = next \cup (IF b = "esc" THEN {n + 2} ELSE {})
    BY <2>6
  <2>9. OscEnds(u, i) = (bel \cup (IF b = "bel" THEN {n + 1} ELSE {}))
                          \cup {j + 1 : j \in esc \cup (IF b = "esc" THEN {n + 1} ELSE {})}
    BY <2>2, <2>4, <2>5, Zenon
  <2> HIDE DEF bel, esc, next
  <2> QED BY <2>7, <2>8, <2>9
<1> QED BY <1>3, <1>5, <1>6 DEF u, n

LEMMA StageEnds ==
  ASSUME NEW t \in Seq(Class), NEW i \in 1 .. Len(t), NEW a, Stage(t, i, a)
  PROVE  a # "Normal" /\ EscapeEnd(t, i) = Len(t) + 1
<1>1. Len(t) \in Nat
  OBVIOUS
<1>2. CASE a = "Esc" /\ i = Len(t)
  BY <1>2, EscapeEndCases
<1>3. CASE a = "Csi" /\ i < Len(t) /\ t[i + 1] = "[" /\ CsiEnds(t, i) = {}
  BY <1>3, EscapeEndCases, EndsTyped, FirstOfFacts
<1>4. CASE a = "Osc" /\ i < Len(t) /\ t[i + 1] = "]" /\ OscEnds(t, i) = {}
  BY <1>4, EscapeEndCases, EndsTyped, FirstOfFacts
<1>5. CASE a = "OscEsc" /\ i < Len(t) /\ t[i + 1] = "]" /\ OscEnds(t, i) = {Len(t) + 1}
  BY <1>5, EscapeEndCases, EndsTyped, FirstOfFacts
<1> QED BY <1>2, <1>3, <1>4, <1>5 DEF Stage

(* A sequence that has not ended covers the last byte.                     *)
LEMMA StageCovers ==
  ASSUME NEW t \in Seq(Class), NEW i \in 1 .. Len(t), NEW a, Starts(t, i), Stage(t, i, a)
  PROVE  Covers(t)[Len(t)] = Len(t) + 1
<1>1. Len(t) \in i .. Len(t) /\ Len(t) =< Len(t) + 1
  OBVIOUS
<1>2. EscapeEnd(t, i) = Len(t) + 1
  BY StageEnds
<1> QED BY <1>1, <1>2, CoversOn DEF Starts

LEMMA AnsiSaysNormal ==
  ASSUME NEW t \in Seq(Class), NEW a, AnsiSays(t, a)
  PROVE  a = "Normal" <=> Covers(t)[Len(t)] =< Len(t)
<1>1. Len(t) \in Nat
  OBVIOUS
<1> QED BY <1>1, StageCovers, StageEnds DEF AnsiSays

LEMMA StartsGrows ==
  ASSUME NEW t \in Seq(Class), NEW b \in Class, NEW i \in 1 .. Len(t), Starts(t, i)
  PROVE  Starts(Append(t, b), i)
<1>1. Append(t, b)[i] = t[i] /\ Len(t) \in Nat /\ i - 1 \in 0 .. Len(t)
  BY Grown
<1>2. Covers(t)[i - 1] \in Nat
  BY <1>1, CoversTyped
<1>3. Covers(t)[i - 1] =< Len(t)
  BY <1>1, <1>2 DEF Starts
<1>4. Covers(Append(t, b))[i - 1] = Covers(t)[i - 1]
  BY <1>1, <1>3, CoversGrows
<1> QED BY <1>1, <1>4 DEF Starts

(* The next byte takes it to its next stage, or ends it.                   *)
LEMMA StageStep ==
  ASSUME NEW t \in Seq(Class), NEW b \in Class, NEW i \in 1 .. Len(t), Stage(t, i, ansi)
  PROVE  \/ Stage(Append(t, b), i, NextAnsi(b))
         \/ NextAnsi(b) = "Normal" /\ EscapeEnd(Append(t, b), i) = Len(t) + 1
<1> PICK u \in Seq(Class) : u = Append(t, b)
  BY Grown
<1> PICK n \in Nat : n = Len(t)
  OBVIOUS
<1>1. /\ Len(u) = n + 1 /\ u[n + 1] = b
      /\ \A j \in 1 .. n : u[j] = t[j]
  BY Grown
<1>2. i \in 1 .. n /\ i \in 1 .. Len(u) /\ i < Len(u)
  BY <1>1
<1>3. /\ CsiEnds(u, i) \in SUBSET (1 .. Len(u) + 1)
      /\ OscEnds(u, i) \in SUBSET (1 .. Len(u) + 1)
  BY <1>2, EndsTyped
<1>4. /\ i = n => CsiEnds(u, i) = {} /\ OscEnds(u, i) = {}
      /\ i < n =>
           /\ CsiEnds(u, i) = CsiEnds(t, i) \cup (IF b \in Final THEN {n + 1} ELSE {})
           /\ OscEnds(u, i) = OscEnds(t, i) \cup (IF b = "bel" THEN {n + 1} ELSE {})
                                            \cup (IF b = "esc" THEN {n + 2} ELSE {})
  BY EndsGrow
<1>5. /\ u[i + 1] = "[" => EscapeEnd(u, i) = FirstOf(u, CsiEnds(u, i))
      /\ u[i + 1] = "]" => EscapeEnd(u, i) = FirstOf(u, OscEnds(u, i))
      /\ u[i + 1] \notin {"[", "]"} => EscapeEnd(u, i) = i + 1
  BY <1>2, EscapeEndCases
<1>6. i < n => u[i + 1] = t[i + 1]
  BY <1>1, <1>2
<1>7. \A ends \in SUBSET (1 .. Len(u) + 1) :
        n + 1 \in ends /\ (\A e \in ends : n + 1 =< e) => FirstOf(u, ends) = n + 1
  <2> SUFFICES ASSUME NEW ends \in SUBSET (1 .. Len(u) + 1), n + 1 \in ends,
                      \A e \in ends : n + 1 =< e
               PROVE  FirstOf(u, ends) = n + 1
    OBVIOUS
  <2>1. /\ FirstOf(u, ends) \in 1 .. Len(u) + 1
        /\ FirstOf(u, ends) \in ends /\ \A k \in ends : FirstOf(u, ends) =< k
    BY FirstOfFacts
  <2> QED BY <1>1, <2>1
<1>8. CASE ansi = "Esc" /\ i = n
  <2>1. u[i + 1] = b
    BY <1>1, <1>8
  <2>2. CASE b = "["
    <3>1. NextAnsi(b) = "Csi"
      BY <1>8, <2>2 DEF NextAnsi
    <3> QED BY <1>2, <1>4, <1>8, <2>1, <2>2, <3>1 DEF Stage
  <2>3. CASE b = "]"
    <3>1. NextAnsi(b) = "Osc"
      BY <1>8, <2>3 DEF NextAnsi
    <3> QED BY <1>2, <1>4, <1>8, <2>1, <2>3, <3>1 DEF Stage
  <2>4. CASE b \notin {"[", "]"}
    <3>1. NextAnsi(b) = "Normal"
      BY <1>8, <2>4 DEF NextAnsi
    <3> QED BY <1>5, <1>8, <2>1, <2>4, <3>1
  <2> QED BY <2>2, <2>3, <2>4
<1>9. CASE ansi = "Csi" /\ i < n /\ t[i + 1] = "[" /\ CsiEnds(t, i) = {}
  <2>1. CASE b \notin Final
    <3>1. NextAnsi(b) = "Csi"
      BY <1>9, <2>1 DEF NextAnsi
    <3> QED BY <1>2, <1>4, <1>6, <1>9, <2>1, <3>1 DEF Stage
  <2>2. CASE b \in Final
    <3>1. NextAnsi(b) = "Normal"
      BY <1>9, <2>2 DEF NextAnsi
    <3>2. CsiEnds(u, i) = {n + 1}
      BY <1>4, <1>9, <2>2
    <3>3. FirstOf(u, CsiEnds(u, i)) = n + 1
      BY <1>3, <1>7, <3>2
    <3> QED BY <1>5, <1>6, <1>9, <3>1, <3>3
  <2> QED BY <2>1, <2>2
<1>10. CASE ansi = "Osc" /\ i < n /\ t[i + 1] = "]" /\ OscEnds(t, i) = {}
  <2>1. CASE b \notin {"bel", "esc"}
    <3>1. NextAnsi(b) = "Osc"
      BY <1>10, <2>1 DEF NextAnsi
    <3> QED BY <1>2, <1>4, <1>6, <1>10, <2>1, <3>1 DEF Stage
  <2>2. CASE b = "esc"
    <3>1. NextAnsi(b) = "OscEsc"
      BY <1>10, <2>2 DEF NextAnsi
    <3>2. OscEnds(u, i) = {Len(u) + 1}
      BY <1>1, <1>4, <1>10, <2>2
    <3> QED BY <1>2, <1>6, <1>10, <3>1, <3>2 DEF Stage
  <2>3. CASE b = "bel"
    <3>1. NextAnsi(b) = "Normal"
      BY <1>10, <2>3 DEF NextAnsi
    <3>2. OscEnds(u, i) = {n + 1}
      BY <1>4, <1>10, <2>3
    <3>3. FirstOf(u, OscEnds(u, i)) = n + 1
      BY <1>3, <1>7, <3>2
    <3> QED BY <1>5, <1>6, <1>10, <3>1, <3>3
  <2> QED BY <2>1, <2>2, <2>3
<1>11. CASE ansi = "OscEsc" /\ i < n /\ t[i + 1] = "]" /\ OscEnds(t, i) = {n + 1}
  <2>1. NextAnsi(b) = "Normal"
    BY <1>11 DEF NextAnsi
  <2>2. n + 1 \in OscEnds(u, i) /\ \A e \in OscEnds(u, i) : n + 1 =< e
    BY <1>4, <1>11
  <2>3. FirstOf(u, OscEnds(u, i)) = n + 1
    BY <1>3, <1>7, <2>2
  <2> QED BY <1>5, <1>6, <1>11, <2>1, <2>3
<1> QED BY <1>8, <1>9, <1>10, <1>11 DEF Stage

LEMMA AnsiStep ==
  ASSUME NEW t \in Seq(Class), NEW b \in Class, AnsiSays(t, ansi)
  PROVE  /\ ansi # "Normal" => AnsiSays(Append(t, b), NextAnsi(b))
         /\ ansi = "Normal" => AnsiSays(Append(t, b), IF b = "esc" THEN "Esc" ELSE "Normal")
<1> PICK u \in Seq(Class) : u = Append(t, b)
  BY Grown
<1> PICK n \in Nat : n = Len(t)
  OBVIOUS
<1>1. Len(u) = n + 1 /\ u[n + 1] = b
  BY Grown
<1>2. ASSUME ansi # "Normal" PROVE AnsiSays(u, NextAnsi(b))
  <2>1. PICK i \in 1 .. n : Starts(t, i) /\ Stage(t, i, ansi)
    BY <1>2 DEF AnsiSays
  <2>2. Starts(u, i) /\ i \in 1 .. Len(u)
    BY <1>1, <2>1, StartsGrows
  <2>3. CASE Stage(u, i, NextAnsi(b))
    BY <2>2, <2>3 DEF AnsiSays
  <2>4. CASE NextAnsi(b) = "Normal" /\ EscapeEnd(u, i) = n + 1
    <3>1. n + 1 \in i .. Len(u) /\ n + 1 =< EscapeEnd(u, i)
      BY <1>1, <2>4
    <3>2. Covers(u)[n + 1] = n + 1
      BY <2>2, <2>4, <3>1, CoversOn DEF Starts
    <3> QED BY <1>1, <2>4, <3>2 DEF AnsiSays
  <2> QED BY <2>1, <2>3, <2>4, StageStep
<1>3. ASSUME ansi = "Normal"
      PROVE  AnsiSays(u, IF b = "esc" THEN "Esc" ELSE "Normal")
  <2>1. Covers(t)[n] =< n /\ n \in 0 .. n
    BY <1>3, AnsiSaysNormal
  <2>2. Covers(u)[n] = Covers(t)[n] /\ Covers(t)[n] \in Nat
    BY <2>1, CoversGrows, CoversTyped
  <2>3. n + 1 \in 1 .. Len(u) /\ (n + 1) - 1 = n
    BY <1>1
  <2>4. CASE b = "esc"
    <3>1. Starts(u, n + 1) /\ Stage(u, n + 1, "Esc")
      BY <1>1, <2>1, <2>2, <2>3, <2>4 DEF Starts, Stage
    <3> QED BY <2>3, <2>4, <3>1 DEF AnsiSays
  <2>5. CASE b # "esc"
    <3>1. Covers(u)[n + 1] = 0
      <4>1. ~(Covers(u)[n] >= n + 1) /\ u[n + 1] # "esc"
        BY <1>1, <2>1, <2>2, <2>5
      <4> QED BY <2>3, <4>1, CoverSteps
    <3> QED BY <1>1, <2>5, <3>1 DEF AnsiSays
  <2> QED BY <2>4, <2>5
<1> QED BY <1>2, <1>3

(* The bytes outside escape sequences.                                     *)
LEMMA AtTyped ==
  ASSUME NEW t \in Seq(Class), NEW class
  PROVE  At(t, class) \in SUBSET (1 .. Len(t))
BY DEF At

LEMMA AtGrows ==
  ASSUME NEW t \in Seq(Class), NEW b \in Class, NEW class, "esc" \notin class
  PROVE  At(Append(t, b), class) =
           At(t, class) \cup (IF Covers(t)[Len(t)] =< Len(t) /\ b \in class
                              THEN {Len(t) + 1} ELSE {})
<1> PICK u \in Seq(Class) : u = Append(t, b)
  BY Grown
<1> PICK n \in Nat : n = Len(t)
  OBVIOUS
<1>1. Len(u) = n + 1 /\ u[n + 1] = b /\ \A j \in 1 .. n : u[j] = t[j]
  BY Grown
<1>2. 1 .. Len(u) = (1 .. n) \cup {n + 1}
  BY <1>1
<1>3. ASSUME NEW k \in 1 .. n PROVE Covers(u)[k] = 0 <=> Covers(t)[k] = 0
  <2>1. k \in 0 .. n /\ k \in 0 .. Len(u)
    BY <1>1
  <2>2. Covers(t)[k] \in 0 .. n + 1 /\ Covers(u)[k] \in 0 .. Len(u) + 1
    BY <2>1, CoversTyped
  <2>3. /\ Covers(t)[k] =< n => Covers(u)[k] = Covers(t)[k]
        /\ Covers(t)[k] > n => Covers(u)[k] > n
    BY <2>1, CoversGrows
  <2> QED BY <2>2, <2>3
<1>4. Covers(u)[n + 1] = 0 <=> Covers(t)[n] =< n /\ b # "esc"
  <2>1. /\ n \in 0 .. n /\ n \in 0 .. Len(u) /\ n + 1 \in 1 .. Len(u)
        /\ (n + 1) - 1 = n
    BY <1>1
  <2>2. Covers(t)[n] \in 0 .. n + 1 /\ Covers(u)[n] \in 0 .. Len(u) + 1
    BY <2>1, CoversTyped
  <2>3. /\ Covers(t)[n] =< n => Covers(u)[n] = Covers(t)[n]
        /\ Covers(t)[n] > n => Covers(u)[n] > n
    BY <2>1, CoversGrows
  <2>4. /\ Covers(u)[n] >= n + 1 => Covers(u)[n + 1] = Covers(u)[n]
        /\ ~(Covers(u)[n] >= n + 1) /\ b = "esc" => Covers(u)[n + 1] = EscapeEnd(u, n + 1)
        /\ ~(Covers(u)[n] >= n + 1) /\ b # "esc" => Covers(u)[n + 1] = 0
    BY <1>1, <2>1, CoverSteps
  <2>5. EscapeEnd(u, n + 1) = n + 2
    <3>1. EscapeEnd(u, n + 1) = Len(u) + 1
      BY <1>1, <2>1, EscapeEndCases
    <3> QED BY <1>1, <3>1
  <2> QED BY <2>2, <2>3, <2>4, <2>5
<1>5. At(u, class) = {k \in (1 .. n) \cup {n + 1} : Covers(u)[k] = 0 /\ u[k] \in class}
  BY <1>2 DEF At
<1>6. At(t, class) = {k \in 1 .. n : Covers(t)[k] = 0 /\ t[k] \in class}
  BY DEF At
<1>7. {k \in 1 .. n : Covers(u)[k] = 0 /\ u[k] \in class} = At(t, class)
  BY <1>1, <1>3, <1>6
<1>8. At(u, class) = {k \in 1 .. n : Covers(u)[k] = 0 /\ u[k] \in class}
                       \cup (IF Covers(u)[n + 1] = 0 /\ b \in class THEN {n + 1} ELSE {})
  BY <1>1, <1>5
<1>9. Covers(u)[n + 1] = 0 /\ b \in class <=> Covers(t)[n] =< n /\ b \in class
  BY <1>4
<1> QED BY <1>7, <1>8, <1>9

-----------------------------------------------------------------------------
(***************************************************************************)
(* The bytes of one line that are shown: its text, its backspaces and its  *)
(* carriage returns are sets of positions up to n.                         *)
(***************************************************************************)
LEMMA BetweenFinite ==
  ASSUME NEW n \in Nat, NEW S \in SUBSET (1 .. n), NEW k \in Int, NEW j \in Int
  PROVE  IsFiniteSet({i \in S : k < i /\ i =< j}) /\ Between(S, k, j) \in Nat
<1>1. IsFiniteSet(1 .. n)
  BY FS_Interval
<1>2. {i \in S : k < i /\ i =< j} \in SUBSET (1 .. n)
  OBVIOUS
<1> QED BY <1>1, <1>2, FS_Subset, FS_CardinalityType DEF Between

LEMMA BetweenGrows ==
  ASSUME NEW n \in Nat, NEW S \in SUBSET (1 .. n), NEW k \in 1 .. n
  PROVE  /\ \A j \in 0 .. n : Between(S \cup {n + 1}, k, j) = Between(S, k, j)
         /\ Between(S \cup {n + 1}, k, n + 1) = Between(S, k, n) + 1
         /\ Between(S, k, n + 1) = Between(S, k, n)
<1>1. ASSUME NEW j \in 0 .. n
      PROVE  {i \in S \cup {n + 1} : k < i /\ i =< j} = {i \in S : k < i /\ i =< j}
  OBVIOUS
<1>0. /\ \A i \in S : i =< n /\ i =< n + 1
      /\ k < n + 1 /\ n + 1 =< n + 1
      /\ k \in Int /\ n \in Int
  OBVIOUS
<1>2. {i \in S \cup {n + 1} : k < i /\ i =< n + 1} = {i \in S : k < i /\ i =< n} \cup {n + 1}
  BY <1>0
<1>3. {i \in S : k < i /\ i =< n + 1} = {i \in S : k < i /\ i =< n}
  BY <1>0
<1>4. Between(S \cup {n + 1}, k, n + 1) = Between(S, k, n) + 1
  <2>1. n + 1 \notin {i \in S : k < i /\ i =< n}
    OBVIOUS
  <2>2. IsFiniteSet({i \in S : k < i /\ i =< n})
    BY <1>0, BetweenFinite
  <2> QED BY <1>2, <2>1, <2>2, FS_AddElement DEF Between
<1> QED BY <1>1, <1>3, <1>4 DEF Between

LEMMA BetweenNone ==
  ASSUME NEW n \in Nat, NEW S \in SUBSET (1 .. n), NEW k \in Int
  PROVE  Between(S, k, k) = 0
<1>1. \A i \in S : i \in Int /\ ~(k < i /\ i =< k)
  OBVIOUS
<1>2. {i \in S : k < i /\ i =< k} = {}
  BY <1>1
<1> QED BY <1>2, FS_EmptySet DEF Between

(* A carriage return has not been acted on: nothing of the line follows.   *)
Pending(text, backspaces, returns) ==
  \E c \in returns : \A m \in text \cup backspaces : m < c

(* Something follows every carriage return. *)
Followed(text, backspaces, returns) ==
  \A c \in returns : \E m \in text \cup backspaces : m > c

LEMMA NotPending ==
  ASSUME NEW n \in Nat, NEW text \in SUBSET (1 .. n), NEW back \in SUBSET (1 .. n),
         NEW returns \in SUBSET (1 .. n), (text \cup back) \cap returns = {},
         ~Pending(text, back, returns)
  PROVE  Followed(text, back, returns)
<1> SUFFICES ASSUME NEW c \in returns PROVE \E m \in text \cup back : m > c
  BY DEF Followed
<1>1. PICK m \in text \cup back : ~(m < c)
  BY DEF Pending
<1>2. m # c /\ m \in 1 .. n /\ c \in 1 .. n
  OBVIOUS
<1> QED BY <1>1, <1>2

(* The two conditions of Kept. *)
Ahead(k, text, back, returns) ==
  \A c \in returns : (\E m \in text \cup back : m > c) => c < k
Stands(k, text, back, n) ==
  \A j \in k .. n : Between(back, k, j) =< Between(text, k, j)

LEMMA KeptIs ==
  ASSUME NEW text, NEW back, NEW returns, NEW n
  PROVE  Kept(text, back, returns, n)
           = {k \in text : Ahead(k, text, back, returns) /\ Stands(k, text, back, n)}
BY DEF Kept, Ahead, Stands

LEMMA StandsGrows ==
  ASSUME NEW n \in Nat, NEW text \in SUBSET (1 .. n), NEW back \in SUBSET (1 .. n),
         NEW k \in 1 .. n
  PROVE  /\ Stands(k, text, back, n + 1) <=> Stands(k, text, back, n)
         /\ Stands(k, text \cup {n + 1}, back, n + 1) <=> Stands(k, text, back, n)
         /\ Stands(k, text, back \cup {n + 1}, n + 1)
              <=> Stands(k, text, back, n) /\ Between(back, k, n) < Between(text, k, n)
<1>1. k .. n + 1 = (k .. n) \cup {n + 1} /\ n \in k .. n
  OBVIOUS
<1>2. /\ \A j \in 0 .. n : Between(text \cup {n + 1}, k, j) = Between(text, k, j)
      /\ Between(text \cup {n + 1}, k, n + 1) = Between(text, k, n) + 1
      /\ Between(text, k, n + 1) = Between(text, k, n)
  BY BetweenGrows
<1>3. /\ \A j \in 0 .. n : Between(back \cup {n + 1}, k, j) = Between(back, k, j)
      /\ Between(back \cup {n + 1}, k, n + 1) = Between(back, k, n) + 1
      /\ Between(back, k, n + 1) = Between(back, k, n)
  BY BetweenGrows
<1>4. Between(text, k, n) \in Nat /\ Between(back, k, n) \in Nat
  <2>1. k \in Int /\ n \in Int
    OBVIOUS
  <2> QED BY <2>1, BetweenFinite
<1>5. k .. n \subseteq 0 .. n
  OBVIOUS
<1>6. Stands(k, text, back, n) => Between(back, k, n) =< Between(text, k, n)
  BY <1>1 DEF Stands
<1>7. Stands(k, text, back, n + 1) <=> Stands(k, text, back, n)
  BY <1>1, <1>2, <1>3, <1>6 DEF Stands
<1>8. Stands(k, text \cup {n + 1}, back, n + 1) <=> Stands(k, text, back, n)
  <2>1. Stands(k, text \cup {n + 1}, back, n + 1)
          <=> /\ Stands(k, text, back, n)
              /\ Between(back, k, n + 1) =< Between(text \cup {n + 1}, k, n + 1)
    BY <1>1, <1>2, <1>5 DEF Stands
  <2> QED BY <1>2, <1>3, <1>4, <1>6, <2>1
<1>9. Stands(k, text, back \cup {n + 1}, n + 1)
        <=> Stands(k, text, back, n) /\ Between(back, k, n) < Between(text, k, n)
  <2>1. Stands(k, text, back \cup {n + 1}, n + 1)
          <=> /\ Stands(k, text, back, n)
              /\ Between(back \cup {n + 1}, k, n + 1) =< Between(text, k, n + 1)
    BY <1>1, <1>3, <1>5 DEF Stands
  <2> QED BY <1>2, <1>3, <1>4, <2>1
<1> QED BY <1>7, <1>8, <1>9

(* What follows when something comes after a carriage return. *)
LEMMA AheadGrows ==
  ASSUME NEW n \in Nat, NEW text \in SUBSET (1 .. n), NEW back \in SUBSET (1 .. n),
         NEW returns \in SUBSET (1 .. n), (text \cup back) \cap returns = {},
         NEW text2, NEW back2, text2 \cup back2 = text \cup back \cup {n + 1}
  PROVE  /\ Pending(text, back, returns) => \A k \in text : ~Ahead(k, text2, back2, returns)
         /\ ~Pending(text, back, returns) =>
              \A k \in text : Ahead(k, text2, back2, returns) <=> Ahead(k, text, back, returns)
         /\ Ahead(n + 1, text2, back2, returns)
         /\ ~Pending(text2, back2, returns)
<1>1. n + 1 \in text2 \cup back2 /\ \A c \in returns : n + 1 > c
  OBVIOUS
<1>2. ASSUME Pending(text, back, returns), NEW k \in text
      PROVE  ~Ahead(k, text2, back2, returns)
  <2>1. PICK c \in returns : \A m \in text \cup back : m < c
    BY <1>2 DEF Pending
  <2>2. k < c /\ ~(c < k)
    BY <1>2, <2>1
  <2> QED BY <1>1, <2>2 DEF Ahead
<1>3. ASSUME ~Pending(text, back, returns), NEW k \in text
      PROVE  Ahead(k, text2, back2, returns) <=> Ahead(k, text, back, returns)
  <2>1. Followed(text, back, returns)
    BY <1>3, NotPending
  <2> QED BY <1>1, <2>1 DEF Ahead, Followed
<1>4. Ahead(n + 1, text2, back2, returns)
  BY <1>1 DEF Ahead
<1>5. ~Pending(text2, back2, returns)
  <2> SUFFICES ASSUME NEW c \in returns, \A m \in text2 \cup back2 : m < c PROVE FALSE
    BY DEF Pending
  <2>1. n + 1 < c /\ c =< n
    BY <1>1
  <2> QED BY <2>1
<1> QED BY <1>2, <1>3, <1>4, <1>5

LEMMA KeptStays ==
  ASSUME NEW n \in Nat, NEW text \in SUBSET (1 .. n), NEW back \in SUBSET (1 .. n),
         NEW returns \in SUBSET (1 .. n)
  PROVE  /\ Kept(text, back, returns, n + 1) = Kept(text, back, returns, n)
         /\ Kept(text, back, returns \cup {n + 1}, n + 1) = Kept(text, back, returns, n)
         /\ Pending(text, back, returns \cup {n + 1})
<1>1. \A k \in text : Stands(k, text, back, n + 1) <=> Stands(k, text, back, n)
  BY StandsGrows
<1>2. \A k \in text : Ahead(k, text, back, returns \cup {n + 1}) <=> Ahead(k, text, back, returns)
  <2>1. ~ \E m \in text \cup back : m > n + 1
    OBVIOUS
  <2> QED BY <2>1 DEF Ahead
<1>3. Pending(text, back, returns \cup {n + 1})
  BY DEF Pending
<1> QED BY <1>1, <1>2, <1>3, KeptIs

LEMMA KeptText ==
  ASSUME NEW n \in Nat, NEW text \in SUBSET (1 .. n), NEW back \in SUBSET (1 .. n),
         NEW returns \in SUBSET (1 .. n), (text \cup back) \cap returns = {}
  PROVE  /\ Kept(text \cup {n + 1}, back, returns, n + 1)
              = (IF Pending(text, back, returns) THEN {} ELSE Kept(text, back, returns, n))
                  \cup {n + 1}
         /\ ~Pending(text \cup {n + 1}, back, returns)
<1> DEFINE text2 == text \cup {n + 1}
<1>1. text2 \cup back = text \cup back \cup {n + 1}
  OBVIOUS
<1>2. \A k \in text : Stands(k, text2, back, n + 1) <=> Stands(k, text, back, n)
  BY StandsGrows
<1>3. Stands(n + 1, text2, back, n + 1)
  <2>1. (n + 1) .. (n + 1) = {n + 1}
    OBVIOUS
  <2>2. Between(text2, n + 1, n + 1) = 0 /\ Between(back, n + 1, n + 1) = 0
    <3>1. /\ n + 1 \in Nat /\ n + 1 \in Int
          /\ text2 \in SUBSET (1 .. n + 1) /\ back \in SUBSET (1 .. n + 1)
      OBVIOUS
    <3> HIDE DEF text2
    <3> QED BY <3>1, BetweenNone
  <2> QED BY <2>1, <2>2 DEF Stands
<1>4. Kept(text2, back, returns, n + 1)
        = {k \in text2 : Ahead(k, text2, back, returns) /\ Stands(k, text2, back, n + 1)}
  BY KeptIs
<1>5. Kept(text, back, returns, n)
        = {k \in text : Ahead(k, text, back, returns) /\ Stands(k, text, back, n)}
  BY KeptIs
<1>6. /\ Pending(text, back, returns) => \A k \in text : ~Ahead(k, text2, back, returns)
      /\ ~Pending(text, back, returns) =>
           \A k \in text : Ahead(k, text2, back, returns) <=> Ahead(k, text, back, returns)
      /\ Ahead(n + 1, text2, back, returns)
      /\ ~Pending(text2, back, returns)
  <2> HIDE DEF text2
  <2> QED BY <1>1, AheadGrows
<1>7. Kept(text2, back, returns, n + 1)
        = {k \in text : Ahead(k, text2, back, returns) /\ Stands(k, text2, back, n + 1)}
            \cup {n + 1}
  BY <1>3, <1>4, <1>6
<1>8. CASE Pending(text, back, returns)
  BY <1>6, <1>7, <1>8
<1>9. CASE ~Pending(text, back, returns)
  <2>1. {k \in text : Ahead(k, text2, back, returns) /\ Stands(k, text2, back, n + 1)}
          = {k \in text : Ahead(k, text, back, returns) /\ Stands(k, text, back, n)}
    <3> HIDE DEF text2
    <3> QED BY <1>2, <1>6, <1>9
  <2> QED BY <1>5, <1>6, <1>7, <1>9, <2>1
<1> QED BY <1>8, <1>9

LEMMA KeptBackspace ==
  ASSUME NEW n \in Nat, NEW text \in SUBSET (1 .. n), NEW back \in SUBSET (1 .. n),
         NEW returns \in SUBSET (1 .. n), (text \cup back) \cap returns = {}
  PROVE  /\ Kept(text, back \cup {n + 1}, returns, n + 1)
              = IF Pending(text, back, returns) THEN {}
                ELSE {k \in Kept(text, back, returns, n) :
                        Between(back, k, n) < Between(text, k, n)}
         /\ ~Pending(text, back \cup {n + 1}, returns)
<1> DEFINE back2 == back \cup {n + 1}
<1>1. text \cup back2 = text \cup back \cup {n + 1}
  OBVIOUS
<1>2. \A k \in text : Stands(k, text, back2, n + 1)
        <=> Stands(k, text, back, n) /\ Between(back, k, n) < Between(text, k, n)
  BY StandsGrows
<1>3. Kept(text, back2, returns, n + 1)
        = {k \in text : Ahead(k, text, back2, returns) /\ Stands(k, text, back2, n + 1)}
  BY KeptIs
<1>4. Kept(text, back, returns, n)
        = {k \in text : Ahead(k, text, back, returns) /\ Stands(k, text, back, n)}
  BY KeptIs
<1>5. /\ Pending(text, back, returns) => \A k \in text : ~Ahead(k, text, back2, returns)
      /\ ~Pending(text, back, returns) =>
           \A k \in text : Ahead(k, text, back2, returns) <=> Ahead(k, text, back, returns)
      /\ ~Pending(text, back2, returns)
  <2> HIDE DEF back2
  <2> QED BY <1>1, AheadGrows
<1> HIDE DEF back2
<1>6. Kept(text, back2, returns, n + 1)
        = IF Pending(text, back, returns) THEN {}
          ELSE {k \in Kept(text, back, returns, n) :
                  Between(back, k, n) < Between(text, k, n)}
  BY <1>2, <1>3, <1>4, <1>5
<1> QED BY <1>5, <1>6 DEF back2

-----------------------------------------------------------------------------
(* What the line under construction is, and the bytes behind each of its   *)
(* positions that no backspace takes back: as many as follow it.           *)
Rises(s) == \A i, j \in 1 .. Len(s) : i < j => s[i] < s[j]

LineSays(text, back, returns, n, s) ==
  /\ s \in Seq(Nat)
  /\ Rises(s)
  /\ Range(s) = Kept(text, back, returns, n)
  /\ \A i \in 1 .. Len(s) : Between(text, s[i], n) - Between(back, s[i], n) = Len(s) - i

LEMMA LineTyped ==
  ASSUME NEW n \in Nat, NEW text \in SUBSET (1 .. n), NEW back, NEW returns, NEW s,
         LineSays(text, back, returns, n, s)
  PROVE  /\ Len(s) \in Nat
         /\ \A i \in 1 .. Len(s) : s[i] \in 1 .. n /\ s[i] \in Kept(text, back, returns, n)
         /\ Kept(text, back, returns, n) = {s[i] : i \in 1 .. Len(s)}
<1>1. s \in Seq(Nat) /\ DOMAIN s = 1 .. Len(s) /\ Len(s) \in Nat
  BY DEF LineSays
<1>2. Range(s) = {s[i] : i \in 1 .. Len(s)}
  BY <1>1 DEF Range
<1>3. Kept(text, back, returns, n) \subseteq text
  BY DEF Kept
<1> QED BY <1>1, <1>2, <1>3 DEF LineSays

LEMMA LineStays ==
  ASSUME NEW n \in Nat, NEW text \in SUBSET (1 .. n), NEW back \in SUBSET (1 .. n),
         NEW returns \in SUBSET (1 .. n), NEW s, LineSays(text, back, returns, n, s)
  PROVE  /\ LineSays(text, back, returns, n + 1, s)
         /\ LineSays(text, back, returns \cup {n + 1}, n + 1, s)
<1>1. \A i \in 1 .. Len(s) : s[i] \in 1 .. n
  BY LineTyped
<1>2. \A k \in 1 .. n : /\ Between(text, k, n + 1) = Between(text, k, n)
                        /\ Between(back, k, n + 1) = Between(back, k, n)
  BY BetweenGrows
<1>3. /\ Kept(text, back, returns, n + 1) = Kept(text, back, returns, n)
      /\ Kept(text, back, returns \cup {n + 1}, n + 1) = Kept(text, back, returns, n)
  BY KeptStays
<1> QED BY <1>1, <1>2, <1>3 DEF LineSays

LEMMA LineNone ==
  ASSUME NEW text, NEW back, NEW returns, NEW n, Kept(text, back, returns, n) = {}
  PROVE  LineSays(text, back, returns, n, <<>>)
<1>1. /\ <<>> \in Seq(Nat) /\ Len(<<>>) = 0 /\ DOMAIN <<>> = {} /\ 1 .. 0 = {}
  OBVIOUS
<1>2. Range(<<>>) = {}
  BY <1>1 DEF Range
<1> QED BY <1>1, <1>2 DEF LineSays, Rises

LEMMA LineText ==
  ASSUME NEW n \in Nat, NEW text \in SUBSET (1 .. n), NEW back \in SUBSET (1 .. n),
         NEW returns \in SUBSET (1 .. n), (text \cup back) \cap returns = {},
         NEW s, LineSays(text, back, returns, n, s)
  PROVE  LineSays(text \cup {n + 1}, back, returns, n + 1,
                  Append(IF Pending(text, back, returns) THEN <<>> ELSE s, n + 1))
<1> DEFINE text2 == text \cup {n + 1}
<1>0. s \in Seq(Nat)
  BY DEF LineSays
<1>1. /\ Len(s) \in Nat /\ s \in Seq(Nat)
      /\ \A i \in 1 .. Len(s) : s[i] \in 1 .. n
  BY <1>0, LineTyped
<1>2. Kept(text2, back, returns, n + 1)
        = (IF Pending(text, back, returns) THEN {} ELSE Kept(text, back, returns, n))
            \cup {n + 1}
  BY KeptText
<1>3. Between(text2, n + 1, n + 1) = 0 /\ Between(back, n + 1, n + 1) = 0
  <2>1. /\ n + 1 \in Nat /\ n + 1 \in Int
        /\ text2 \in SUBSET (1 .. n + 1) /\ back \in SUBSET (1 .. n + 1)
    OBVIOUS
  <2> HIDE DEF text2
  <2> QED BY <2>1, BetweenNone
<1>4. \A k \in 1 .. n : /\ Between(text2, k, n + 1) = Between(text, k, n) + 1
                        /\ Between(back, k, n + 1) = Between(back, k, n)
  BY BetweenGrows
<1> HIDE DEF text2
<1>5. CASE Pending(text, back, returns)
  <2>0. Append(<<>>, n + 1) \in Seq(Nat)
    OBVIOUS
  <2>1. PICK z \in Seq(Nat) : z = Append(<<>>, n + 1)
    BY <2>0, Zenon
  <2>2. Len(z) = 1 /\ z[1] = n + 1 /\ DOMAIN z = {1} /\ 1 .. 1 = {1}
    BY <2>1
  <2>3. Range(z) = {n + 1}
    BY <2>2 DEF Range
  <2>4. Rises(z)
    BY <2>2 DEF Rises
  <2>5. LineSays(text2, back, returns, n + 1, z)
    BY <1>2, <1>3, <1>5, <2>2, <2>3, <2>4 DEF LineSays
  <2> QED BY <1>5, <2>1, <2>5 DEF text2
<1>6. CASE ~Pending(text, back, returns)
  <2>0. Append(s, n + 1) \in Seq(Nat)
    BY <1>1
  <2>1. PICK z \in Seq(Nat) : z = Append(s, n + 1)
    BY <2>0, Zenon
  <2>2. /\ Len(z) = Len(s) + 1 /\ z[Len(s) + 1] = n + 1
        /\ \A i \in 1 .. Len(s) : z[i] = s[i]
        /\ DOMAIN z = 1 .. Len(s) + 1 /\ 1 .. Len(s) + 1 = (1 .. Len(s)) \cup {Len(s) + 1}
        /\ DOMAIN s = 1 .. Len(s)
    BY <1>1, <2>1
  <2>3. Range(z) = Range(s) \cup {n + 1}
    BY <2>2 DEF Range
  <2>4. Rises(z)
    <3> SUFFICES ASSUME NEW i \in 1 .. Len(s) + 1, NEW j \in 1 .. Len(s) + 1, i < j
                 PROVE  z[i] < z[j]
      BY <2>2 DEF Rises
    <3>1. i \in 1 .. Len(s)
      BY <1>1
    <3>2. CASE j = Len(s) + 1
      BY <1>1, <2>2, <3>1, <3>2
    <3>3. CASE j \in 1 .. Len(s)
      BY <2>2, <3>1, <3>3 DEF LineSays, Rises
    <3> QED BY <2>2, <3>2, <3>3
  <2>5. ASSUME NEW i \in 1 .. Len(s) + 1
        PROVE  Between(text2, z[i], n + 1) - Between(back, z[i], n + 1) = Len(s) + 1 - i
    <3>1. CASE i = Len(s) + 1
      BY <1>1, <1>3, <2>2, <3>1
    <3>2. CASE i \in 1 .. Len(s)
      <4>1. z[i] = s[i] /\ s[i] \in 1 .. n
        BY <1>1, <2>2, <3>2
      <4>2. Between(text, s[i], n) - Between(back, s[i], n) = Len(s) - i
        BY <3>2 DEF LineSays
      <4>3. Between(text, s[i], n) \in Nat /\ Between(back, s[i], n) \in Nat
        <5>1. s[i] \in Int /\ n \in Int
          BY <4>1
        <5> QED BY <5>1, BetweenFinite
      <4>4. /\ Between(text2, z[i], n + 1) = Between(text, s[i], n) + 1
            /\ Between(back, z[i], n + 1) = Between(back, s[i], n)
        BY <1>4, <4>1
      <4>5. \A x, y, l, m \in Int : x - y = l - m => (x + 1) - y = l + 1 - m
        OBVIOUS
      <4>6. i \in Int /\ Len(s) \in Int
        BY <1>1
      <4>7. (Between(text, s[i], n) + 1) - Between(back, s[i], n) = Len(s) + 1 - i
        BY <4>2, <4>3, <4>5, <4>6
      <4> QED BY <4>4, <4>7
    <3> QED BY <2>2, <3>1, <3>2
  <2>6. LineSays(text2, back, returns, n + 1, z)
    <3>1. Range(z) = Kept(text2, back, returns, n + 1)
      BY <1>2, <1>6, <2>3 DEF LineSays
    <3> QED BY <2>2, <2>4, <2>5, <3>1 DEF LineSays
  <2> QED BY <1>6, <2>1, <2>6 DEF text2
<1> QED BY <1>5, <1>6

(* Without the last byte. *)
Shorter(s) == IF s = <<>> THEN <<>> ELSE Front(s)

LEMMA LineBackspace ==
  ASSUME NEW n \in Nat, NEW text \in SUBSET (1 .. n), NEW back \in SUBSET (1 .. n),
         NEW returns \in SUBSET (1 .. n), (text \cup back) \cap returns = {},
         NEW s, LineSays(text, back, returns, n, s)
  PROVE  LineSays(text, back \cup {n + 1}, returns, n + 1,
                  Shorter(IF Pending(text, back, returns) THEN <<>> ELSE s))
<1> DEFINE back2 == back \cup {n + 1}
<1>0. s \in Seq(Nat)
  BY DEF LineSays
<1>1. /\ Len(s) \in Nat /\ s \in Seq(Nat)
      /\ \A i \in 1 .. Len(s) : s[i] \in 1 .. n /\ s[i] \in Kept(text, back, returns, n)
      /\ Kept(text, back, returns, n) = {s[i] : i \in 1 .. Len(s)}
  <2>1. /\ Len(s) \in Nat
        /\ \A i \in 1 .. Len(s) : s[i] \in 1 .. n /\ s[i] \in Kept(text, back, returns, n)
    BY LineTyped
  <2>2. Kept(text, back, returns, n) = {s[i] : i \in 1 .. Len(s)}
    <3>1. Range(s) = {s[i] : i \in 1 .. Len(s)}
      BY <1>0 DEF Range
    <3> QED BY <3>1 DEF LineSays
  <2> QED BY <1>0, <2>1, <2>2
<1>2. Kept(text, back2, returns, n + 1)
        = IF Pending(text, back, returns) THEN {}
          ELSE {k \in Kept(text, back, returns, n) :
                  Between(back, k, n) < Between(text, k, n)}
  BY KeptBackspace, ZenonT(60)
<1>3. \A k \in 1 .. n : /\ Between(text, k, n + 1) = Between(text, k, n)
                        /\ Between(back2, k, n + 1) = Between(back, k, n) + 1
  BY BetweenGrows
<1> HIDE DEF back2
<1>4. CASE Pending(text, back, returns)
  <2>1. Kept(text, back2, returns, n + 1) = {}
    BY <1>2, <1>4
  <2> QED BY <1>4, <2>1, LineNone DEF Shorter, back2
<1>5. CASE ~Pending(text, back, returns) /\ s = <<>>
  <2>1. Kept(text, back2, returns, n + 1) = {}
    BY <1>1, <1>2, <1>5
  <2> QED BY <1>5, <2>1, LineNone DEF Shorter, back2
<1>6. CASE ~Pending(text, back, returns) /\ s # <<>>
  <2>1. Len(s) > 0 /\ Front(s) \in Seq(Nat)
    BY <1>1, <1>6 DEF Front
  <2>2. PICK z \in Seq(Nat) : z = Front(s)
    BY <2>1
  <2>3. /\ Len(z) = Len(s) - 1 /\ DOMAIN z = 1 .. Len(s) - 1
        /\ \A i \in 1 .. Len(s) - 1 : z[i] = s[i]
    <3>1. /\ Len(Front(s)) = Len(s) - 1 /\ DOMAIN Front(s) = 1 .. Len(s) - 1
          /\ \A i \in 1 .. Len(s) - 1 : Front(s)[i] = s[i]
      <4>0. Len(s) - 1 \in Nat
        BY <1>1, <2>1
      <4>1. PICK m \in Nat : m = Len(s) - 1
        BY <4>0, Zenon
      <4>2. /\ Len(SubSeq(s, 1, m)) = m /\ DOMAIN SubSeq(s, 1, m) = 1 .. m
            /\ \A i \in 1 .. m : SubSeq(s, 1, m)[i] = s[i]
        <5>1. /\ 1 \in 1 .. Len(s) + 1 /\ m \in 0 .. Len(s) /\ m - 1 + 1 = m
              /\ 1 \in Int /\ 1 =< m + 1 /\ m \in Int /\ 1 - 1 = 0
          BY <1>1, <2>1, <4>1
        <5>2. \A i \in 1 .. m : i \in 1 .. Len(s) /\ 1 + i - 1 = i
          BY <1>1, <4>1
        <5>3. /\ SubSeq(s, 1, m) \in Seq(Nat)
              /\ Len(SubSeq(s, 1, m)) = IF 1 =< m THEN m - 1 + 1 ELSE 0
              /\ \A i \in 1 .. m - 1 + 1 : SubSeq(s, 1, m)[i] = s[1 + i - 1]
          BY <1>1, <5>1, SubSeqProperties
        <5> QED BY <5>1, <5>2, <5>3
      <4> QED BY <4>1, <4>2 DEF Front
    <3> QED BY <2>2, <3>1
  <2>4. ASSUME NEW i \in 1 .. Len(s)
        PROVE  /\ Between(text, s[i], n) \in Nat /\ Between(back, s[i], n) \in Nat
               /\ Between(text, s[i], n) - Between(back, s[i], n) = Len(s) - i
    <3>1. s[i] \in Int /\ n \in Int
      BY <1>1
    <3>2. Between(text, s[i], n) \in Nat /\ Between(back, s[i], n) \in Nat
      BY <3>1, BetweenFinite
    <3> QED BY <3>2 DEF LineSays
  <2>5. Kept(text, back2, returns, n + 1) = {s[i] : i \in 1 .. Len(s) - 1}
    <3>1. Kept(text, back2, returns, n + 1)
            = {k \in Kept(text, back, returns, n) : Between(back, k, n) < Between(text, k, n)}
      BY <1>2, <1>6
    <3>2. \A i \in 1 .. Len(s) :
            Between(back, s[i], n) < Between(text, s[i], n) <=> i \in 1 .. Len(s) - 1
      <4> SUFFICES ASSUME NEW i \in 1 .. Len(s)
                   PROVE  Between(back, s[i], n) < Between(text, s[i], n)
                            <=> i \in 1 .. Len(s) - 1
        OBVIOUS
      <4>1. \A x, y \in Nat : x - y = Len(s) - i => (y < x <=> i \in 1 .. Len(s) - 1)
        BY <1>1
      <4> QED BY <2>4, <4>1
    <3>3. \A i \in 1 .. Len(s) - 1 : i \in 1 .. Len(s)
      BY <1>1
    <3> QED BY <1>1, <3>1, <3>2, <3>3
  <2>6. Range(z) = Kept(text, back2, returns, n + 1)
    BY <2>3, <2>5 DEF Range
  <2>7. Rises(z)
    <3>1. \A i \in 1 .. Len(s) - 1 : i \in 1 .. Len(s)
      BY <1>1
    <3> QED BY <2>3, <3>1 DEF LineSays, Rises
  <2>8. ASSUME NEW i \in 1 .. Len(z)
        PROVE  Between(text, z[i], n + 1) - Between(back2, z[i], n + 1) = Len(z) - i
    <3>1. i \in 1 .. Len(s) /\ z[i] = s[i]
      BY <1>1, <2>3
    <3>2. /\ Between(text, s[i], n) \in Nat /\ Between(back, s[i], n) \in Nat
          /\ Between(text, s[i], n) - Between(back, s[i], n) = Len(s) - i
      BY <2>4, <3>1
    <3>3. /\ Between(text, s[i], n + 1) = Between(text, s[i], n)
          /\ Between(back2, s[i], n + 1) = Between(back, s[i], n) + 1
      BY <1>1, <1>3, <3>1
    <3>4. \A x, y, l, m \in Int : x - y = l - m => x - (y + 1) = (l - 1) - m
      OBVIOUS
    <3>5. i \in Int /\ Len(s) \in Int
      BY <1>1, <3>1
    <3> QED BY <2>3, <3>1, <3>2, <3>3, <3>4, <3>5, SMTT(30)
  <2>9. LineSays(text, back2, returns, n + 1, z)
    BY <2>6, <2>7, <2>8 DEF LineSays
  <2> QED BY <1>6, <2>2, <2>9 DEF Shorter, back2
<1> QED BY <1>4, <1>5, <1>6

-----------------------------------------------------------------------------
(* The positions of a line in their order are the line.                    *)
LEMMA PrefixCounts ==
  ASSUME NEW s \in Seq(Nat), Rises(s)
  PROVE  \A i \in 0 .. Len(s) : /\ IsFiniteSet({s[j] : j \in 1 .. i})
                                /\ Cardinality({s[j] : j \in 1 .. i}) = i
<1> DEFINE Prefix(i) == {s[j] : j \in 1 .. i}
           Good == {i \in 0 .. Len(s) : IsFiniteSet(Prefix(i)) /\ Cardinality(Prefix(i)) = i}
<1>1. Len(s) \in Nat /\ \A i \in 1 .. Len(s) : s[i] \in Nat
  OBVIOUS
<1>2. 0 \in Good
  <2>1. Prefix(0) = {} /\ 0 \in 0 .. Len(s)
    BY <1>1
  <2> HIDE DEF Prefix
  <2> QED BY <2>1, FS_EmptySet
<1>3. \A i \in 0 .. Len(s) - 1 : i \in Good => i + 1 \in Good
  <2> SUFFICES ASSUME NEW i \in 0 .. Len(s) - 1, i \in Good PROVE i + 1 \in Good
    OBVIOUS
  <2>1. 1 .. i + 1 = (1 .. i) \cup {i + 1} /\ i + 1 \in 0 .. Len(s)
    OBVIOUS
  <2>2. Prefix(i + 1) = Prefix(i) \cup {s[i + 1]}
    BY <2>1
  <2>3. s[i + 1] \notin Prefix(i)
    <3> SUFFICES ASSUME NEW j \in 1 .. i, s[j] = s[i + 1] PROVE FALSE
      OBVIOUS
    <3>1. j \in 1 .. Len(s) /\ i + 1 \in 1 .. Len(s) /\ j < i + 1
      OBVIOUS
    <3>2. s[j] < s[i + 1]
      BY <3>1 DEF Rises
    <3> QED BY <1>1, <3>1, <3>2
  <2>4. IsFiniteSet(Prefix(i)) /\ Cardinality(Prefix(i)) = i
    OBVIOUS
  <2> HIDE DEF Prefix
  <2>5. /\ IsFiniteSet(Prefix(i) \cup {s[i + 1]})
        /\ Cardinality(Prefix(i) \cup {s[i + 1]}) = i + 1
    BY <2>3, <2>4, FS_AddElement
  <2> QED BY <2>1, <2>2, <2>5
<1>4. 0 .. Len(s) \subseteq Good
  <2> HIDE DEF Good
  <2> QED BY <1>1, <1>2, <1>3, BoundedInduction
<1> QED BY <1>4

LEMMA AscendingOf ==
  ASSUME NEW s \in Seq(Nat), Rises(s)
  PROVE  Ascending(Range(s)) = s
<1>1. /\ Len(s) \in Nat /\ DOMAIN s = 1 .. Len(s)
      /\ \A i \in 1 .. Len(s) : s[i] \in Nat
  OBVIOUS
<1>2. Range(s) = {s[j] : j \in 1 .. Len(s)}
  BY <1>1 DEF Range
<1>3. Cardinality(Range(s)) = Len(s)
  <2>1. Len(s) \in 0 .. Len(s)
    BY <1>1
  <2> QED BY <1>2, <2>1, PrefixCounts
<1>4. ASSUME NEW i \in 1 .. Len(s)
      PROVE  Cardinality({k \in Range(s) : k =< s[i]}) = i
  <2>1. \A j \in 1 .. Len(s) : s[j] =< s[i] <=> j \in 1 .. i
    <3> SUFFICES ASSUME NEW j \in 1 .. Len(s) PROVE s[j] =< s[i] <=> j =< i
      OBVIOUS
    <3>1. j < i => s[j] < s[i]
      BY DEF Rises
    <3>2. i < j => s[i] < s[j]
      BY DEF Rises
    <3> QED BY <1>1, <3>1, <3>2
  <2>2. 1 .. i \subseteq 1 .. Len(s) /\ i \in 0 .. Len(s)
    BY <1>1
  <2>3. {k \in Range(s) : k =< s[i]} = {s[j] : j \in 1 .. i}
    BY <1>2, <2>1, <2>2
  <2> QED BY <2>2, <2>3, PrefixCounts
<1>5. ASSUME NEW i \in 1 .. Len(s)
      PROVE  (CHOOSE k \in Range(s) : Cardinality({j \in Range(s) : j =< k}) = i) = s[i]
  <2>1. s[i] \in Range(s) /\ Cardinality({j \in Range(s) : j =< s[i]}) = i
    BY <1>2, <1>4
  <2>2. \A k \in Range(s) : Cardinality({j \in Range(s) : j =< k}) = i => k = s[i]
    BY <1>2, <1>4
  <2> QED BY <2>1, <2>2
<1>6. Ascending(Range(s)) = [i \in 1 .. Len(s) |-> s[i]]
  <2>1. Ascending(Range(s)) = [i \in 1 .. Len(s) |->
           CHOOSE k \in Range(s) : Cardinality({j \in Range(s) : j =< k}) = i]
    BY <1>3 DEF Ascending
  <2> QED BY <1>5, <2>1
<1> QED BY <1>1, <1>6

-----------------------------------------------------------------------------
(***************************************************************************)
(* The rows of an output, and what a byte more does to them.               *)
(***************************************************************************)
TextRow(t, r) == Row(t, At(t, Printed), r)
BackRow(t, r) == Row(t, At(t, {"bs"}), r)
ReturnRow(t, r) == Row(t, At(t, {"cr"}), r)
Count(t) == Cardinality(Newlines(t))
Outside(t) == Covers(t)[Len(t)] =< Len(t)

LEMMA NewlinesTyped ==
  ASSUME NEW t \in Seq(Class)
  PROVE  /\ Newlines(t) \in SUBSET (1 .. Len(t)) /\ IsFiniteSet(Newlines(t))
         /\ Count(t) \in Nat
<1>1. Newlines(t) \in SUBSET (1 .. Len(t))
  BY AtTyped DEF Newlines
<1>2. IsFiniteSet(1 .. Len(t))
  <2>1. Len(t) \in Int /\ 1 \in Int
    OBVIOUS
  <2> QED BY <2>1, FS_Interval
<1>3. IsFiniteSet(Newlines(t))
  BY <1>1, <1>2, FS_Subset
<1> QED BY <1>1, <1>3, FS_CardinalityType DEF Count

LEMMA RowsTyped ==
  ASSUME NEW t \in Seq(Class), NEW r
  PROVE  /\ TextRow(t, r) \in SUBSET (1 .. Len(t))
         /\ BackRow(t, r) \in SUBSET (1 .. Len(t))
         /\ ReturnRow(t, r) \in SUBSET (1 .. Len(t))
         /\ (TextRow(t, r) \cup BackRow(t, r)) \cap ReturnRow(t, r) = {}
<1>1. "cr" \notin Printed /\ "cr" # "bs"
  BY DEF Printed, Final
<1> QED BY <1>1 DEF TextRow, BackRow, ReturnRow, Row, At

LEMMA NewlinesGrow ==
  ASSUME NEW t \in Seq(Class), NEW b \in Class
  PROVE  /\ Newlines(Append(t, b)) =
              Newlines(t) \cup (IF Outside(t) /\ b = "nl" THEN {Len(t) + 1} ELSE {})
         /\ Count(Append(t, b)) = Count(t) + (IF Outside(t) /\ b = "nl" THEN 1 ELSE 0)
<1>1. Newlines(Append(t, b)) =
        Newlines(t) \cup (IF Outside(t) /\ b = "nl" THEN {Len(t) + 1} ELSE {})
  <2>1. "esc" \notin {"nl"} /\ (b \in {"nl"} <=> b = "nl")
    OBVIOUS
  <2>2. At(Append(t, b), {"nl"}) = At(t, {"nl"})
          \cup (IF Covers(t)[Len(t)] =< Len(t) /\ b \in {"nl"} THEN {Len(t) + 1} ELSE {})
    BY <2>1, AtGrows
  <2> QED BY <2>1, <2>2 DEF Newlines, Outside
<1>2. Len(t) + 1 \notin Newlines(t) /\ IsFiniteSet(Newlines(t)) /\ Count(t) \in Nat
  BY NewlinesTyped
<1>3. Cardinality(Newlines(t) \cup {Len(t) + 1}) = Count(t) + 1
  BY <1>2, FS_AddElement DEF Count
<1>4. Newlines(t) \cup {} = Newlines(t)
  OBVIOUS
<1>5. Count(Append(t, b)) = Count(t) + (IF Outside(t) /\ b = "nl" THEN 1 ELSE 0)
  <2>1. CASE Outside(t) /\ b = "nl"
    <3>1. Newlines(Append(t, b)) = Newlines(t) \cup {Len(t) + 1}
      BY <1>1, <2>1
    <3>2. Count(Append(t, b)) = Count(t) + 1
      BY <1>3, <3>1 DEF Count
    <3> QED BY <2>1, <3>2
  <2>2. CASE ~(Outside(t) /\ b = "nl")
    <3>1. Newlines(Append(t, b)) = Newlines(t)
      BY <1>1, <2>2
    <3>2. Count(Append(t, b)) = Count(t)
      BY <3>1 DEF Count
    <3> QED BY <1>2, <2>2, <3>2
  <2> QED BY <2>1, <2>2
<1> QED BY <1>1, <1>5

LEMMA RowStays ==
  ASSUME NEW t \in Seq(Class), NEW b \in Class, NEW S \in SUBSET (1 .. Len(t)), NEW r
  PROVE  Row(Append(t, b), S, r) = Row(t, S, r)
<1> PICK u \in Seq(Class) : u = Append(t, b)
  BY Grown
<1> PICK n \in Nat : n = Len(t)
  OBVIOUS
<1>1. Newlines(u) = Newlines(t) \/ Newlines(u) = Newlines(t) \cup {n + 1}
  <2>1. Newlines(u) = Newlines(t) \cup (IF Outside(t) /\ b = "nl" THEN {n + 1} ELSE {})
    BY NewlinesGrow
  <2> QED BY <2>1
<1>2. ASSUME NEW k \in S
      PROVE  {j \in Newlines(u) : j < k} = {j \in Newlines(t) : j < k}
  BY <1>1
<1>3. Row(u, S, r) = Row(t, S, r)
  BY <1>2 DEF Row
<1> QED BY <1>3

LEMMA RowGrows ==
  ASSUME NEW t \in Seq(Class), NEW b \in Class, NEW S \in SUBSET (1 .. Len(t)), NEW r
  PROVE  Row(Append(t, b), S \cup {Len(t) + 1}, r)
           = Row(t, S, r) \cup (IF r = Count(t) THEN {Len(t) + 1} ELSE {})
<1> PICK u \in Seq(Class) : u = Append(t, b)
  BY Grown
<1> PICK n \in Nat : n = Len(t)
  OBVIOUS
<1>1. Newlines(u) = Newlines(t) \/ Newlines(u) = Newlines(t) \cup {n + 1}
  <2>1. Newlines(u) = Newlines(t) \cup (IF Outside(t) /\ b = "nl" THEN {n + 1} ELSE {})
    BY NewlinesGrow
  <2> QED BY <2>1
<1>2. {j \in Newlines(u) : j < n + 1} = Newlines(t)
  <2>1. \A j \in Newlines(t) : j < n + 1
    BY NewlinesTyped
  <2>2. ~(n + 1 < n + 1)
    OBVIOUS
  <2> QED BY <1>1, <2>1, <2>2
<1>3. Row(u, S, r) = Row(t, S, r)
  BY RowStays
<1>4. Row(u, S \cup {n + 1}, r) = Row(u, S, r) \cup (IF r = Count(t) THEN {n + 1} ELSE {})
  BY <1>2 DEF Row, Count
<1> QED BY <1>3, <1>4

LEMMA ClassRowGrows ==
  ASSUME NEW t \in Seq(Class), NEW b \in Class, NEW class, "esc" \notin class, NEW r
  PROVE  Row(Append(t, b), At(Append(t, b), class), r)
           = Row(t, At(t, class), r)
               \cup (IF Outside(t) /\ b \in class /\ r = Count(t) THEN {Len(t) + 1} ELSE {})
<1>1. At(Append(t, b), class) = At(t, class)
        \cup (IF Outside(t) /\ b \in class THEN {Len(t) + 1} ELSE {})
  BY AtGrows DEF Outside
<1>2. At(t, class) \in SUBSET (1 .. Len(t))
  BY AtTyped
<1>3. CASE Outside(t) /\ b \in class
  <2>1. At(Append(t, b), class) = At(t, class) \cup {Len(t) + 1}
    BY <1>1, <1>3
  <2> QED BY <1>2, <1>3, <2>1, RowGrows
<1>4. CASE ~(Outside(t) /\ b \in class)
  <2>1. At(Append(t, b), class) = At(t, class)
    BY <1>1, <1>4
  <2>2. Row(Append(t, b), At(t, class), r) = Row(t, At(t, class), r)
    <3>1. PICK S \in SUBSET (1 .. Len(t)) : S = At(t, class)
      BY <1>2, Zenon
    <3>2. Row(Append(t, b), S, r) = Row(t, S, r)
      BY RowStays
    <3> QED BY <3>1, <3>2
  <2> QED BY <1>4, <2>1, <2>2
<1> QED BY <1>3, <1>4

LEMMA RowsGrow ==
  ASSUME NEW t \in Seq(Class), NEW b \in Class, NEW r
  PROVE  /\ TextRow(Append(t, b), r) = TextRow(t, r)
              \cup (IF Outside(t) /\ b \in Printed /\ r = Count(t) THEN {Len(t) + 1} ELSE {})
         /\ BackRow(Append(t, b), r) = BackRow(t, r)
              \cup (IF Outside(t) /\ b = "bs" /\ r = Count(t) THEN {Len(t) + 1} ELSE {})
         /\ ReturnRow(Append(t, b), r) = ReturnRow(t, r)
              \cup (IF Outside(t) /\ b = "cr" /\ r = Count(t) THEN {Len(t) + 1} ELSE {})
<1>1. "esc" \notin Printed /\ "esc" \notin {"bs"} /\ "esc" \notin {"cr"}
  BY DEF Printed, Final
<1>2. TextRow(Append(t, b), r) = TextRow(t, r)
        \cup (IF Outside(t) /\ b \in Printed /\ r = Count(t) THEN {Len(t) + 1} ELSE {})
  BY <1>1, ClassRowGrows DEF TextRow
<1>3. BackRow(Append(t, b), r) = BackRow(t, r)
        \cup (IF Outside(t) /\ b \in {"bs"} /\ r = Count(t) THEN {Len(t) + 1} ELSE {})
  BY <1>1, ClassRowGrows DEF BackRow
<1>4. ReturnRow(Append(t, b), r) = ReturnRow(t, r)
        \cup (IF Outside(t) /\ b \in {"cr"} /\ r = Count(t) THEN {Len(t) + 1} ELSE {})
  BY <1>1, ClassRowGrows DEF ReturnRow
<1>5. (b \in {"bs"} <=> b = "bs") /\ (b \in {"cr"} <=> b = "cr")
  OBVIOUS
<1> QED BY <1>2, <1>3, <1>4, <1>5

(* After the newlines there are, there is no line yet. *)
LEMMA RowBeyond ==
  ASSUME NEW t \in Seq(Class), NEW S
  PROVE  Row(t, S, Count(t) + 1) = {}
<1> SUFFICES ASSUME NEW k \in S, Cardinality({j \in Newlines(t) : j < k}) = Count(t) + 1
             PROVE  FALSE
  BY DEF Row
<1>1. IsFiniteSet(Newlines(t)) /\ Count(t) \in Nat
  BY NewlinesTyped
<1>2. {j \in Newlines(t) : j < k} \in SUBSET Newlines(t)
  OBVIOUS
<1>3. /\ Cardinality({j \in Newlines(t) : j < k}) =< Cardinality(Newlines(t))
  BY <1>1, <1>2, FS_Subset
<1> QED BY <1>1, <1>3 DEF Count

(* A byte that adds nothing to a line leaves what is shown of it.          *)
LEMMA ShownStays ==
  ASSUME NEW t \in Seq(Class), NEW b \in Class, NEW r,
         r # Count(t) \/ b = "nl" \/ b = "bel" \/ b = "esc" \/ ~Outside(t)
  PROVE  /\ TextRow(Append(t, b), r) = TextRow(t, r)
         /\ BackRow(Append(t, b), r) = BackRow(t, r)
         /\ ReturnRow(Append(t, b), r) = ReturnRow(t, r)
         /\ Shown(Append(t, b), r) = Shown(t, r)
<1>1. /\ "nl" \notin Printed /\ "bel" \notin Printed /\ "esc" \notin Printed
      /\ "nl" \notin {"bs", "cr"} /\ "bel" \notin {"bs", "cr"} /\ "esc" \notin {"bs", "cr"}
  BY DEF Printed, Final
<1>2. /\ TextRow(Append(t, b), r) = TextRow(t, r)
      /\ BackRow(Append(t, b), r) = BackRow(t, r)
      /\ ReturnRow(Append(t, b), r) = ReturnRow(t, r)
  <2>1. /\ ~(Outside(t) /\ b \in Printed /\ r = Count(t))
        /\ ~(Outside(t) /\ b = "bs" /\ r = Count(t))
        /\ ~(Outside(t) /\ b = "cr" /\ r = Count(t))
    BY <1>1
  <2>2. TextRow(Append(t, b), r) = TextRow(t, r)
          \cup (IF Outside(t) /\ b \in Printed /\ r = Count(t) THEN {Len(t) + 1} ELSE {})
    BY RowsGrow
  <2>3. BackRow(Append(t, b), r) = BackRow(t, r)
          \cup (IF Outside(t) /\ b = "bs" /\ r = Count(t) THEN {Len(t) + 1} ELSE {})
    BY RowsGrow
  <2>4. ReturnRow(Append(t, b), r) = ReturnRow(t, r)
          \cup (IF Outside(t) /\ b = "cr" /\ r = Count(t) THEN {Len(t) + 1} ELSE {})
    BY RowsGrow
  <2> QED BY <2>1, <2>2, <2>3, <2>4
<1>3. Len(t) \in Nat /\ Len(Append(t, b)) = Len(t) + 1
  BY Grown
<1>4. /\ TextRow(t, r) \in SUBSET (1 .. Len(t))
      /\ BackRow(t, r) \in SUBSET (1 .. Len(t))
      /\ ReturnRow(t, r) \in SUBSET (1 .. Len(t))
  BY RowsTyped
<1>5. Kept(TextRow(t, r), BackRow(t, r), ReturnRow(t, r), Len(t) + 1)
        = Kept(TextRow(t, r), BackRow(t, r), ReturnRow(t, r), Len(t))
  BY <1>3, <1>4, KeptStays
<1>6. \A s \in {t, Append(t, b)} :
        Shown(s, r) = Ascending(Kept(TextRow(s, r), BackRow(s, r), ReturnRow(s, r), Len(s)))
  BY DEF Shown, TextRow, BackRow, ReturnRow
<1> QED BY <1>2, <1>3, <1>5, <1>6

-----------------------------------------------------------------------------
(* The machine between two bytes, after the output t.                      *)
Complete(t, ls) ==
  /\ ls \in Seq(Seq(Nat))
  /\ Len(ls) = Count(t)
  /\ \A i \in 1 .. Len(ls) : ls[i] = Shown(t, i - 1)

Current(t, s, p) ==
  LET text == TextRow(t, Count(t))
      back == BackRow(t, Count(t))
      returns == ReturnRow(t, Count(t))
  IN /\ LineSays(text, back, returns, Len(t), s)
     /\ p \in BOOLEAN
     /\ p <=> Pending(text, back, returns)

LEMMA CurrentShown ==
  ASSUME NEW t \in Seq(Class), NEW s, NEW p, Current(t, s, p)
  PROVE  s \in Seq(Nat) /\ Shown(t, Count(t)) = s
<1>1. LineSays(TextRow(t, Count(t)), BackRow(t, Count(t)), ReturnRow(t, Count(t)), Len(t), s)
  BY DEF Current
<1>2. /\ s \in Seq(Nat) /\ Rises(s)
      /\ Range(s) = Kept(TextRow(t, Count(t)), BackRow(t, Count(t)), ReturnRow(t, Count(t)), Len(t))
  BY <1>1 DEF LineSays
<1>3. Ascending(Range(s)) = s
  BY <1>2, AscendingOf
<1> QED BY <1>2, <1>3 DEF Shown, TextRow, BackRow, ReturnRow

LEMMA CompleteStays ==
  ASSUME NEW t \in Seq(Class), NEW b \in Class, NEW ls, Complete(t, ls), ~(Outside(t) /\ b = "nl")
  PROVE  Complete(Append(t, b), ls) /\ Count(Append(t, b)) = Count(t)
<1>1. Count(t) \in Nat /\ Count(Append(t, b)) = Count(t)
  BY NewlinesTyped, NewlinesGrow
<1>2. \A i \in 1 .. Len(ls) : i - 1 # Count(t)
  BY <1>1 DEF Complete
<1>3. \A i \in 1 .. Len(ls) : Shown(Append(t, b), i - 1) = Shown(t, i - 1)
  BY <1>2, ShownStays
<1> QED BY <1>1, <1>3 DEF Complete

LEMMA QuietStep ==
  ASSUME NEW t \in Seq(Class), NEW b \in Class, NEW s, NEW p, Current(t, s, p),
         Count(Append(t, b)) = Count(t), b = "bel" \/ b = "esc" \/ ~Outside(t)
  PROVE  Current(Append(t, b), s, p)
<1>1. /\ TextRow(Append(t, b), Count(t)) = TextRow(t, Count(t))
      /\ BackRow(Append(t, b), Count(t)) = BackRow(t, Count(t))
      /\ ReturnRow(Append(t, b), Count(t)) = ReturnRow(t, Count(t))
  BY ShownStays
<1>2. Len(t) \in Nat /\ Len(Append(t, b)) = Len(t) + 1
  BY Grown
<1>3. LineSays(TextRow(t, Count(t)), BackRow(t, Count(t)), ReturnRow(t, Count(t)), Len(t) + 1, s)
  BY <1>2, RowsTyped, LineStays DEF Current
<1> QED BY <1>1, <1>2, <1>3 DEF Current

LEMMA NewlineStep ==
  ASSUME NEW t \in Seq(Class), NEW s, NEW p, Current(t, s, p), NEW ls, Complete(t, ls),
         Outside(t)
  PROVE  Complete(Append(t, "nl"), Append(ls, s)) /\ Current(Append(t, "nl"), <<>>, FALSE)
<1> PICK u \in Seq(Class) : u = Append(t, "nl")
  BY Grown DEF Class
<1>0. "nl" \in Class
  BY DEF Class
<1>1. Count(t) \in Nat /\ Count(u) = Count(t) + 1
  BY <1>0, NewlinesTyped, NewlinesGrow
<1>2. \A r \in Nat : Shown(u, r) = Shown(t, r)
  BY <1>0, ShownStays
<1>3. s \in Seq(Nat) /\ Shown(t, Count(t)) = s
  BY CurrentShown
<1>4. /\ ls \in Seq(Seq(Nat)) /\ Len(ls) = Count(t)
      /\ \A i \in 1 .. Count(t) : ls[i] = Shown(t, i - 1)
  BY DEF Complete
<1>5. /\ Append(ls, s) \in Seq(Seq(Nat)) /\ Len(Append(ls, s)) = Count(t) + 1
      /\ \A i \in 1 .. Count(t) : Append(ls, s)[i] = ls[i]
      /\ Append(ls, s)[Count(t) + 1] = s
  BY <1>3, <1>4
<1>6. ASSUME NEW i \in 1 .. Count(t) + 1 PROVE Append(ls, s)[i] = Shown(u, i - 1)
  <2>1. i - 1 \in Nat
    BY <1>1
  <2>2. CASE i = Count(t) + 1
    <3>1. i - 1 = Count(t)
      BY <1>1, <2>2
    <3> QED BY <1>2, <1>3, <1>5, <2>1, <2>2, <3>1
  <2>3. CASE i \in 1 .. Count(t)
    BY <1>2, <1>4, <1>5, <2>1, <2>3
  <2>4. i = Count(t) + 1 \/ i \in 1 .. Count(t)
    BY <1>1
  <2> QED BY <2>2, <2>3, <2>4
<1>7. Complete(u, Append(ls, s))
  BY <1>1, <1>5, <1>6 DEF Complete
<1>8. /\ TextRow(u, Count(u)) = {} /\ BackRow(u, Count(u)) = {} /\ ReturnRow(u, Count(u)) = {}
  <2>1. Count(u) # Count(t)
    BY <1>1
  <2>2. /\ TextRow(u, Count(u)) = TextRow(t, Count(u))
        /\ BackRow(u, Count(u)) = BackRow(t, Count(u))
        /\ ReturnRow(u, Count(u)) = ReturnRow(t, Count(u))
    BY <1>0, <2>1, ShownStays
  <2> QED BY <1>1, <2>2, RowBeyond DEF TextRow, BackRow, ReturnRow
<1>9. Current(u, <<>>, FALSE)
  <2>1. Kept({}, {}, {}, Len(u)) = {} /\ ~Pending({}, {}, {})
    BY DEF Kept, Pending
  <2>2. LineSays({}, {}, {}, Len(u), <<>>)
    BY <2>1, LineNone
  <2> QED BY <1>8, <2>1, <2>2 DEF Current
<1> QED BY <1>7, <1>9

LEMMA RowsOfOne ==
  ASSUME NEW t \in Seq(Class), NEW b \in Class, Outside(t), NEW c, c = Count(t)
  PROVE  /\ b \in Printed => /\ TextRow(Append(t, b), c) = TextRow(t, c) \cup {Len(t) + 1}
                             /\ BackRow(Append(t, b), c) = BackRow(t, c)
                             /\ ReturnRow(Append(t, b), c) = ReturnRow(t, c)
         /\ b = "bs" => /\ TextRow(Append(t, b), c) = TextRow(t, c)
                        /\ BackRow(Append(t, b), c) = BackRow(t, c) \cup {Len(t) + 1}
                        /\ ReturnRow(Append(t, b), c) = ReturnRow(t, c)
         /\ b = "cr" => /\ TextRow(Append(t, b), c) = TextRow(t, c)
                        /\ BackRow(Append(t, b), c) = BackRow(t, c)
                        /\ ReturnRow(Append(t, b), c) = ReturnRow(t, c) \cup {Len(t) + 1}
<1>1. "bs" \notin Printed /\ "cr" \notin Printed
  BY DEF Printed, Final
<1>2. TextRow(Append(t, b), c) = TextRow(t, c)
        \cup (IF Outside(t) /\ b \in Printed /\ c = Count(t) THEN {Len(t) + 1} ELSE {})
  BY RowsGrow
<1>3. BackRow(Append(t, b), c) = BackRow(t, c)
        \cup (IF Outside(t) /\ b = "bs" /\ c = Count(t) THEN {Len(t) + 1} ELSE {})
  BY RowsGrow
<1>4. ReturnRow(Append(t, b), c) = ReturnRow(t, c)
        \cup (IF Outside(t) /\ b = "cr" /\ c = Count(t) THEN {Len(t) + 1} ELSE {})
  BY RowsGrow
<1>5. CASE b \in Printed
  BY <1>1, <1>2, <1>3, <1>4, <1>5
<1>6. CASE b = "bs"
  BY <1>1, <1>2, <1>3, <1>4, <1>6
<1>7. CASE b = "cr"
  BY <1>1, <1>2, <1>3, <1>4, <1>7
<1> QED BY <1>5, <1>6, <1>7

LEMMA ReturnStep ==
  ASSUME NEW t \in Seq(Class), NEW s, NEW p, Current(t, s, p), Outside(t),
         Count(Append(t, "cr")) = Count(t)
  PROVE  Current(Append(t, "cr"), s, TRUE)
<1>0. "cr" \in Class
  BY DEF Class
<1> DEFINE c == Count(t)
           u == Append(t, "cr")
<1>1. /\ TextRow(u, c) = TextRow(t, c)
      /\ BackRow(u, c) = BackRow(t, c)
      /\ ReturnRow(u, c) = ReturnRow(t, c) \cup {Len(t) + 1}
  BY <1>0, RowsOfOne
<1>2. Len(t) \in Nat /\ Len(u) = Len(t) + 1
  BY <1>0, Grown
<1>3. /\ TextRow(t, c) \in SUBSET (1 .. Len(t))
      /\ BackRow(t, c) \in SUBSET (1 .. Len(t))
      /\ ReturnRow(t, c) \in SUBSET (1 .. Len(t))
  BY RowsTyped
<1>4. LineSays(TextRow(t, c), BackRow(t, c), ReturnRow(t, c) \cup {Len(t) + 1}, Len(t) + 1, s)
  BY <1>2, <1>3, LineStays DEF Current
<1>5. Pending(TextRow(t, c), BackRow(t, c), ReturnRow(t, c) \cup {Len(t) + 1})
  BY <1>2, <1>3, KeptStays
<1> QED BY <1>1, <1>2, <1>4, <1>5 DEF Current

(* What rewrite_if_pending_cr leaves of the line. *)
IsLeft(rest, s, p) == rest = IF p THEN <<>> ELSE s

LEMMA BackspaceStep ==
  ASSUME NEW t \in Seq(Class), NEW s, NEW p, Current(t, s, p), Outside(t),
         Count(Append(t, "bs")) = Count(t), NEW rest, IsLeft(rest, s, p)
  PROVE  Current(Append(t, "bs"), Shorter(rest), FALSE)
<1>0. "bs" \in Class
  BY DEF Class
<1> DEFINE c == Count(t)
           u == Append(t, "bs")
<1>1. /\ TextRow(u, c) = TextRow(t, c)
      /\ BackRow(u, c) = BackRow(t, c) \cup {Len(t) + 1}
      /\ ReturnRow(u, c) = ReturnRow(t, c)
  BY <1>0, RowsOfOne
<1>2. Len(t) \in Nat /\ Len(u) = Len(t) + 1
  BY <1>0, Grown
<1>3. /\ TextRow(t, c) \in SUBSET (1 .. Len(t))
      /\ BackRow(t, c) \in SUBSET (1 .. Len(t))
      /\ ReturnRow(t, c) \in SUBSET (1 .. Len(t))
      /\ (TextRow(t, c) \cup BackRow(t, c)) \cap ReturnRow(t, c) = {}
  BY RowsTyped
<1>4. /\ LineSays(TextRow(t, c), BackRow(t, c), ReturnRow(t, c), Len(t), s)
      /\ p \in BOOLEAN /\ (p <=> Pending(TextRow(t, c), BackRow(t, c), ReturnRow(t, c)))
  BY DEF Current
<1>5. LineSays(TextRow(t, c), BackRow(t, c) \cup {Len(t) + 1}, ReturnRow(t, c), Len(t) + 1,
               Shorter(IF Pending(TextRow(t, c), BackRow(t, c), ReturnRow(t, c))
                       THEN <<>> ELSE s))
  BY <1>2, <1>3, <1>4, LineBackspace
<1>6. ~Pending(TextRow(t, c), BackRow(t, c) \cup {Len(t) + 1}, ReturnRow(t, c))
  BY <1>2, <1>3, KeptBackspace
<1>7. rest = IF Pending(TextRow(t, c), BackRow(t, c), ReturnRow(t, c)) THEN <<>> ELSE s
  BY <1>4 DEF IsLeft
<1> QED BY <1>1, <1>2, <1>5, <1>6, <1>7 DEF Current

LEMMA TextStep ==
  ASSUME NEW t \in Seq(Class), NEW b \in Printed, NEW s, NEW p, Current(t, s, p), Outside(t),
         Count(Append(t, b)) = Count(t), NEW rest, IsLeft(rest, s, p)
  PROVE  Current(Append(t, b), Append(rest, Len(t) + 1), FALSE)
<1>0. b \in Class
  BY DEF Class
<1> DEFINE c == Count(t)
           u == Append(t, b)
<1>1. /\ TextRow(u, c) = TextRow(t, c) \cup {Len(t) + 1}
      /\ BackRow(u, c) = BackRow(t, c)
      /\ ReturnRow(u, c) = ReturnRow(t, c)
  BY <1>0, RowsOfOne
<1>2. Len(t) \in Nat /\ Len(u) = Len(t) + 1
  BY <1>0, Grown
<1>3. /\ TextRow(t, c) \in SUBSET (1 .. Len(t))
      /\ BackRow(t, c) \in SUBSET (1 .. Len(t))
      /\ ReturnRow(t, c) \in SUBSET (1 .. Len(t))
      /\ (TextRow(t, c) \cup BackRow(t, c)) \cap ReturnRow(t, c) = {}
  BY RowsTyped
<1>4. /\ LineSays(TextRow(t, c), BackRow(t, c), ReturnRow(t, c), Len(t), s)
      /\ p \in BOOLEAN /\ (p <=> Pending(TextRow(t, c), BackRow(t, c), ReturnRow(t, c)))
  BY DEF Current
<1>5. LineSays(TextRow(t, c) \cup {Len(t) + 1}, BackRow(t, c), ReturnRow(t, c), Len(t) + 1,
               Append(IF Pending(TextRow(t, c), BackRow(t, c), ReturnRow(t, c))
                      THEN <<>> ELSE s, Len(t) + 1))
  BY <1>2, <1>3, <1>4, LineText
<1>6. ~Pending(TextRow(t, c) \cup {Len(t) + 1}, BackRow(t, c), ReturnRow(t, c))
  BY <1>2, <1>3, KeptText
<1>7. rest = IF Pending(TextRow(t, c), BackRow(t, c), ReturnRow(t, c)) THEN <<>> ELSE s
  BY <1>4 DEF IsLeft
<1> QED BY <1>1, <1>2, <1>5, <1>6, <1>7 DEF Current

-----------------------------------------------------------------------------
(* Until the output ends the machine is where the output says; afterwards  *)
(* nothing moves.                                                          *)
LinesInv ==
  /\ bytes \in Seq(Class)
  /\ ~ended => /\ AnsiSays(bytes, ansi)
               /\ Complete(bytes, lines)
               /\ Current(bytes, line, pending_cr)
  /\ ended => LinesExact

LEMMA WhileRunning == LinesInv /\ ~ended => LinesExact
<1> SUFFICES ASSUME LinesInv, ~ended PROVE LinesExact
  OBVIOUS
<1>1. /\ bytes \in Seq(Class) /\ Complete(bytes, lines) /\ Current(bytes, line, pending_cr)
  BY DEF LinesInv
<1>2. Shown(bytes, Count(bytes)) = line
  BY <1>1, CurrentShown
<1>3. lines = [i \in 1 .. Count(bytes) |-> Shown(bytes, i - 1)]
  BY <1>1 DEF Complete
<1> QED BY <1>2, <1>3 DEF LinesExact, Count

LEMMA LinesInitHolds == LinesInit => LinesInv
<1> SUFFICES ASSUME LinesInit PROVE LinesInv
  OBVIOUS
<1>1. /\ bytes = <<>> /\ line = <<>> /\ lines = <<>> /\ pending_cr = FALSE
      /\ ansi = "Normal" /\ ~ended
  BY DEF LinesInit
<1>2. bytes \in Seq(Class) /\ Len(bytes) = 0 /\ 1 .. 0 = {}
  BY <1>1
<1>3. \A class : At(bytes, class) = {}
  BY <1>2 DEF At
<1>4. Newlines(bytes) = {} /\ Count(bytes) = 0
  BY <1>3, FS_EmptySet DEF Newlines, Count
<1>5. AnsiSays(bytes, ansi)
  <2>1. Covers(bytes)[0] = 0
    BY <1>2, CoverSteps
  <2> QED BY <1>1, <1>2, <2>1 DEF AnsiSays
<1>6. Complete(bytes, lines)
  <2>1. <<>> \in Seq(Seq(Nat)) /\ Len(<<>>) = 0
    OBVIOUS
  <2> QED BY <1>1, <1>2, <1>4, <2>1 DEF Complete
<1>7. Current(bytes, line, pending_cr)
  <2>1. /\ TextRow(bytes, Count(bytes)) = {} /\ BackRow(bytes, Count(bytes)) = {}
        /\ ReturnRow(bytes, Count(bytes)) = {}
    BY <1>3 DEF TextRow, BackRow, ReturnRow, Row
  <2>2. Kept({}, {}, {}, Len(bytes)) = {} /\ ~Pending({}, {}, {})
    BY DEF Kept, Pending
  <2>3. LineSays({}, {}, {}, Len(bytes), <<>>)
    BY <2>2, LineNone
  <2> QED BY <1>1, <2>1, <2>2, <2>3 DEF Current
<1> QED BY <1>1, <1>2, <1>5, <1>6, <1>7 DEF LinesInv

LEMMA FlushStep == LinesInv /\ Flush => LinesInv'
<1> SUFFICES ASSUME LinesInv, Flush PROVE LinesInv'
  OBVIOUS
<1>1. /\ bytes \in Seq(Class) /\ Complete(bytes, lines) /\ Current(bytes, line, pending_cr)
      /\ bytes' = bytes /\ ended' = TRUE
      /\ lines' = (IF line = <<>> THEN lines ELSE Append(lines, line))
  BY DEF LinesInv, Flush
<1>2. line \in Seq(Nat) /\ Shown(bytes, Count(bytes)) = line
  BY <1>1, CurrentShown
<1>3. lines \in Seq(Seq(Nat)) /\ lines = [i \in 1 .. Count(bytes) |-> Shown(bytes, i - 1)]
  BY <1>1 DEF Complete
<1>4. lines' \o <<>> = lines \o (IF line = <<>> THEN <<>> ELSE <<line>>)
  <2>1. CASE line = <<>>
    BY <1>1, <1>3, <2>1
  <2>2. CASE line # <<>>
    <3>1. Append(lines, line) \o <<>> = Append(lines, line)
      BY <1>2, <1>3
    <3>2. Append(lines, line) = lines \o <<line>>
      BY <1>2, <1>3, AppendIsConcat
    <3> QED BY <1>1, <2>2, <3>1, <3>2
  <2> QED BY <2>1, <2>2
<1>5. LinesExact'
  BY <1>1, <1>2, <1>3, <1>4 DEF LinesExact, Count
<1> QED BY <1>1, <1>5 DEF LinesInv

LEMMA ByteStep ==
  ASSUME LinesInv, NEW b \in Class, Output(b)
  PROVE  /\ ~ended /\ ~ended' /\ bytes' = Append(bytes, b)
         /\ bytes \in Seq(Class) /\ bytes' \in Seq(Class) /\ Len(bytes') = Len(bytes) + 1
         /\ AnsiSays(bytes, ansi) /\ (ansi = "Normal" <=> Outside(bytes))
         /\ Complete(bytes, lines) /\ Current(bytes, line, pending_cr)
<1>1. ~ended /\ ~ended' /\ bytes' = Append(bytes, b) /\ bytes \in Seq(Class)
  BY DEF LinesInv, Output
<1>2. bytes' \in Seq(Class) /\ Len(bytes') = Len(bytes) + 1
  BY <1>1, Grown
<1>3. AnsiSays(bytes, ansi) /\ Complete(bytes, lines) /\ Current(bytes, line, pending_cr)
  BY <1>1 DEF LinesInv
<1>4. ansi = "Normal" <=> Outside(bytes)
  BY <1>1, <1>3, AnsiSaysNormal DEF Outside
<1> QED BY <1>1, <1>2, <1>3, <1>4

LEMMA LinesStep == LinesInv /\ [LinesNext]_machine => LinesInv'
<1> SUFFICES ASSUME LinesInv, [LinesNext]_machine PROVE LinesInv'
  OBVIOUS
<1>1. ASSUME NEW b \in Class, InEscape(b) PROVE LinesInv'
  <2>1. /\ Output(b) /\ ansi # "Normal" /\ ansi' = NextAnsi(b)
        /\ line' = line /\ pending_cr' = pending_cr /\ lines' = lines
    BY <1>1 DEF InEscape
  <2>2. /\ ~ended' /\ bytes' = Append(bytes, b) /\ bytes \in Seq(Class)
        /\ bytes' \in Seq(Class) /\ AnsiSays(bytes, ansi) /\ ~Outside(bytes)
        /\ Complete(bytes, lines) /\ Current(bytes, line, pending_cr)
    BY <2>1, ByteStep
  <2>3. AnsiSays(bytes', ansi')
    BY <2>1, <2>2, AnsiStep
  <2>4. Complete(bytes', lines') /\ Count(Append(bytes, b)) = Count(bytes)
    BY <2>1, <2>2, CompleteStays
  <2>5. Current(bytes', line', pending_cr')
    BY <2>1, <2>2, <2>4, QuietStep
  <2> QED BY <2>2, <2>3, <2>4, <2>5 DEF LinesInv
<1>2. CASE StartEscape
  <2>0. "esc" \in Class
    BY DEF Class
  <2>1. /\ Output("esc") /\ ansi = "Normal" /\ ansi' = "Esc"
        /\ line' = line /\ pending_cr' = pending_cr /\ lines' = lines
    BY <1>2 DEF StartEscape
  <2>2. /\ ~ended' /\ bytes' = Append(bytes, "esc") /\ bytes \in Seq(Class)
        /\ bytes' \in Seq(Class) /\ AnsiSays(bytes, ansi)
        /\ Complete(bytes, lines) /\ Current(bytes, line, pending_cr)
    BY <2>0, <2>1, ByteStep
  <2>3. AnsiSays(bytes', ansi')
    BY <2>0, <2>1, <2>2, AnsiStep
  <2>4. Complete(bytes', lines') /\ Count(Append(bytes, "esc")) = Count(bytes)
    BY <2>0, <2>1, <2>2, CompleteStays
  <2>5. Current(bytes', line', pending_cr')
    BY <2>0, <2>1, <2>2, <2>4, QuietStep
  <2> QED BY <2>2, <2>3, <2>4, <2>5 DEF LinesInv
<1>3. ASSUME NEW b \in Class, b # "esc", Visible(b)
      PROVE  /\ ~ended' /\ bytes' = Append(bytes, b) /\ bytes \in Seq(Class)
             /\ bytes' \in Seq(Class) /\ Len(bytes') = Len(bytes) + 1 /\ Outside(bytes)
             /\ Complete(bytes, lines) /\ Current(bytes, line, pending_cr)
             /\ AnsiSays(bytes', ansi')
             /\ b # "nl" => Complete(bytes', lines) /\ Count(Append(bytes, b)) = Count(bytes)
  <2>1. Output(b) /\ ansi = "Normal" /\ ansi' = ansi
    BY <1>3 DEF Visible
  <2>2. /\ ~ended' /\ bytes' = Append(bytes, b) /\ bytes \in Seq(Class)
        /\ bytes' \in Seq(Class) /\ Len(bytes') = Len(bytes) + 1
        /\ AnsiSays(bytes, ansi) /\ Outside(bytes)
        /\ Complete(bytes, lines) /\ Current(bytes, line, pending_cr)
    BY <2>1, ByteStep
  <2>3. AnsiSays(bytes', ansi')
    BY <1>3, <2>1, <2>2, AnsiStep
  <2>4. b # "nl" => Complete(bytes', lines) /\ Count(Append(bytes, b)) = Count(bytes)
    BY <2>2, CompleteStays
  <2> QED BY <2>2, <2>3, <2>4
<1>4. /\ "nl" \in Class /\ "cr" \in Class /\ "bs" \in Class /\ "bel" \in Class
      /\ Printed \subseteq Class /\ "esc" \notin Printed /\ "nl" \notin Printed
  BY DEF Class, Printed, Final
<1>5. CASE Newline
  <2>1. /\ Visible("nl") /\ line' = <<>> /\ pending_cr' = FALSE /\ lines' = Append(lines, line)
    BY <1>5 DEF Newline
  <2>2. /\ ~ended' /\ bytes' = Append(bytes, "nl") /\ bytes \in Seq(Class)
        /\ bytes' \in Seq(Class) /\ Outside(bytes)
        /\ Complete(bytes, lines) /\ Current(bytes, line, pending_cr)
        /\ AnsiSays(bytes', ansi')
    BY <1>3, <1>4, <2>1
  <2>3. Complete(bytes', lines') /\ Current(bytes', line', pending_cr')
    BY <2>1, <2>2, NewlineStep
  <2> QED BY <2>2, <2>3 DEF LinesInv
<1>6. CASE CarriageReturn
  <2>1. /\ Visible("cr") /\ line' = line /\ pending_cr' = TRUE /\ lines' = lines
    BY <1>6 DEF CarriageReturn
  <2>2. /\ ~ended' /\ bytes' = Append(bytes, "cr") /\ bytes \in Seq(Class)
        /\ bytes' \in Seq(Class) /\ Outside(bytes) /\ Current(bytes, line, pending_cr)
        /\ AnsiSays(bytes', ansi') /\ Complete(bytes', lines)
        /\ Count(Append(bytes, "cr")) = Count(bytes)
    BY <1>3, <1>4, <2>1
  <2>3. Current(bytes', line', pending_cr')
    BY <2>1, <2>2, ReturnStep
  <2> QED BY <2>1, <2>2, <2>3 DEF LinesInv
<1>7. CASE Backspace
  <2>1. /\ Visible("bs") /\ line' = Shorter(Rewritten)
        /\ pending_cr' = FALSE /\ lines' = lines
    BY <1>7 DEF Backspace, Shorter
  <2>2. /\ ~ended' /\ bytes' = Append(bytes, "bs") /\ bytes \in Seq(Class)
        /\ bytes' \in Seq(Class) /\ Outside(bytes) /\ Current(bytes, line, pending_cr)
        /\ AnsiSays(bytes', ansi') /\ Complete(bytes', lines)
        /\ Count(Append(bytes, "bs")) = Count(bytes)
    BY <1>3, <1>4, <2>1
  <2>3. Current(bytes', line', pending_cr')
    <3>1. PICK rest : rest = Rewritten
      OBVIOUS
    <3>2. IsLeft(rest, line, pending_cr)
      BY <3>1 DEF Rewritten, IsLeft
    <3>3. Current(Append(bytes, "bs"), Shorter(rest), FALSE)
      BY <2>2, <3>2, BackspaceStep
    <3> QED BY <2>1, <2>2, <3>1, <3>3
  <2> QED BY <2>1, <2>2, <2>3 DEF LinesInv
<1>8. CASE OtherControl
  <2>1. /\ Visible("bel") /\ line' = line /\ pending_cr' = pending_cr /\ lines' = lines
    BY <1>8 DEF OtherControl
  <2>2. /\ ~ended' /\ bytes' = Append(bytes, "bel") /\ bytes \in Seq(Class)
        /\ bytes' \in Seq(Class) /\ Current(bytes, line, pending_cr)
        /\ AnsiSays(bytes', ansi') /\ Complete(bytes', lines)
        /\ Count(Append(bytes, "bel")) = Count(bytes)
    BY <1>3, <1>4, <2>1
  <2>3. Current(bytes', line', pending_cr')
    BY <1>4, <2>1, <2>2, QuietStep
  <2> QED BY <2>1, <2>2, <2>3 DEF LinesInv
<1>9. ASSUME NEW b \in Printed, PutByte(b) PROVE LinesInv'
  <2>0. b \in Class /\ b # "esc" /\ b # "nl"
    BY <1>4
  <2>1. /\ Visible(b) /\ line' = Append(Rewritten, Len(bytes'))
        /\ pending_cr' = FALSE /\ lines' = lines
    BY <1>9 DEF PutByte
  <2>2. /\ ~ended' /\ bytes' = Append(bytes, b) /\ bytes \in Seq(Class)
        /\ bytes' \in Seq(Class) /\ Len(bytes') = Len(bytes) + 1
        /\ Outside(bytes) /\ Current(bytes, line, pending_cr)
        /\ AnsiSays(bytes', ansi') /\ Complete(bytes', lines)
        /\ Count(Append(bytes, b)) = Count(bytes)
    BY <1>3, <2>0, <2>1
  <2>3. Current(bytes', line', pending_cr')
    <3>1. PICK rest : rest = Rewritten
      OBVIOUS
    <3>2. IsLeft(rest, line, pending_cr)
      BY <3>1 DEF Rewritten, IsLeft
    <3>3. Current(Append(bytes, b), Append(rest, Len(bytes) + 1), FALSE)
      BY <2>2, <3>2, TextStep
    <3> QED BY <2>1, <2>2, <3>1, <3>3
  <2> QED BY <2>1, <2>2, <2>3 DEF LinesInv
<1>10. CASE Flush
  BY <1>10, FlushStep
<1>11. CASE UNCHANGED machine
  BY <1>11 DEF LinesInv, LinesExact, machine
<1> QED BY <1>1, <1>2, <1>5, <1>6, <1>7, <1>8, <1>9, <1>10, <1>11 DEF LinesNext

(* For outputs of any length: each line, and the one not yet ended, is     *)
(* what the whole output defines it to be (floor.rs:71-76, 145-185).       *)
THEOREM LinesExactHolds == LinesSpec => []LinesExact
<1>1. LinesInv => LinesExact
  BY WhileRunning DEF LinesInv
<1> QED BY <1>1, LinesInitHolds, LinesStep, PTL DEF LinesSpec
=============================================================================

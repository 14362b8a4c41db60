---------------------------- MODULE SessionUiProofs ----------------------------
(***************************************************************************)
(* Proofs about the transport, about the session UI that drives it and     *)
(* about the chord parser, for every set of keys, every capacity of the    *)
(* two channels and any number of messages, frames and keystrokes.         *)
(***************************************************************************)
EXTENDS SessionUi, ChordReads, FiniteSetTheorems, SequenceTheorems, TLAPS

-----------------------------------------------------------------------------
(***************************************************************************)
(* The transport, under a frontend that queues anything.                   *)
(***************************************************************************)
(* While the pump runs, the history of the channel is what was sent, then  *)
(* the message in hand, then what is queued.                               *)
Accounted ==
  pump \in Running =>
    /\ Len(queued) = Len(wire) + Len(outgoing) + Len(inq)
    /\ \A i \in 1 .. Len(outgoing) : queued[Len(wire) + i] = outgoing[i]
    /\ \A i \in 1 .. Len(inq) : queued[Len(wire) + Len(outgoing) + i] = inq[i]

IInv ==
  TransportTypeOK /\ Accounted /\ WireIsPrefix /\ NothingAfterStop /\ ClosedIsDrained

(* What may be sent is a message that carries bytes.                       *)
LEMMA Sendable ==
  ASSUME NEW msg \in Outbound, msg.type # "Stop"
  PROVE  msg.bytes \in Byte
BY DEF Outbound

LEMMA InitHolds == TransportInit => IInv
BY QueueCapAssumption DEF TransportInit, IInv, TransportTypeOK, Accounted, WireIsPrefix, NothingAfterStop,
       ClosedIsDrained, Running, Ended

-----------------------------------------------------------------------------
LEMMA SendStep ==
  ASSUME IInv, NEW msg \in Outbound, Send(msg)
  PROVE  IInv'
<1> USE DEF Send, HasRoom
<1>0. /\ inq \in Seq(Outbound) /\ queued \in Seq(Outbound) /\ outgoing \in Seq(Outbound)
      /\ Len(wire) \in Nat
  BY DEF IInv, TransportTypeOK
<1>a. inq' \in Seq(Outbound) /\ Len(inq') = Len(inq) + 1 /\ Len(inq') =< QueueCap
      /\ inq'[Len(inq) + 1] = msg /\ \A i \in 1 .. Len(inq) : inq'[i] = inq[i]
  BY <1>0, QueueCapAssumption
<1>b. queued' \in Seq(Outbound) /\ Len(queued') = Len(queued) + 1
      /\ queued'[Len(queued) + 1] = msg /\ \A i \in 1 .. Len(queued) : queued'[i] = queued[i]
  BY <1>0
<1>c. UNCHANGED <<in_tx, pump, outgoing, wire, frames>> /\ pump \in Running
  OBVIOUS
<1> HIDE DEF Send, HasRoom
<1>1. TransportTypeOK'
  BY <1>a, <1>b, <1>c, QueueCapAssumption DEF IInv, TransportTypeOK
<1>2. Accounted'
  <2>1. /\ Len(queued) = Len(wire) + Len(outgoing) + Len(inq)
        /\ \A i \in 1 .. Len(outgoing) : queued[Len(wire) + i] = outgoing[i]
        /\ \A i \in 1 .. Len(inq) : queued[Len(wire) + Len(outgoing) + i] = inq[i]
    BY <1>c DEF IInv, Accounted
  <2>2. Len(wire) \in Nat /\ Len(outgoing) \in Nat /\ Len(inq) \in Nat
    BY <1>0
  <2>4. Len(queued') = Len(wire) + Len(outgoing) + Len(inq')
    BY <1>a, <1>b, <2>1, <2>2
  <2>5. \A i \in 1 .. Len(outgoing) : queued'[Len(wire) + i] = outgoing[i]
    <3> SUFFICES ASSUME NEW i \in 1 .. Len(outgoing)
                 PROVE  queued'[Len(wire) + i] = outgoing[i]
      OBVIOUS
    <3>1. Len(wire) + i \in 1 .. Len(queued)
      BY <2>1, <2>2
    <3> QED BY <1>b, <2>1, <3>1
  <2>6. ASSUME NEW i \in 1 .. Len(inq')
        PROVE  queued'[Len(wire) + Len(outgoing) + i] = inq'[i]
    <3>1. CASE i = Len(inq) + 1
      <4>1. Len(wire) + Len(outgoing) + i = Len(queued) + 1
        BY <2>1, <2>2, <3>1
      <4> QED BY <1>a, <1>b, <3>1, <4>1
    <3>2. CASE i \in 1 .. Len(inq)
      <4>1. Len(wire) + Len(outgoing) + i \in 1 .. Len(queued)
        BY <2>1, <2>2, <3>2
      <4> QED BY <1>a, <1>b, <2>1, <3>2, <4>1
    <3>3. i = Len(inq) + 1 \/ i \in 1 .. Len(inq)
      BY <1>a, <2>2
    <3> QED BY <3>1, <3>2, <3>3
  <2> QED BY <1>c, <2>4, <2>5, <2>6 DEF Accounted
<1>3. WireIsPrefix'
  BY <1>0, <1>b, <1>c DEF IInv, WireIsPrefix
<1>4. NothingAfterStop'
  <2>1. \A i \in 1 .. Len(wire) : i \in 1 .. Len(queued) /\ queued[i].type # "BytesThenStop"
    BY <1>0, <1>c DEF IInv, NothingAfterStop, WireIsPrefix, Running
  <2>2. \A i \in 1 .. Len(wire) : queued'[i].type # "BytesThenStop"
    BY <1>b, <2>1
  <2> QED BY <1>c, <2>2 DEF NothingAfterStop
<1>5. ClosedIsDrained'
  BY <1>c DEF ClosedIsDrained, Running
<1> QED BY <1>1, <1>2, <1>3, <1>4, <1>5 DEF IInv

(* When run returns, only the pump's state and the channel are gone.       *)
LEMMA EndStep ==
  ASSUME IInv, NEW how \in Ended, End(how), UNCHANGED <<in_tx, wire, frames, queued>>,
         pump # "stopped",
         how = "closed" => Len(wire) = Len(queued)
  PROVE  IInv'
<1> USE DEF End
<1>1. TransportTypeOK'
  BY QueueCapAssumption DEF IInv, TransportTypeOK, Running, Ended
<1>2. Accounted'
  BY DEF Accounted, Running, Ended
<1>3. WireIsPrefix'
  BY DEF IInv, WireIsPrefix
<1>4. NothingAfterStop'
  BY DEF IInv, NothingAfterStop
<1>5. ClosedIsDrained'
  BY DEF ClosedIsDrained
<1> QED BY <1>1, <1>2, <1>3, <1>4, <1>5 DEF IInv

LEMMA TakeInputStep == IInv /\ TakeInput => IInv'
<1> SUFFICES ASSUME IInv, TakeInput PROVE IInv'
  OBVIOUS
<1>1. CASE Head(inq).type = "Stop"
  BY <1>1, EndStep DEF TakeInput, Ended
<1>2. CASE Head(inq).type # "Stop"
  <2> USE <1>2 DEF TakeInput
  <2>0. inq \in Seq(Outbound) /\ inq # <<>> /\ Len(wire) \in Nat /\ Len(inq) =< QueueCap
    BY DEF IInv, TransportTypeOK
  <2>1. /\ Head(inq) \in Outbound /\ Head(inq) = inq[1] /\ Len(inq) \in Nat \ {0}
        /\ Tail(inq) \in Seq(Outbound) /\ Len(Tail(inq)) = Len(inq) - 1
        /\ \A i \in 1 .. Len(inq) - 1 : Tail(inq)[i] = inq[i + 1]
    BY <2>0
  <2>2. outgoing = <<>> /\ Len(outgoing) = 0
    BY DEF IInv, TransportTypeOK
  <2>a. /\ outgoing' \in Seq(Outbound) /\ Len(outgoing') = 1
        /\ outgoing'[1] = inq[1] /\ inq' = Tail(inq) /\ pump' = "send"
    <3>1. outgoing' = <<Head(inq)>> /\ inq' = Tail(inq) /\ pump' = "send"
      OBVIOUS
    <3>2. <<Head(inq)>> \in Seq(Outbound)
      BY <2>1
    <3> QED BY <2>1, <3>1, <3>2
  <2>3. TransportTypeOK'
    BY <2>0, <2>1, <2>a, QueueCapAssumption DEF IInv, TransportTypeOK, Running
  <2>4. Accounted'
    <3>1. /\ Len(queued) = Len(wire) + Len(inq)
          /\ \A i \in 1 .. Len(inq) : queued[Len(wire) + i] = inq[i]
      BY <2>0, <2>2 DEF IInv, Accounted, Running
    <3> QED BY <2>0, <2>1, <2>a, <3>1 DEF Accounted
  <2>5. WireIsPrefix' /\ NothingAfterStop' /\ ClosedIsDrained'
    BY DEF IInv, WireIsPrefix, NothingAfterStop, ClosedIsDrained
  <2> QED BY <2>3, <2>4, <2>5 DEF IInv
<1> QED BY <1>1, <1>2

LEMMA InputClosedStep == IInv /\ InputClosed => IInv'
<1> SUFFICES ASSUME IInv, InputClosed PROVE IInv'
  OBVIOUS
<1>1. Len(inq) = 0 /\ Len(outgoing) = 0
  BY DEF InputClosed, IInv, TransportTypeOK
<1>2. Len(wire) = Len(queued)
  BY <1>1 DEF InputClosed, IInv, TransportTypeOK, Accounted, Running
<1> QED BY <1>2, EndStep DEF InputClosed, Ended

LEMMA SentStep == IInv /\ Sent => IInv'
<1> SUFFICES ASSUME IInv, Sent PROVE IInv'
  OBVIOUS
<1> USE DEF Sent
<1>1. /\ Len(outgoing) = 1 /\ outgoing[1] \in Outbound /\ outgoing[1].type # "Stop"
      /\ outgoing[1].bytes \in Byte
  <2>1. outgoing \in Seq(Outbound) /\ Len(outgoing) = 1 /\ outgoing[1].type # "Stop"
    BY DEF IInv, TransportTypeOK
  <2>2. outgoing[1] \in Outbound
    BY <2>1, 1 \in 1 .. Len(outgoing), ElementOfSeq
  <2> QED BY <2>1, <2>2, Sendable
<1>2. /\ Len(queued) = Len(wire) + 1 + Len(inq)
      /\ queued[Len(wire) + 1] = outgoing[1]
      /\ \A i \in 1 .. Len(inq) : queued[Len(wire) + 1 + i] = inq[i]
  BY <1>1 DEF IInv, Accounted, Running
<1>3. /\ wire' \in Seq(Byte) /\ Len(wire') = Len(wire) + 1
      /\ wire'[Len(wire) + 1] = outgoing[1].bytes
      /\ \A i \in 1 .. Len(wire) : wire'[i] = wire[i]
  BY <1>1 DEF IInv, TransportTypeOK
<1>4. WireIsPrefix'
  BY <1>1, <1>2, <1>3 DEF IInv, TransportTypeOK, WireIsPrefix
<1>5. \A i \in 1 .. Len(wire) : queued[i].type # "BytesThenStop"
  BY DEF IInv, NothingAfterStop
<1>6. CASE outgoing[1].type = "BytesThenStop"
  <2> USE <1>6 DEF End
  <2>1. TransportTypeOK'
    BY <1>3, QueueCapAssumption DEF IInv, TransportTypeOK, Running, Ended
  <2>2. Accounted' /\ ClosedIsDrained'
    BY DEF Accounted, ClosedIsDrained, Running
  <2>3. NothingAfterStop'
    BY <1>3, <1>5 DEF IInv, TransportTypeOK, NothingAfterStop
  <2> QED BY <2>1, <2>2, <2>3, <1>4 DEF IInv
<1>7. CASE outgoing[1].type # "BytesThenStop"
  <2> USE <1>7
  <2>1. TransportTypeOK'
    BY <1>3, QueueCapAssumption DEF IInv, TransportTypeOK, Running, Ended
  <2>2. Accounted'
    BY <1>2, <1>3 DEF IInv, TransportTypeOK, Accounted
  <2>3. NothingAfterStop'
    <3>1. Len(wire) \in Nat /\ queued' = queued
      BY DEF IInv, TransportTypeOK
    <3>2. \A i \in 1 .. Len(wire') : queued'[i].type # "BytesThenStop"
      BY <1>2, <1>3, <1>5, <3>1
    <3> QED BY <3>2 DEF NothingAfterStop
  <2>4. ClosedIsDrained'
    BY DEF ClosedIsDrained
  <2> QED BY <2>1, <2>2, <2>3, <2>4, <1>4 DEF IInv
<1> QED BY <1>6, <1>7

LEMMA LostStep == IInv /\ (SendFails \/ SocketEnds) => IInv'
BY EndStep DEF SendFails, SocketEnds, Ended

LEMMA OutputStep == IInv /\ (RecvFrame \/ OutputReturns \/ DropSender) => IInv'
<1> SUFFICES ASSUME IInv, RecvFrame \/ OutputReturns \/ DropSender PROVE IInv'
  OBVIOUS
<1> USE DEF RecvFrame, OutputReturns, DropSender
<1>1. TransportTypeOK'
  <2>1. UNCHANGED <<inq, outgoing, wire, queued>>
    OBVIOUS
  <2>2. frames' \in Nat /\ pump' \in Running \cup Ended
    BY DEF IInv, TransportTypeOK, Running, Ended
  <2>4. in_tx' \in BOOLEAN
    <3>1. in_tx' = in_tx \/ in_tx' = FALSE
      OBVIOUS
    <3> QED BY <3>1, Zenon DEF IInv, TransportTypeOK
  <2>3. pump' = pump \/ (pump # "send" /\ pump' # "send")
    OBVIOUS
  <2> QED BY <2>1, <2>2, <2>3, <2>4 DEF IInv, TransportTypeOK
<1>2. Accounted'
  BY DEF IInv, Accounted, Running
<1>3. WireIsPrefix' /\ NothingAfterStop' /\ ClosedIsDrained'
  BY DEF IInv, WireIsPrefix, NothingAfterStop, ClosedIsDrained
<1> QED BY <1>1, <1>2, <1>3 DEF IInv

LEMMA StutterStep == IInv /\ UNCHANGED transport => IInv'
BY DEF IInv, transport, TransportTypeOK, Accounted, WireIsPrefix, NothingAfterStop,
       ClosedIsDrained

-----------------------------------------------------------------------------
(* The invariant is inductive. *)
THEOREM InvariantHolds == TransportSpec => []IInv
<1>1. IInv /\ [TransportNext]_transport => IInv'
  BY SendStep, TakeInputStep, InputClosedStep, SentStep, LostStep, OutputStep, StutterStep
     DEF TransportNext, Pump
<1> QED BY InitHolds, <1>1, PTL DEF TransportSpec

(* Types of the channel and the pump. *)
THEOREM TransportTypeCorrect == TransportSpec => []TransportTypeOK
BY InvariantHolds, PTL DEF IInv

(* The peer gets a prefix of what the frontend queued (transport.rs:39-51). *)
THEOREM SendsInOrder == TransportSpec => []WireIsPrefix
BY InvariantHolds, PTL DEF IInv

(* A message that stops the loop is the last one sent (transport.rs:44-51). *)
THEOREM StopsAtStop == TransportSpec => []NothingAfterStop
BY InvariantHolds, PTL DEF IInv

(* Closing the input loses nothing (transport.rs:42-45).                   *)
THEOREM ClosingDrains == TransportSpec => []ClosedIsDrained
BY InvariantHolds, PTL DEF IInv

(* Nothing is left in the channel of a session that ended.                 *)
Emptied == pump \in Ended => inq = <<>>

LEMMA EmptiedHolds == TransportSpec => []Emptied
<1>1. TransportInit => Emptied
  BY DEF TransportInit, Emptied, Ended
<1>2. Emptied /\ [TransportNext]_transport => Emptied'
  BY DEF Emptied, TransportNext, Pump, TakeInput, InputClosed, Sent, SendFails, RecvFrame,
     OutputReturns, SocketEnds, DropSender, Send, HasRoom, End, transport, Running, Ended
<1> QED BY <1>1, <1>2, PTL DEF TransportSpec

-----------------------------------------------------------------------------
(***************************************************************************)
(* Induction over numbers, stated with a set instead of a predicate: what  *)
(* the proofs about folds and flattened sequences use.                     *)
(***************************************************************************)
(* Were a number missing, the numbers missing up to it could be mapped, by *)
(* the predecessor, into one number less.                                  *)
LEMMA BoundedInduction ==
  ASSUME NEW n \in Nat, NEW Good, 0 \in Good,
         \A k \in 0 .. n - 1 : k \in Good => k + 1 \in Good
  PROVE  0 .. n \subseteq Good
<1> SUFFICES ASSUME NEW m \in 0 .. n, m \notin Good PROVE FALSE
  OBVIOUS
<1> DEFINE Bad == {k \in 0 .. m : k \notin Good}
           f == [k \in Bad |-> k - 1]
<1>1. \A k \in Bad : k - 1 \in Bad \ {m}
  OBVIOUS
<1>2. IsFiniteSet(Bad)
  <2>1. IsFiniteSet(0 .. m)
    BY FS_Interval
  <2>2. Bad \in SUBSET (0 .. m)
    OBVIOUS
  <2> HIDE DEF Bad
  <2> QED BY <2>1, <2>2, FS_Subset
<1>3. m \in Bad
  OBVIOUS
<1>4. \A k \in Bad : k \in Int
  OBVIOUS
<1> HIDE DEF Bad
<1>5. /\ IsFiniteSet(Bad \ {m}) /\ Cardinality(Bad \ {m}) = Cardinality(Bad) - 1
      /\ Cardinality(Bad) \in Nat
  BY <1>2, <1>3, FS_RemoveElement, FS_CardinalityType
<1>6. f \in [Bad -> Bad \ {m}]
  BY <1>1
<1> HIDE DEF f
<1>7. \E x, y \in Bad : x # y /\ f[x] = f[y]
  <2>1. Cardinality(Bad \ {m}) < Cardinality(Bad)
    BY <1>5
  <2> QED BY <1>2, <1>5, <1>6, <2>1, FS_PigeonHole
<1> QED BY <1>4, <1>7 DEF f

LEMMA SetInduction ==
  ASSUME NEW Good, 0 \in Good, \A k \in Nat : k \in Good => k + 1 \in Good
  PROVE  Nat \subseteq Good
<1> SUFFICES ASSUME NEW n \in Nat PROVE n \in Good
  OBVIOUS
<1>1. \A k \in 0 .. n - 1 : k \in Good => k + 1 \in Good
  OBVIOUS
<1>2. 0 .. n \subseteq Good
  BY <1>1, BoundedInduction
<1> QED BY <1>2

(* A set of positions has a last one.                                      *)
LEMMA LastPosition ==
  ASSUME NEW n \in Nat, NEW t \in SUBSET (1 .. n), t # {}
  PROVE  \E m \in t : \A k \in t : m >= k
<1> DEFINE Good == {k \in 0 .. n : \A u \in SUBSET (1 .. k) : u # {} =>
                                    \E m \in u : \A j \in u : m >= j}
<1>1. 0 \in Good
  <2>1. \A u \in SUBSET (1 .. 0) : u = {}
    OBVIOUS
  <2>2. 0 \in 0 .. n
    OBVIOUS
  <2> QED BY <2>1, <2>2
<1>2. \A k \in 0 .. n - 1 : k \in Good => k + 1 \in Good
  <2> SUFFICES ASSUME NEW k \in 0 .. n - 1, k \in Good, NEW u \in SUBSET (1 .. k + 1), u # {}
               PROVE  \E m \in u : \A j \in u : m >= j
    OBVIOUS
  <2>1. CASE k + 1 \in u
    <3>1. \A j \in u : k + 1 >= j
      OBVIOUS
    <3> QED BY <2>1, <3>1
  <2>2. CASE k + 1 \notin u
    <3>1. u \in SUBSET (1 .. k)
      BY <2>2
    <3> QED BY <3>1
  <2> QED BY <2>1, <2>2
<1>3. n \in Good
  <2> HIDE DEF Good
  <2> QED BY <1>1, <1>2, BoundedInduction
<1> QED BY <1>3

-----------------------------------------------------------------------------
(***************************************************************************)
(* Sequences of keystrokes: a sequence rises when the keys are in the      *)
(* order of typing, and sequences are in line when each rises and each     *)
(* comes before the next.                                                  *)
(***************************************************************************)
Rising(s) == \A i, j \in DOMAIN s : i < j => s[i] < s[j]
Before(A, B) == \A a \in A, b \in B : a < b
All(ss) == UNION {Range(ss[i]) : i \in DOMAIN ss}
InLine(ss) ==
  /\ \A i \in DOMAIN ss : Rising(ss[i])
  /\ \A i, j \in DOMAIN ss : i < j => Before(Range(ss[i]), Range(ss[j]))

LEMMA EmptyRises == <<>> \in Seq(Nat) /\ Rising(<<>>) /\ Range(<<>>) = {}
<1>1. <<>> \in Seq(Nat) /\ DOMAIN <<>> = {}
  OBVIOUS
<1> QED BY <1>1 DEF Rising, Range

LEMMA RangeOfConcat ==
  ASSUME NEW X, NEW s \in Seq(X), NEW t \in Seq(X)
  PROVE  s \o t \in Seq(X) /\ Range(s \o t) = Range(s) \cup Range(t)
BY RangeConcatenation, ConcatProperties

LEMMA RangeOfTwo ==
  ASSUME NEW s \in Seq(Nat), NEW t \in Seq(Nat)
  PROVE  Range(s \o t) = Range(s) \cup Range(t)
BY RangeOfConcat, ZenonT(60)

LEMMA RisingConcat ==
  ASSUME NEW s \in Seq(Nat), NEW t \in Seq(Nat), Rising(s), Rising(t),
         Before(Range(s), Range(t))
  PROVE  Rising(s \o t)
<1>1. /\ DOMAIN (s \o t) = 1 .. Len(s) + Len(t)
      /\ DOMAIN s = 1 .. Len(s) /\ DOMAIN t = 1 .. Len(t)
      /\ Len(s) \in Nat /\ Len(t) \in Nat
      /\ \A i \in 1 .. Len(s) : (s \o t)[i] = s[i]
  OBVIOUS
<1>2. ASSUME NEW i \in 1 .. Len(s) + Len(t), ~(i =< Len(s))
      PROVE  (s \o t)[i] = t[i - Len(s)] /\ i - Len(s) \in 1 .. Len(t)
  BY <1>2
<1>3. SUFFICES ASSUME NEW i \in 1 .. Len(s) + Len(t), NEW j \in 1 .. Len(s) + Len(t), i < j
               PROVE  (s \o t)[i] < (s \o t)[j]
  BY <1>1 DEF Rising
<1>4. CASE j =< Len(s)
  <2>1. /\ (s \o t)[i] = s[i] /\ i \in DOMAIN s
        /\ (s \o t)[j] = s[j] /\ j \in DOMAIN s
    BY <1>1, <1>3, <1>4
  <2> QED BY <1>3, <2>1 DEF Rising
<1>5. CASE i =< Len(s) /\ ~(j =< Len(s))
  <2>1. (s \o t)[i] = s[i] /\ i \in DOMAIN s /\ (s \o t)[j] = t[j - Len(s)] /\ j - Len(s) \in DOMAIN t
    BY <1>1, <1>2, <1>5
  <2> QED BY <2>1 DEF Before, Range
<1>6. CASE ~(i =< Len(s))
  <2>1. /\ (s \o t)[i] = t[i - Len(s)] /\ i - Len(s) \in DOMAIN t
        /\ (s \o t)[j] = t[j - Len(s)] /\ j - Len(s) \in DOMAIN t
        /\ i - Len(s) < j - Len(s)
    BY <1>1, <1>2, <1>3, <1>6
  <2> QED BY <2>1 DEF Rising
<1> QED BY <1>1, <1>3, <1>4, <1>5, <1>6

LEMMA InLineAppend ==
  ASSUME NEW ss \in Seq(Seq(Nat)), NEW s \in Seq(Nat), InLine(ss), Rising(s),
         Before(All(ss), Range(s))
  PROVE  /\ Append(ss, s) \in Seq(Seq(Nat)) /\ InLine(Append(ss, s))
         /\ All(Append(ss, s)) = All(ss) \cup Range(s)
<1> DEFINE new == Append(ss, s)
<1>1. /\ new \in Seq(Seq(Nat)) /\ DOMAIN new = 1 .. Len(ss) + 1
      /\ DOMAIN ss = 1 .. Len(ss) /\ Len(ss) \in Nat
      /\ \A i \in 1 .. Len(ss) : new[i] = ss[i]
      /\ new[Len(ss) + 1] = s
  OBVIOUS
<1> HIDE DEF new
<1>2. All(new) = All(ss) \cup Range(s)
  <2>1. ASSUME NEW x \in All(new) PROVE x \in All(ss) \cup Range(s)
    <3>1. PICK i \in 1 .. Len(ss) + 1 : x \in Range(new[i])
      BY <1>1 DEF All
    <3>2. CASE i = Len(ss) + 1
      BY <1>1, <3>1, <3>2
    <3>3. CASE i \in 1 .. Len(ss)
      BY <1>1, <3>1, <3>3 DEF All
    <3> QED BY <1>1, <3>2, <3>3
  <2>2. ASSUME NEW x \in All(ss) PROVE x \in All(new)
    BY <1>1 DEF All
  <2>3. ASSUME NEW x \in Range(s) PROVE x \in All(new)
    <3>1. Len(ss) + 1 \in DOMAIN new
      BY <1>1
    <3> QED BY <1>1, <3>1 DEF All
  <2> QED BY <2>1, <2>2, <2>3
<1>3. \A i \in DOMAIN new : Rising(new[i])
  <2>1. \A i \in 1 .. Len(ss) : Rising(new[i])
    BY <1>1 DEF InLine
  <2>2. \A i \in DOMAIN new : i \in 1 .. Len(ss) \/ i = Len(ss) + 1
    BY <1>1
  <2> QED BY <1>1, <2>1, <2>2
<1>4. ASSUME NEW i \in DOMAIN new, NEW j \in DOMAIN new, i < j
      PROVE  Before(Range(new[i]), Range(new[j]))
  <2>1. i \in 1 .. Len(ss)
    BY <1>1, <1>4
  <2>2. CASE j = Len(ss) + 1
    <3>1. Range(ss[i]) \subseteq All(ss)
      BY <1>1, <2>1 DEF All
    <3> QED BY <1>1, <2>1, <2>2, <3>1 DEF Before
  <2>3. CASE j \in 1 .. Len(ss)
    BY <1>1, <1>4, <2>1, <2>3 DEF InLine
  <2> QED BY <1>1, <2>2, <2>3
<1>5. InLine(new)
  BY <1>3, <1>4 DEF InLine
<1> QED BY <1>1, <1>2, <1>5 DEF new

-----------------------------------------------------------------------------
LEMMA MaxPosition ==
  ASSUME NEW n \in Nat, NEW t \in SUBSET (1 .. n), t # {}
  PROVE  Max(t) \in t /\ \A k \in t : Max(t) >= k
BY LastPosition DEF Max

LEMMA MaxOfInterval ==
  ASSUME NEW n \in Nat \ {0}
  PROVE  Max(1 .. n) = n /\ (1 .. n) \ {Max(1 .. n)} = 1 .. n - 1
<1>1. Max(1 .. n) \in 1 .. n /\ \A k \in 1 .. n : Max(1 .. n) >= k
  BY MaxPosition, n \in 1 .. n
<1>2. Max(1 .. n) = n
  BY <1>1, n \in 1 .. n
<1> QED BY <1>2

Iter(p, s, g, n) ==
  [t \in SUBSET (1 .. n) |->
     IF t = {} THEN p ELSE ConsumeByte(g[t \ {Max(t)}], s[Max(t)])]

LEMMA IterExists ==
  ASSUME NEW p, NEW s, NEW n \in Nat
  PROVE  \E g : g = Iter(p, s, g, n)
<1> DEFINE Good == {k \in Nat : \E g : g = Iter(p, s, g, k)}
<1>1. 0 \in Good
  <2>1. 1 .. 0 = {} /\ SUBSET (1 .. 0) = {{}}
    OBVIOUS
  <2>2. \A g : Iter(p, s, g, 0) = [t \in {{}} |-> p]
    BY <2>1 DEF Iter
  <2> QED BY <2>2
<1>2. \A k \in Nat : k \in Good => k + 1 \in Good
  <2> SUFFICES ASSUME NEW k \in Nat, NEW g, g = Iter(p, s, g, k)
               PROVE  \E h : h = Iter(p, s, h, k + 1)
    OBVIOUS
  <2> DEFINE h == Iter(p, s, g, k + 1)
  <2>1. ASSUME NEW t \in SUBSET (1 .. k + 1), t # {}
        PROVE  t \ {Max(t)} \in SUBSET (1 .. k)
    <3>0. k + 1 \in Nat
      OBVIOUS
    <3>1. Max(t) \in t /\ \A j \in t : Max(t) >= j
      BY <2>1, <3>0, MaxPosition, Zenon
    <3>2. ASSUME NEW j \in t, j # Max(t) PROVE j \in 1 .. k
      <4>1. j \in 1 .. k + 1 /\ Max(t) \in 1 .. k + 1 /\ Max(t) >= j
        BY <3>1
      <4> QED BY <3>2, <4>1
    <3> QED BY <3>2
  <2>2. ASSUME NEW u \in SUBSET (1 .. k) PROVE h[u] = g[u]
    <3>1. u \in SUBSET (1 .. k + 1)
      OBVIOUS
    <3>2. h[u] = IF u = {} THEN p ELSE ConsumeByte(g[u \ {Max(u)}], s[Max(u)])
      BY <3>1, Zenon DEF Iter
    <3>3. g[u] = IF u = {} THEN p ELSE ConsumeByte(g[u \ {Max(u)}], s[Max(u)])
      BY Zenon DEF Iter
    <3> QED BY <3>2, <3>3
  <2>3. h = Iter(p, s, h, k + 1)
    <3>1. \A t \in SUBSET (1 .. k + 1) : t # {} => h[t \ {Max(t)}] = g[t \ {Max(t)}]
      BY <2>1, <2>2
    <3> HIDE DEF h
    <3>2. \A t \in SUBSET (1 .. k + 1) :
            (IF t = {} THEN p ELSE ConsumeByte(g[t \ {Max(t)}], s[Max(t)]))
            = (IF t = {} THEN p ELSE ConsumeByte(h[t \ {Max(t)}], s[Max(t)]))
      BY <3>1
    <3>3. Iter(p, s, g, k + 1) = Iter(p, s, h, k + 1)
      BY <3>2, Zenon DEF Iter
    <3> QED BY <3>3 DEF h
  <2> QED BY <2>3
<1>3. n \in Good
  <2> HIDE DEF Good
  <2> QED BY <1>1, <1>2, SetInduction
<1> QED BY <1>3

Fold(p, s) == FoldLeft(ConsumeByte, p, s)

FoldOf(p, n, s) ==
  \E f : /\ f[0] = p
         /\ \A k \in 1 .. n : f[k] = ConsumeByte(f[k - 1], s[k])
         /\ Fold(p, s) = f[n]

(* The fold's intermediate results. *)
LEMMA FoldSteps ==
  ASSUME NEW p, NEW n \in Nat, NEW s, DOMAIN s = 1 .. n
  PROVE  FoldOf(p, n, s)
<1> DEFINE g == CHOOSE g : g = Iter(p, s, g, n)
<1>1. g = Iter(p, s, g, n)
  BY IterExists
<1>2. Fold(p, s) = g[1 .. n]
  BY Zenon DEF Fold, FoldLeft, MapThenFoldSet, Iter
<1> HIDE DEF g
<1> DEFINE f == [k \in 0 .. n |-> g[1 .. k]]
<1>3. f[0] = p
  <2>1. 1 .. 0 = {}
    OBVIOUS
  <2> QED BY <1>1, <2>1 DEF Iter
<1>4. ASSUME NEW k \in 1 .. n PROVE f[k] = ConsumeByte(f[k - 1], s[k])
  <2>1. Max(1 .. k) = k /\ (1 .. k) \ {Max(1 .. k)} = 1 .. k - 1 /\ 1 .. k # {}
    <3>1. k \in Nat \ {0} /\ k \in 1 .. k
      OBVIOUS
    <3> QED BY <3>1, MaxOfInterval
  <2>2. g[1 .. k] = ConsumeByte(g[(1 .. k) \ {Max(1 .. k)}], s[Max(1 .. k)])
    <3>1. 1 .. k \in SUBSET (1 .. n)
      OBVIOUS
    <3> HIDE DEF f
    <3> QED BY <1>1, <2>1, <3>1, Zenon DEF Iter
  <2>3. f[k] = g[1 .. k] /\ f[k - 1] = g[1 .. k - 1]
    OBVIOUS
  <2> QED BY <2>1, <2>2, <2>3
<1>5. Fold(p, s) = f[n]
  BY <1>2
<1> HIDE DEF f
<1> QED BY <1>3, <1>4, <1>5 DEF FoldOf

-----------------------------------------------------------------------------
FlatIter(ss, g, n) ==
  [i \in 1 .. n |-> IF i = 1 THEN ss[i] ELSE g[i - 1] \o ss[i]]

LEMMA FlatIterExists ==
  ASSUME NEW ss, NEW n \in Nat
  PROVE  \E g : g = FlatIter(ss, g, n)
<1> DEFINE Good == {k \in Nat : \E g : g = FlatIter(ss, g, k)}
<1>1. 0 \in Good
  <2>1. \A g, h : FlatIter(ss, g, 0) = FlatIter(ss, h, 0)
    BY DEF FlatIter
  <2> QED BY <2>1
<1>2. \A k \in Nat : k \in Good => k + 1 \in Good
  <2> SUFFICES ASSUME NEW k \in Nat, NEW g, g = FlatIter(ss, g, k)
               PROVE  \E h : h = FlatIter(ss, h, k + 1)
    OBVIOUS
  <2> DEFINE h == FlatIter(ss, g, k + 1)
  <2>1. ASSUME NEW i \in 1 .. k PROVE h[i] = g[i]
    <3>1. h[i] = IF i = 1 THEN ss[i] ELSE g[i - 1] \o ss[i]
      BY DEF FlatIter
    <3>2. g[i] = IF i = 1 THEN ss[i] ELSE g[i - 1] \o ss[i]
      BY Zenon DEF FlatIter
    <3> QED BY <3>1, <3>2
  <2> HIDE DEF h
  <2>2. \A i \in 1 .. k + 1 :
          (IF i = 1 THEN ss[i] ELSE g[i - 1] \o ss[i])
          = (IF i = 1 THEN ss[i] ELSE h[i - 1] \o ss[i])
    <3>1. \A i \in 1 .. k + 1 : i = 1 \/ i - 1 \in 1 .. k
      OBVIOUS
    <3> QED BY <2>1, <3>1, Zenon
  <2>3. FlatIter(ss, g, k + 1) = FlatIter(ss, h, k + 1)
    BY <2>2, Zenon DEF FlatIter
  <2> QED BY <2>3 DEF h
<1>3. n \in Good
  <2> HIDE DEF Good
  <2> QED BY <1>1, <1>2, SetInduction
<1> QED BY <1>3

(* FlattenSeq's intermediate results.                                      *)
LEMMA FlattenSteps ==
  ASSUME NEW X, NEW ss \in Seq(Seq(X))
  PROVE  \E f : /\ f[0] = <<>>
                /\ \A k \in 1 .. Len(ss) : f[k] = f[k - 1] \o ss[k]
                /\ FlattenSeq(ss) = f[Len(ss)]
<1> DEFINE n == Len(ss)
<1>0. n \in Nat /\ \A k \in 1 .. n : ss[k] \in Seq(X)
  OBVIOUS
<1>1. CASE n = 0
  <2>1. FlattenSeq(ss) = <<>>
    BY <1>1 DEF FlattenSeq
  <2> DEFINE f == [k \in {0} |-> <<>>]
  <2>2. f[0] = <<>> /\ 1 .. n = {}
    BY <1>1
  <2> QED BY <1>1, <2>1, <2>2
<1>2. CASE n # 0
  <2> DEFINE g == CHOOSE g : g = FlatIter(ss, g, n)
  <2>1. g = FlatIter(ss, g, n)
    BY FlatIterExists, <1>0
  <2>2. FlattenSeq(ss) = g[n]
    BY <1>2, Zenon DEF FlattenSeq, FlatIter
  <2> HIDE DEF g
  <2> DEFINE f == [k \in 0 .. n |-> IF k = 0 THEN <<>> ELSE g[k]]
  <2>3. f[0] = <<>> /\ f[n] = g[n]
    BY <1>0, <1>2
  <2>4. ASSUME NEW k \in 1 .. n PROVE f[k] = f[k - 1] \o ss[k]
    <3>1. g[k] = IF k = 1 THEN ss[k] ELSE g[k - 1] \o ss[k]
      BY <2>1, Zenon DEF FlatIter
    <3>2. <<>> \o ss[k] = ss[k]
      BY <1>0
    <3>3. k - 1 \in 0 .. n /\ k \in 0 .. n /\ k # 0 /\ (k - 1 = 0 <=> k = 1)
      BY <1>0
    <3> QED BY <3>1, <3>2, <3>3
  <2> HIDE DEF f
  <2> QED BY <2>2, <2>3, <2>4
<1> QED BY <1>1, <1>2

FlatSoFar(f, ss, k) ==
  /\ f[k] \in Seq(Nat) /\ Rising(f[k])
  /\ \A x \in Range(f[k]) : \E i \in 1 .. k : x \in Range(ss[i])

LEMMA FlattenInLine ==
  ASSUME NEW ss \in Seq(Seq(Nat)), InLine(ss)
  PROVE  /\ FlattenSeq(ss) \in Seq(Nat) /\ Rising(FlattenSeq(ss))
         /\ Range(FlattenSeq(ss)) \subseteq All(ss)
<1> DEFINE n == Len(ss)
<1>0. n \in Nat /\ DOMAIN ss = 1 .. n /\ \A k \in 1 .. n : ss[k] \in Seq(Nat)
  OBVIOUS
<1>1. PICK f : /\ f[0] = <<>>
               /\ \A k \in 1 .. n : f[k] = f[k - 1] \o ss[k]
               /\ FlattenSeq(ss) = f[n]
  BY FlattenSteps
<1> DEFINE Good == {k \in 0 .. n : FlatSoFar(f, ss, k)}
<1>2. 0 \in Good
  <2>1. FlatSoFar(f, ss, 0)
    <3>1. f[0] = <<>>
      BY <1>1
    <3> QED BY <3>1, EmptyRises DEF FlatSoFar
  <2>2. 0 \in 0 .. n
    BY <1>0
  <2> QED BY <2>1, <2>2
<1>3. ASSUME NEW k \in 0 .. n - 1, k \in Good PROVE k + 1 \in Good
  <2>1. k + 1 \in 1 .. n /\ (k + 1) - 1 = k
    BY <1>0
  <2>2. f[k + 1] = f[k] \o ss[k + 1] /\ ss[k + 1] \in Seq(Nat) /\ Rising(ss[k + 1])
    BY <1>0, <1>1, <2>1 DEF InLine
  <2>3. ASSUME NEW a \in Range(f[k]), NEW b \in Range(ss[k + 1]) PROVE a < b
    <3>1. PICK i \in 1 .. k : a \in Range(ss[i])
      BY <1>3, <2>3 DEF FlatSoFar
    <3>2. Before(Range(ss[i]), Range(ss[k + 1]))
      <4>1. i \in DOMAIN ss /\ k + 1 \in DOMAIN ss /\ i < k + 1
        BY <1>0, <2>1
      <4> QED BY <4>1, Zenon DEF InLine
    <3> QED BY <2>3, <3>1, <3>2 DEF Before
  <2>4. f[k] \in Seq(Nat) /\ Rising(f[k])
    BY <1>3 DEF FlatSoFar
  <2>5. Before(Range(f[k]), Range(ss[k + 1]))
    BY <2>3 DEF Before
  <2>6. Rising(f[k] \o ss[k + 1])
    BY <2>2, <2>4, <2>5, RisingConcat
  <2>7. f[k] \o ss[k + 1] \in Seq(Nat)
        /\ Range(f[k] \o ss[k + 1]) = Range(f[k]) \cup Range(ss[k + 1])
    BY <2>2, <2>4, RangeOfConcat
  <2>8. ASSUME NEW x \in Range(f[k]) \cup Range(ss[k + 1])
        PROVE  \E i \in 1 .. k + 1 : x \in Range(ss[i])
    <3>1. CASE x \in Range(ss[k + 1])
      BY <2>1, <3>1
    <3>2. CASE x \in Range(f[k])
      <4>1. PICK i \in 1 .. k : x \in Range(ss[i])
        BY <1>3, <3>2 DEF FlatSoFar
      <4> QED BY <4>1
    <3> QED BY <2>8, <3>1, <3>2
  <2>9. FlatSoFar(f, ss, k + 1)
    BY <2>2, <2>6, <2>7, <2>8 DEF FlatSoFar
  <2> QED BY <1>0, <2>1, <2>9
<1>4. n \in Good
  <2>1. \A k \in 0 .. n - 1 : k \in Good => k + 1 \in Good
    BY <1>3
  <2> HIDE DEF Good, n
  <2>2. 0 .. n \subseteq Good
    BY <1>0, <1>2, <2>1, BoundedInduction
  <2> QED BY <1>0, <2>2
<1> QED BY <1>0, <1>1, <1>4 DEF All, FlatSoFar

-----------------------------------------------------------------------------
LEMMA ConcatFacts ==
  ASSUME NEW X, NEW s \in Seq(X), NEW t \in Seq(X)
  PROVE  /\ s \o t \in Seq(X) /\ Len(s \o t) = Len(s) + Len(t)
         /\ Len(s) \in Nat /\ Len(t) \in Nat
         /\ \A i \in 1 .. Len(s) : (s \o t)[i] = s[i]
         /\ \A i \in 1 .. Len(s) + Len(t) : ~(i =< Len(s)) =>
              (s \o t)[i] = t[i - Len(s)] /\ i - Len(s) \in 1 .. Len(t)
OBVIOUS

(***************************************************************************)
(* The chord parser keeps the order of keys.                               *)
(***************************************************************************)
Keystroke == [key : Key, n : Nat]

Action ==
  [type : {"Forward", "ForwardThenStop"}, bytes : Seq(Keystroke)]
    \cup [type : {"ExitToStructured", "Detach"}]

(* The numbers of the keys an action sends.                                *)
Carried(a) == IF a.type \in {"Forward", "ForwardThenStop"} THEN Numbers(a.bytes) ELSE <<>>

CarriedBy(actions) == [i \in 1 .. Len(actions) |-> Carried(actions[i])]

LEMMA NumbersSound ==
  ASSUME NEW s \in Seq(Keystroke)
  PROVE  Numbers(s) \in Seq(Nat) /\ Len(Numbers(s)) = Len(s)
         /\ DOMAIN Numbers(s) = 1 .. Len(s)
<1>1. Len(s) \in Nat /\ \A i \in 1 .. Len(s) : s[i].n \in Nat
  <2>1. Len(s) \in Nat /\ \A i \in 1 .. Len(s) : s[i] \in Keystroke
    OBVIOUS
  <2> QED BY <2>1 DEF Keystroke
<1>2. Numbers(s) \in [1 .. Len(s) -> Nat]
  BY <1>1 DEF Numbers
<1> QED BY <1>1, <1>2

LEMMA NumbersConcat ==
  ASSUME NEW s \in Seq(Keystroke), NEW t \in Seq(Keystroke)
  PROVE  Numbers(s \o t) = Numbers(s) \o Numbers(t) /\ s \o t \in Seq(Keystroke)
<1>1. s \o t \in Seq(Keystroke) /\ Len(s \o t) = Len(s) + Len(t)
      /\ Len(s) \in Nat /\ Len(t) \in Nat
  OBVIOUS
<1>2. /\ Numbers(s) \in Seq(Nat) /\ Numbers(t) \in Seq(Nat) /\ Numbers(s \o t) \in Seq(Nat)
      /\ Len(Numbers(s)) = Len(s) /\ Len(Numbers(t)) = Len(t)
      /\ Len(Numbers(s \o t)) = Len(s) + Len(t)
  BY <1>1, NumbersSound
<1> DEFINE u == Numbers(s)
           v == Numbers(t)
<1>a. u \in Seq(Nat) /\ v \in Seq(Nat) /\ Len(u) = Len(s) /\ Len(v) = Len(t)
  BY <1>2
<1>b. /\ \A i \in 1 .. Len(s) : u[i] = s[i].n
      /\ \A i \in 1 .. Len(t) : v[i] = t[i].n
      /\ \A i \in 1 .. Len(s) + Len(t) : Numbers(s \o t)[i] = (s \o t)[i].n
  BY <1>1 DEF Numbers
<1> HIDE DEF u, v
<1>c. /\ u \o v \in Seq(Nat) /\ Len(u \o v) = Len(s) + Len(t)
      /\ \A i \in 1 .. Len(s) : (u \o v)[i] = u[i]
      /\ \A i \in 1 .. Len(s) + Len(t) : ~(i =< Len(s)) => (u \o v)[i] = v[i - Len(s)]
  <2>1. /\ u \o v \in Seq(Nat) /\ Len(u \o v) = Len(u) + Len(v)
        /\ \A i \in 1 .. Len(u) : (u \o v)[i] = u[i]
        /\ \A i \in 1 .. Len(u) + Len(v) : ~(i =< Len(u)) => (u \o v)[i] = v[i - Len(u)]
    BY <1>a, ConcatFacts, ZenonT(90)
  <2> QED BY <1>a, <2>1
<1>3. ASSUME NEW i \in 1 .. Len(s) + Len(t)
      PROVE  Numbers(s \o t)[i] = (u \o v)[i]
  <2>1. CASE i =< Len(s)
    <3>1. i \in 1 .. Len(s) /\ (s \o t)[i] = s[i]
      BY <1>1, <2>1
    <3> QED BY <1>b, <1>c, <3>1
  <2>2. CASE ~(i =< Len(s))
    <3>1. (s \o t)[i] = t[i - Len(s)] /\ i - Len(s) \in 1 .. Len(t)
      BY <2>2, ConcatFacts
    <3> QED BY <1>b, <1>c, <2>2, <3>1
  <2> QED BY <2>1, <2>2
<1>4. Numbers(s \o t) = u \o v
  BY <1>1, <1>2, <1>3, <1>c, SeqEqual
<1> QED BY <1>1, <1>4 DEF u, v

LEMMA NumbersOfOne ==
  ASSUME NEW b \in Keystroke
  PROVE  /\ <<b>> \in Seq(Keystroke) /\ Numbers(<<b>>) = <<b.n>>
         /\ Rising(Numbers(<<b>>)) /\ Range(Numbers(<<b>>)) = {b.n}
<1>1. b.n \in Nat
  BY DEF Keystroke
<1>2. Numbers(<<b>>) = <<b.n>>
  BY DEF Numbers
<1>3. DOMAIN <<b.n>> = {1} /\ <<b.n>>[1] = b.n
  OBVIOUS
<1> QED BY <1>1, <1>2, <1>3 DEF Rising, Range

LEMMA NumbersOfNone ==
  Numbers(<<>>) = <<>> /\ Rising(Numbers(<<>>)) /\ Range(Numbers(<<>>)) = {}
<1>1. Numbers(<<>>) = <<>>
  BY DEF Numbers
<1> QED BY <1>1, EmptyRises

LEMMA CarriedSound ==
  ASSUME NEW a \in Action
  PROVE  Carried(a) \in Seq(Nat)
<1>1. CASE a.type \in {"Forward", "ForwardThenStop"}
  <2>1. a.bytes \in Seq(Keystroke)
    BY <1>1 DEF Action
  <2> QED BY <1>1, <2>1, NumbersSound DEF Carried
<1>2. CASE a.type \notin {"Forward", "ForwardThenStop"}
  BY <1>2 DEF Carried
<1> QED BY <1>1, <1>2

LEMMA CarriedAppend ==
  ASSUME NEW actions \in Seq(Action), NEW a \in Action
  PROVE  /\ Append(actions, a) \in Seq(Action)
         /\ CarriedBy(actions) \in Seq(Seq(Nat))
         /\ CarriedBy(Append(actions, a)) = Append(CarriedBy(actions), Carried(a))
<1>1. /\ Append(actions, a) \in Seq(Action) /\ Len(Append(actions, a)) = Len(actions) + 1
      /\ Len(actions) \in Nat /\ \A i \in 1 .. Len(actions) : actions[i] \in Action
      /\ \A i \in 1 .. Len(actions) : Append(actions, a)[i] = actions[i]
      /\ Append(actions, a)[Len(actions) + 1] = a
  OBVIOUS
<1>2. CarriedBy(actions) \in Seq(Seq(Nat)) /\ Len(CarriedBy(actions)) = Len(actions)
  <2>1. CarriedBy(actions) \in [1 .. Len(actions) -> Seq(Nat)]
    BY <1>1, CarriedSound DEF CarriedBy
  <2> QED BY <1>1, <2>1
<1>3. CarriedBy(Append(actions, a)) \in Seq(Seq(Nat))
      /\ Len(CarriedBy(Append(actions, a))) = Len(actions) + 1
  <2>1. \A i \in 1 .. Len(actions) + 1 : Append(actions, a)[i] \in Action
    BY <1>1
  <2>2. CarriedBy(Append(actions, a)) \in [1 .. Len(actions) + 1 -> Seq(Nat)]
    BY <1>1, <2>1, CarriedSound DEF CarriedBy
  <2> QED BY <1>1, <2>2
<1>4. Append(CarriedBy(actions), Carried(a)) \in Seq(Seq(Nat))
      /\ Len(Append(CarriedBy(actions), Carried(a))) = Len(actions) + 1
  BY <1>1, <1>2, CarriedSound
<1>5. ASSUME NEW i \in 1 .. Len(actions) + 1
      PROVE  CarriedBy(Append(actions, a))[i] = Append(CarriedBy(actions), Carried(a))[i]
  <2>1. CarriedBy(Append(actions, a))[i] = Carried(Append(actions, a)[i])
    BY <1>1 DEF CarriedBy
  <2>2. CASE i = Len(actions) + 1
    BY <1>1, <1>2, <2>1, <2>2
  <2>3. CASE i \in 1 .. Len(actions)
    <3>1. CarriedBy(actions)[i] = Carried(actions[i])
      BY <1>1, <2>3 DEF CarriedBy
    <3>2. Append(CarriedBy(actions), Carried(a))[i] = CarriedBy(actions)[i]
      BY <1>1, <1>2, <2>3
    <3> QED BY <1>1, <2>1, <2>3, <3>1, <3>2
  <2>4. i = Len(actions) + 1 \/ i \in 1 .. Len(actions)
    BY <1>1
  <2> QED BY <2>2, <2>3, <2>4
<1>6. CarriedBy(Append(actions, a)) = Append(CarriedBy(actions), Carried(a))
  <2> DEFINE u == CarriedBy(Append(actions, a))
             v == Append(CarriedBy(actions), Carried(a))
  <2>1. u \in Seq(Seq(Nat)) /\ v \in Seq(Seq(Nat)) /\ Len(u) = Len(v)
        /\ \A i \in 1 .. Len(u) : u[i] = v[i]
    BY <1>3, <1>4, <1>5
  <2> HIDE DEF u, v
  <2>2. u = v
    BY <2>1, SeqEqual
  <2> QED BY <2>2 DEF u, v
<1> QED BY <1>1, <1>2, <1>6

(***************************************************************************)
(* The parser in the middle of a read: what it will forward, what is       *)
(* pending and what is held back rise in this order, from lo + 1 to hi.    *)
(***************************************************************************)
ParserState == [armed : Seq(Keystroke), pending : Seq(Keystroke), actions : Seq(Action)]

Keys(s) == Range(Numbers(s))

InOrder(p) ==
  /\ InLine(CarriedBy(p.actions)) /\ Rising(Numbers(p.pending)) /\ Rising(Numbers(p.armed))
  /\ Before(All(CarriedBy(p.actions)), Keys(p.pending) \cup Keys(p.armed))
  /\ Before(Keys(p.pending), Keys(p.armed))

Within(p, lo, hi) ==
  All(CarriedBy(p.actions)) \cup Keys(p.pending) \cup Keys(p.armed) \subseteq lo + 1 .. hi

ParserOK(p, lo, hi) == p \in ParserState /\ InOrder(p) /\ Within(p, lo, hi)

LEMMA ParserTyped ==
  ASSUME NEW a \in Seq(Keystroke), NEW b \in Seq(Keystroke), NEW c \in Seq(Action)
  PROVE  Parser(a, b, c) \in ParserState
BY DEF Parser, ParserState

LEMMA ParserParts ==
  ASSUME NEW p \in ParserState
  PROVE  /\ p.armed \in Seq(Keystroke) /\ p.pending \in Seq(Keystroke)
         /\ p.actions \in Seq(Action)
BY DEF ParserState

LEMMA ForwardFields ==
  ASSUME NEW b \in Seq(Keystroke)
  PROVE  /\ Forward(b) \in Action /\ Carried(Forward(b)) = Numbers(b)
         /\ ForwardThenStop(b) \in Action /\ Carried(ForwardThenStop(b)) = Numbers(b)
<1>1. Forward(b) \in Action /\ ForwardThenStop(b) \in Action
  BY DEF Forward, ForwardThenStop, Action
<1>2. /\ Forward(b).type = "Forward" /\ Forward(b).bytes = b
      /\ ForwardThenStop(b).type = "ForwardThenStop" /\ ForwardThenStop(b).bytes = b
  BY DEF Forward, ForwardThenStop
<1> QED BY <1>1, <1>2 DEF Carried

LEMMA ChordFields ==
  /\ ExitToStructured \in Action /\ Carried(ExitToStructured) = <<>>
  /\ Detach \in Action /\ Carried(Detach) = <<>>
BY DEF ExitToStructured, Detach, Action, Carried

(* An action that sends what comes after all others.                       *)
LEMMA ActionAdded ==
  ASSUME NEW actions \in Seq(Action), NEW a \in Action,
         InLine(CarriedBy(actions)), Rising(Carried(a)),
         Before(All(CarriedBy(actions)), Range(Carried(a)))
  PROVE  /\ Append(actions, a) \in Seq(Action) /\ InLine(CarriedBy(Append(actions, a)))
         /\ All(CarriedBy(Append(actions, a))) = All(CarriedBy(actions)) \cup Range(Carried(a))
<1>1. /\ Append(actions, a) \in Seq(Action)
      /\ CarriedBy(actions) \in Seq(Seq(Nat)) /\ Carried(a) \in Seq(Nat)
      /\ CarriedBy(Append(actions, a)) = Append(CarriedBy(actions), Carried(a))
  BY CarriedAppend, CarriedSound
<1> DEFINE ss == CarriedBy(actions)
<1> HIDE DEF ss
<1>2. InLine(Append(ss, Carried(a)))
      /\ All(Append(ss, Carried(a))) = All(ss) \cup Range(Carried(a))
  BY <1>1, InLineAppend DEF ss
<1> QED BY <1>1, <1>2 DEF ss

LEMMA FlushKeepsOrder ==
  ASSUME NEW p, NEW lo \in Nat, NEW hi \in Nat, ParserOK(p, lo, hi)
  PROVE  /\ ParserOK(FlushPending(p), lo, hi) /\ FlushPending(p).pending = <<>>
         /\ FlushPending(p).armed = p.armed
<1>0. /\ p.armed \in Seq(Keystroke) /\ p.pending \in Seq(Keystroke)
      /\ p.actions \in Seq(Action) /\ <<>> \in Seq(Keystroke)
  BY ParserParts DEF ParserOK
<1>1. CASE p.pending = <<>>
  BY <1>1 DEF FlushPending
<1>2. CASE p.pending # <<>>
  <2> DEFINE q == FlushPending(p)
             a == Forward(p.pending)
  <2>1. q = Parser(p.armed, <<>>, Append(p.actions, a))
    BY <1>2 DEF FlushPending
  <2>2. q.armed = p.armed /\ q.pending = <<>> /\ q.actions = Append(p.actions, a)
    BY <2>1 DEF Parser
  <2>3. a \in Action /\ Carried(a) = Numbers(p.pending)
    BY <1>0, ForwardFields
  <2> HIDE DEF q, a
  <2>4. /\ q.actions \in Seq(Action) /\ InLine(CarriedBy(q.actions))
        /\ All(CarriedBy(q.actions)) = All(CarriedBy(p.actions)) \cup Keys(p.pending)
    <3>1. Before(All(CarriedBy(p.actions)), Range(Carried(a)))
      BY <2>3 DEF ParserOK, InOrder, Before, Keys
    <3> QED BY <1>0, <2>2, <2>3, <3>1, ActionAdded DEF ParserOK, InOrder, Keys
  <2>5. q \in ParserState
    BY <1>0, <2>1, <2>2, <2>4, ParserTyped
  <2>6. InOrder(q)
    BY <2>2, <2>4, NumbersOfNone DEF ParserOK, InOrder, Before, Keys
  <2>7. Within(q, lo, hi)
    BY <2>2, <2>4, NumbersOfNone DEF ParserOK, Within, Keys
  <2> QED BY <2>2, <2>5, <2>6, <2>7 DEF q, ParserOK
<1> QED BY <1>1, <1>2

LEMMA PushKeepsOrder ==
  ASSUME NEW p, NEW lo \in Nat, NEW hi \in Nat, NEW h \in Nat, lo =< hi, hi =< h,
         ParserOK(p, lo, hi), p.armed = <<>>,
         NEW a \in Action, Rising(Carried(a)), Range(Carried(a)) \subseteq hi + 1 .. h
  PROVE  ParserOK(Push(p, a), lo, h)
<1> DEFINE f == FlushPending(p)
           q == Push(p, a)
<1>1. ParserOK(f, lo, hi) /\ f.pending = <<>> /\ f.armed = <<>>
  BY FlushKeepsOrder
<1>2. q = Parser(f.armed, f.pending, Append(f.actions, a))
  BY DEF Push
<1> HIDE DEF f, q
<1>3. q.armed = <<>> /\ q.pending = <<>> /\ q.actions = Append(f.actions, a)
  BY <1>1, <1>2 DEF Parser
<1>4. /\ q.actions \in Seq(Action) /\ InLine(CarriedBy(q.actions))
      /\ All(CarriedBy(q.actions)) = All(CarriedBy(f.actions)) \cup Range(Carried(a))
  <2>1. Before(All(CarriedBy(f.actions)), Range(Carried(a)))
    BY <1>1 DEF ParserOK, Within, Before
  <2>2. f.actions \in Seq(Action)
    BY <1>1, ParserParts DEF ParserOK
  <2> QED BY <1>1, <1>3, <2>1, <2>2, ActionAdded DEF ParserOK, InOrder
<1>5. q \in ParserState
  <2>1. <<>> \in Seq(Keystroke)
    OBVIOUS
  <2> QED BY <1>1, <1>2, <1>3, <1>4, <2>1, ParserTyped
<1>6. InOrder(q)
  BY <1>3, <1>4, NumbersOfNone DEF InOrder, Before, Keys
<1>7. Within(q, lo, h)
  <2>1. All(CarriedBy(f.actions)) \subseteq lo + 1 .. hi
    BY <1>1 DEF ParserOK, Within
  <2>2. hi + 1 .. h \subseteq lo + 1 .. h /\ lo + 1 .. hi \subseteq lo + 1 .. h
    OBVIOUS
  <2> QED BY <1>3, <1>4, <2>1, <2>2, NumbersOfNone DEF Within, Keys
<1> QED BY <1>5, <1>6, <1>7 DEF ParserOK, q

(* A byte that nothing is held back before.                                *)
LEMMA PlainKeepsOrder ==
  ASSUME NEW p, NEW lo \in Nat, NEW hi \in Nat, lo =< hi, ParserOK(p, lo, hi),
         p.armed = <<>>,
         NEW b \in Keystroke, b.n = hi + 1
  PROVE  ParserOK(ConsumePlain(p, b), lo, hi + 1)
<1>0. /\ p.armed \in Seq(Keystroke) /\ p.pending \in Seq(Keystroke)
      /\ p.actions \in Seq(Action) /\ <<b>> \in Seq(Keystroke)
      /\ Numbers(<<b>>) = <<b.n>> /\ Rising(Numbers(<<b>>)) /\ Range(Numbers(<<b>>)) = {b.n}
      /\ hi + 1 \in Nat
  BY ParserParts, NumbersOfOne DEF ParserOK
<1>a. lo + 1 .. hi \subseteq lo + 1 .. hi + 1 /\ hi + 1 \in lo + 1 .. hi + 1
  OBVIOUS
<1>b. /\ All(CarriedBy(p.actions)) \cup Keys(p.pending) \subseteq lo + 1 .. hi
      /\ InLine(CarriedBy(p.actions)) /\ Rising(Numbers(p.pending))
      /\ Before(All(CarriedBy(p.actions)), Keys(p.pending))
  BY DEF ParserOK, Within, InOrder, Before
<1>1. CASE b.key = CtrlRightBracket
  <2> DEFINE q == Parser(<<b>>, p.pending, p.actions)
  <2>1. ConsumePlain(p, b) = q
    BY <1>1 DEF ConsumePlain, CtrlRightBracket, CtrlD
  <2>2. q \in ParserState /\ q.armed = <<b>> /\ q.pending = p.pending /\ q.actions = p.actions
    BY <1>0, ParserTyped DEF Parser
  <2> HIDE DEF q
  <2>3. InOrder(q)
    <3>1. \A x \in lo + 1 .. hi : x < b.n
      OBVIOUS
    <3> QED BY <1>0, <1>b, <2>2, <3>1 DEF InOrder, Before, Keys
  <2>4. Within(q, lo, hi + 1)
    BY <1>0, <1>a, <1>b, <2>2 DEF Within, Keys
  <2> QED BY <2>1, <2>2, <2>3, <2>4 DEF ParserOK
<1>2. CASE b.key # CtrlRightBracket /\ b.key = CtrlD
  <2>1. ConsumePlain(p, b) = Push(p, ForwardThenStop(<<b>>))
    BY <1>2 DEF ConsumePlain, CtrlRightBracket, CtrlD
  <2>2. ForwardThenStop(<<b>>) \in Action /\ Carried(ForwardThenStop(<<b>>)) = Numbers(<<b>>)
    BY <1>0, ForwardFields
  <2>3. Range(Numbers(<<b>>)) \subseteq hi + 1 .. hi + 1 /\ hi =< hi + 1
    BY <1>0
  <2> QED BY <1>0, <2>1, <2>2, <2>3, PushKeepsOrder
<1>3. CASE b.key # CtrlRightBracket /\ b.key # CtrlD
  <2> DEFINE q == Parser(p.armed, Append(p.pending, b), p.actions)
  <2>1. ConsumePlain(p, b) = q
    BY <1>3 DEF ConsumePlain, CtrlRightBracket, CtrlD
  <2>2. Append(p.pending, b) \in Seq(Keystroke) /\ Append(p.pending, b) = p.pending \o <<b>>
    BY <1>0
  <2>3. /\ q \in ParserState /\ q.armed = <<>> /\ q.pending = p.pending \o <<b>>
        /\ q.actions = p.actions
    BY <1>0, <2>2, ParserTyped DEF Parser
  <2> HIDE DEF q
  <2>4. Numbers(p.pending \o <<b>>) = Numbers(p.pending) \o <<b.n>>
    BY <1>0, NumbersConcat, ZenonT(40)
  <2>5. Rising(Numbers(q.pending)) /\ Keys(q.pending) = Keys(p.pending) \cup {b.n}
    <3>1. Before(Range(Numbers(p.pending)), Range(<<b.n>>))
      BY <1>0, <1>b DEF Before, Keys
    <3>2. Numbers(p.pending) \in Seq(Nat) /\ <<b.n>> \in Seq(Nat) /\ Rising(<<b.n>>)
          /\ Range(<<b.n>>) = {b.n}
      BY <1>0, NumbersSound
    <3>3. Rising(Numbers(p.pending) \o <<b.n>>)
      BY <1>b, <3>1, <3>2, RisingConcat
    <3>5. Numbers(p.pending) \in Seq(Nat) /\ <<b.n>> \in Seq(Nat)
      BY <3>2
    <3>4. Range(Numbers(p.pending) \o <<b.n>>) = Range(Numbers(p.pending)) \cup Range(<<b.n>>)
      BY <3>5, RangeOfTwo, Zenon
    <3> QED BY <2>3, <2>4, <3>2, <3>3, <3>4 DEF Keys
  <2>6. InOrder(q)
    <3>1. \A x \in lo + 1 .. hi : x < b.n
      OBVIOUS
    <3> QED BY <1>b, <2>3, <2>5, <3>1, NumbersOfNone DEF InOrder, Before, Keys
  <2>7. Within(q, lo, hi + 1)
    BY <1>a, <1>b, <2>3, <2>5, NumbersOfNone DEF Within, Keys
  <2> QED BY <2>1, <2>3, <2>6, <2>7 DEF ParserOK
<1> QED BY <1>1, <1>2, <1>3

(* A byte, whether or not a Ctrl-] is held back before it.                 *)
LEMMA ByteKeepsOrder ==
  ASSUME NEW p, NEW lo \in Nat, NEW hi \in Nat, lo =< hi, ParserOK(p, lo, hi),
         NEW b \in Keystroke, b.n = hi + 1
  PROVE  ParserOK(ConsumeByte(p, b), lo, hi + 1)
<1>0. /\ p.armed \in Seq(Keystroke) /\ p.pending \in Seq(Keystroke)
      /\ p.actions \in Seq(Action) /\ <<>> \in Seq(Keystroke) /\ hi + 1 \in Nat
  BY ParserParts DEF ParserOK
<1>1. CASE p.armed = <<>>
  BY <1>1, PlainKeepsOrder DEF ConsumeByte
<1>2. CASE p.armed # <<>>
  <2> DEFINE d == Parser(<<>>, p.pending, p.actions)
             e == Parser(<<>>, p.pending \o p.armed, p.actions)
  <2>1. ParserOK(d, lo, hi) /\ d.armed = <<>>
    <3>1. d \in ParserState /\ d.armed = <<>> /\ d.pending = p.pending /\ d.actions = p.actions
      BY <1>0, ParserTyped DEF Parser
    <3> HIDE DEF d
    <3>2. InOrder(d) /\ Within(d, lo, hi)
      BY <3>1, NumbersOfNone DEF ParserOK, InOrder, Within, Before, Keys
    <3> QED BY <3>1, <3>2 DEF ParserOK
  <2>2. ParserOK(e, lo, hi) /\ e.armed = <<>>
    <3>0. p.pending \o p.armed \in Seq(Keystroke)
          /\ Numbers(p.pending \o p.armed) = Numbers(p.pending) \o Numbers(p.armed)
      BY <1>0, NumbersConcat
    <3>1. /\ e \in ParserState /\ e.armed = <<>> /\ e.pending = p.pending \o p.armed
          /\ e.actions = p.actions
      BY <1>0, <3>0, ParserTyped DEF Parser
    <3> HIDE DEF e
    <3>2. /\ Rising(Numbers(e.pending)) /\ Keys(e.pending) = Keys(p.pending) \cup Keys(p.armed)
      <4>1. /\ Numbers(p.pending) \in Seq(Nat) /\ Numbers(p.armed) \in Seq(Nat)
            /\ Rising(Numbers(p.pending)) /\ Rising(Numbers(p.armed))
            /\ Before(Range(Numbers(p.pending)), Range(Numbers(p.armed)))
        BY <1>0, NumbersSound DEF ParserOK, InOrder, Keys
      <4>2. Rising(Numbers(p.pending) \o Numbers(p.armed))
        BY <4>1, RisingConcat
      <4>3. Range(Numbers(p.pending) \o Numbers(p.armed))
            = Range(Numbers(p.pending)) \cup Range(Numbers(p.armed))
        BY <4>1, RangeOfTwo, Zenon
      <4> QED BY <3>0, <3>1, <4>2, <4>3 DEF Keys
    <3>3. InOrder(e) /\ Within(e, lo, hi)
      BY <3>1, <3>2, NumbersOfNone DEF ParserOK, InOrder, Within, Before, Keys
    <3> QED BY <3>1, <3>3 DEF ParserOK
  <2> HIDE DEF d, e
  <2>3. ASSUME NEW a \in Action, Carried(a) = <<>> PROVE ParserOK(Push(d, a), lo, hi + 1)
    <3>1. Rising(Carried(a)) /\ Range(Carried(a)) \subseteq hi + 1 .. hi + 1
      BY <2>3, EmptyRises
    <3> QED BY <1>0, <2>1, <3>1, PushKeepsOrder
  <2>4. CASE b.key = TabKey
    <3>1. ConsumeByte(p, b) = Push(d, ExitToStructured)
      BY <1>2, <2>4 DEF ConsumeByte, ConsumeArmed, d, TabKey, CtrlRightBracket
    <3> QED BY <2>3, <3>1, ChordFields
  <2>5. CASE b.key # TabKey /\ b.key \in {CtrlRightBracket, "d"}
    <3>1. ConsumeByte(p, b) = Push(d, Detach)
      BY <1>2, <2>5 DEF ConsumeByte, ConsumeArmed, d, TabKey, CtrlRightBracket
    <3> QED BY <2>3, <3>1, ChordFields
  <2>6. CASE b.key # TabKey /\ b.key \notin {CtrlRightBracket, "d"}
    <3>1. ConsumeByte(p, b) = ConsumePlain(e, b)
      BY <1>2, <2>6 DEF ConsumeByte, ConsumeArmed, e, TabKey, CtrlRightBracket
    <3> QED BY <2>2, <3>1, PlainKeepsOrder
  <2> QED BY <2>4, <2>5, <2>6
<1> QED BY <1>1, <1>2

(* What a read becomes, when its bytes are the next ones typed.            *)
LEMMA FeedKeepsOrder ==
  ASSUME NEW lo \in Nat, NEW hi \in Nat, lo =< hi,
         NEW a \in Seq(Keystroke), Rising(Numbers(a)), Keys(a) \subseteq lo + 1 .. hi,
         NEW s \in Seq(Keystroke), \A k \in 1 .. Len(s) : s[k].n = hi + k
  PROVE  /\ ParserOK(Feed(a, s), lo, hi + Len(s))
         /\ Feed(a, s).pending = <<>>
<1> DEFINE n == Len(s)
           p == Parser(a, <<>>, <<>>)
<1>0. n \in Nat /\ DOMAIN s = 1 .. n /\ \A k \in 1 .. n : s[k] \in Keystroke
  OBVIOUS
<1>1. ParserOK(p, lo, hi)
  <2>1. <<>> \in Seq(Keystroke) /\ <<>> \in Seq(Action)
    OBVIOUS
  <2>2. p \in ParserState /\ p.armed = a /\ p.pending = <<>> /\ p.actions = <<>>
    BY <2>1, ParserTyped DEF Parser
  <2> HIDE DEF p
  <2>3. InLine(CarriedBy(<<>>)) /\ All(CarriedBy(<<>>)) = {}
    <3>1. DOMAIN CarriedBy(<<>>) = {}
      BY DEF CarriedBy
    <3> QED BY <3>1 DEF InLine, All
  <2>4. InOrder(p) /\ Within(p, lo, hi)
    BY <2>2, <2>3, NumbersOfNone DEF InOrder, Within, Before, Keys
  <2> QED BY <2>2, <2>4 DEF ParserOK
<1> HIDE DEF p
<1>2. PICK f : /\ f[0] = p
               /\ \A k \in 1 .. n : f[k] = ConsumeByte(f[k - 1], s[k])
               /\ Fold(p, s) = f[n]
  <2> HIDE DEF n
  <2>1. n \in Nat /\ DOMAIN s = 1 .. n
    BY <1>0
  <2>2. FoldOf(p, n, s)
    BY <2>1, FoldSteps
  <2> QED BY <2>2 DEF FoldOf
<1> DEFINE Good == {k \in 0 .. n : ParserOK(f[k], lo, hi + k)}
<1>3. 0 \in Good
  <2>1. ParserOK(f[0], lo, hi + 0)
    BY <1>1, <1>2
  <2> QED BY <1>0, <2>1
<1>4. ASSUME NEW k \in 0 .. n - 1, k \in Good PROVE k + 1 \in Good
  <2>1. /\ k + 1 \in 1 .. n /\ (k + 1) - 1 = k /\ hi + k \in Nat /\ lo =< hi + k
        /\ hi + (k + 1) = (hi + k) + 1 /\ k + 1 \in 0 .. n
    BY <1>0
  <2>2. f[k + 1] = ConsumeByte(f[k], s[k + 1])
    BY <1>2, <2>1
  <2>3. s[k + 1] \in Keystroke /\ s[k + 1].n = (hi + k) + 1
    BY <1>0, <2>1
  <2>4. ParserOK(f[k], lo, hi + k)
    BY <1>4
  <2>5. ParserOK(ConsumeByte(f[k], s[k + 1]), lo, (hi + k) + 1)
    BY <2>1, <2>3, <2>4, ByteKeepsOrder
  <2> QED BY <2>1, <2>2, <2>5
<1>5. n \in Good
  <2>1. \A k \in 0 .. n - 1 : k \in Good => k + 1 \in Good
    BY <1>4
  <2> HIDE DEF Good, n
  <2>2. 0 .. n \subseteq Good
    BY <1>0, <1>3, <2>1, BoundedInduction
  <2> QED BY <1>0, <2>2
<1>6. ParserOK(f[n], lo, hi + n) /\ hi + n \in Nat
  BY <1>0, <1>5
<1>7. Feed(a, s) = FlushPending(f[n])
  <2>1. Feed(a, s) = FlushPending(Fold(p, s))
    BY DEF Feed, Fold, p
  <2> QED BY <1>2, <2>1
<1> QED BY <1>6, <1>7, FlushKeepsOrder

-----------------------------------------------------------------------------
(***************************************************************************)
(* The inductive invariant.                                                *)
(***************************************************************************)
InRaw == ui \in {"repaint", "read"} \/ (ui = "act" /\ mode = "Raw")

(* Where the UI and the key reader may be.  The reader is gone, and its    *)
(* channel empty, outside of a structured regime.                          *)
Control ==
  /\ mode \in ViewMode
  /\ ui \in {"enter", "select", "act", "leave", "return", "repaint", "read", "drain", "done"}
  /\ flow \in ViewMode \cup {"Quit"}
  /\ reader \in {"check", "poll", "send", "gone"}
  /\ reader # "send" => read_key = <<>>
  /\ Len(key_q) =< KeyCap
  /\ held # <<>> <=> ui = "act"
  /\ ui = "act" => mode # "Watch"
  /\ ui = "act" /\ mode # "Raw" => Len(held) = 1 /\ held[1].type = "Forward"
  /\ ui \in {"repaint", "read"} => mode = "Raw"
  /\ ui = "select" => mode # "Raw"
  /\ ui \in {"enter", "return", "drain", "done"} \/ InRaw => reader = "gone" /\ key_q = <<>>

(* The callback works on the frame the pump has received last.             *)
Output ==
  /\ callback \in {"feed", "check", "write"}
  /\ frames \in Nat /\ fed \in Nat
  /\ callback # "feed" => pump = "output" /\ fed = frames /\ fed >= 1
  /\ callback = "feed" => fed = IF pump = "output" THEN frames - 1 ELSE frames

Shown == [i \in 1 .. IF callback = "feed" THEN fed ELSE fed - 1 |-> i]

(* In Raw the terminal lacks at most the frame being processed.            *)
Screen ==
  /\ repaint \in Nat
  /\ ui = "repaint" => repaint =< fed
  /\ ui = "repaint" /\ ~overlap /\ fed = repaint => callback = "feed"
  /\ ui \in {"read", "act"} /\ mode = "Raw" /\ ~overlap => tty_out = Shown

(* How many keys were read from the terminal.                              *)
Taken == typed - Len(tty_in)

UiMessage == [type : {"Bytes", "BytesThenStop"}, bytes : Seq(Nat)]

(* Keys are numbered as they are typed, and read in that order.            *)
Typed ==
  /\ typed \in 0 .. MaxKeys
  /\ tty_in \in Seq(Keystroke) /\ Len(tty_in) =< typed
  /\ \A i \in 1 .. Len(tty_in) : tty_in[i].n = Taken + i
  /\ key_q \in Seq(Keystroke) /\ read_key \in Seq(Keystroke) /\ armed \in Seq(Keystroke)
  /\ reader = "send" => Len(read_key) = 1
  /\ held \in Seq(Action)
  /\ queued \in Seq(UiMessage)

(* The keys between the terminal and the UI's hands: in Raw what the       *)
(* parser holds back, else what the reader has read.                       *)
Waiting == IF InRaw THEN armed ELSE key_q \o read_key

Contents(msgs) == [i \in 1 .. Len(msgs) |-> msgs[i].bytes]

(* From the channel to the terminal, keys are in the order of typing.      *)
KeysInLine ==
  /\ InLine(Contents(queued)) /\ InLine(CarriedBy(held)) /\ Rising(Numbers(Waiting))
  /\ Before(All(Contents(queued)), All(CarriedBy(held)) \cup Keys(Waiting))
  /\ Before(All(CarriedBy(held)), Keys(Waiting))
  /\ All(Contents(queued)) \cup All(CarriedBy(held)) \cup Keys(Waiting) \subseteq 1 .. Taken

UiInv == Control /\ Output /\ Screen /\ Typed /\ KeysInLine

-----------------------------------------------------------------------------
LEMMA NothingCarried == InLine(CarriedBy(<<>>)) /\ All(CarriedBy(<<>>)) = {}
<1>1. DOMAIN CarriedBy(<<>>) = {}
  BY DEF CarriedBy
<1> QED BY <1>1 DEF InLine, All

LEMMA InitUi == Init => UiInv
<1> SUFFICES ASSUME Init PROVE UiInv
  OBVIOUS
<1> USE MessageAssumption, KeyCapAssumption DEF Init, TransportInit
<1>1. Control
  BY DEF Control, InRaw, ViewMode
<1>2. Output /\ Screen
  BY DEF Output, Screen
<1>3. Typed
  BY DEF Typed, Taken
<1>4. KeysInLine
  <2>1. /\ CarriedBy(held) = CarriedBy(<<>>) /\ Waiting = <<>>
        /\ DOMAIN Contents(queued) = {}
    BY DEF Waiting, InRaw, Contents
  <2> QED BY <2>1, NothingCarried, NumbersOfNone DEF KeysInLine, Before, Keys, InLine, All
<1> QED BY <1>1, <1>2, <1>3, <1>4 DEF UiInv

(* Structured regimes hold one key at most.                                *)
LEMMA KeyBytes ==
  ASSUME NEW k \in Keystroke
  PROVE  /\ KeyToBytes(k) \in Seq(Action)
         /\ KeyToBytes(k) # <<>> => Len(KeyToBytes(k)) = 1 /\ KeyToBytes(k)[1].type = "Forward"
<1>1. Forward(<<k>>) \in Action /\ Forward(<<k>>).type = "Forward"
  BY NumbersOfOne, ForwardFields DEF Forward
<1> QED BY <1>1 DEF KeyToBytes

LEMMA ControlOfUi == UiInv /\ Ui => Control'
<1> SUFFICES ASSUME UiInv, Ui PROVE Control'
  OBVIOUS
<1> USE DEF UiInv, ViewMode, InRaw, Structured
<1>1. CASE EnterStructured
  BY <1>1 DEF EnterStructured, Control, output, transport
<1>2. CASE SwitchOrQuit
  BY <1>2 DEF SwitchOrQuit, Control, keys, output
<1>3. CASE PumpJoined
  BY <1>3 DEF PumpJoined, Control, keys, output
<1>4. CASE QuitKey \/ CycleKey \/ IgnoreKey \/ ForwardKey
  <2>1. key_q' = Tail(key_q) /\ Len(key_q') =< KeyCap /\ Head(key_q) \in Keystroke
    <3>1. key_q \in Seq(Keystroke) /\ key_q # <<>> /\ Len(key_q) =< KeyCap /\ key_q' = Tail(key_q)
      BY <1>4 DEF QuitKey, CycleKey, IgnoreKey, ForwardKey, TakeKey, Control, Typed
    <3>2. Len(Tail(key_q)) = Len(key_q) - 1 /\ Len(key_q) \in Nat /\ Head(key_q) \in Keystroke
      BY <3>1
    <3> QED BY <3>1, <3>2, KeyCapAssumption
  <2>2. CASE QuitKey
    BY <2>1, <2>2 DEF QuitKey, TakeKey, Leave, Control
  <2>3. CASE CycleKey
    BY <2>1, <2>3 DEF CycleKey, TakeKey, Leave, Control, NextMode, PrevMode
  <2>4. CASE IgnoreKey
    BY <2>1, <2>4 DEF IgnoreKey, TakeKey, Control
  <2>5. CASE ForwardKey
    BY <2>1, <2>5, KeyBytes DEF ForwardKey, TakeKey, Control
  <2> QED BY <1>4, <2>2, <2>3, <2>4, <2>5
<1>5. CASE StructuredFails
  BY <1>5 DEF StructuredFails, Leave, Control
<1>6. CASE StopReader \/ ReaderJoined
  <2>1. CASE StopReader
    BY <2>1 DEF StopReader, Control, task, output
  <2>2. CASE ReaderJoined
    BY <2>2, KeyCapAssumption DEF ReaderJoined, Control
  <2> QED BY <1>6, <2>1, <2>2
<1>7. CASE EnterRaw \/ RawFails \/ Repaint
  BY <1>7 DEF EnterRaw, RawFails, Repaint, Return, Control, keys
<1>8. CASE ReadStdin
  BY <1>8 DEF ReadStdin, Control
<1>9. CASE StdinEnds
  BY <1>9 DEF StdinEnds, Return, Control, keys
<1>10. CASE ForwardBytes
  <2>1. held \in Seq(Action) /\ held' = Tail(held) /\ held # <<>>
    BY <1>10 DEF ForwardBytes, Acting, Control, Typed
  <2>2. Len(held) = 1 => Tail(held) = <<>>
    BY <2>1
  <2> QED BY <1>10, <2>1, <2>2 DEF ForwardBytes, Acting, Control, keys
<1>11. CASE ForwardFails
  BY <1>11 DEF ForwardFails, Acting, Leave, Return, Control, keys
<1>12. CASE ForwardEof \/ LeaveRaw \/ DetachRaw
  <2>1. mode = "Raw"
    BY <1>12 DEF ForwardEof, LeaveRaw, DetachRaw, Acting, Control
  <2> QED BY <1>12, <2>1 DEF ForwardEof, LeaveRaw, DetachRaw, Acting, Return, Control, keys
<1> QED BY <1>1, <1>2, <1>3, <1>4, <1>5, <1>6, <1>7, <1>8, <1>9, <1>10, <1>11, <1>12 DEF Ui

LEMMA ControlOfOthers ==
  UiInv /\ (KeyReader \/ PumpStep \/ Callback \/ (\E k \in Key : Type(k)) \/ UNCHANGED vars)
    => Control'
<1> SUFFICES ASSUME UiInv,
                    KeyReader \/ PumpStep \/ Callback \/ (\E k \in Key : Type(k)) \/ UNCHANGED vars
             PROVE  Control'
  OBVIOUS
<1> USE DEF UiInv, InRaw
<1>1. CASE ReaderSends
  <2>1. reader = "send" /\ Len(read_key) = 1 /\ key_q \in Seq(Keystroke) /\ read_key \in Seq(Keystroke)
    BY <1>1 DEF ReaderSends, Typed
  <2>2. Len(key_q \o read_key) = Len(key_q) + 1 /\ Len(key_q) \in Nat
    <3>1. Len(key_q \o read_key) = Len(key_q) + Len(read_key) /\ Len(key_q) \in Nat
      BY <2>1, ConcatFacts, Zenon
    <3> QED BY <2>1, <3>1
  <2> QED BY <1>1, <2>1, <2>2, KeyCapAssumption DEF ReaderSends, Control, task
<1>2. CASE ReaderChecks \/ ReaderTimesOut \/ ReaderReads \/ ReaderFails
  BY <1>2 DEF ReaderChecks, ReaderTimesOut, ReaderReads, ReaderFails, Control, task
<1>3. CASE PumpStep
  BY <1>3 DEF PumpStep, Control, task, keys
<1>4. CASE Callback
  BY <1>4 DEF Callback, FeedEngine, CheckMode, MirrorFrame, Control, task, keys
<1>5. CASE \E k \in Key : Type(k)
  BY <1>5 DEF Type, Control, task
<1>6. CASE UNCHANGED vars
  BY <1>6 DEF vars, Control, task, keys
<1> QED BY <1>1, <1>2, <1>3, <1>4, <1>5, <1>6 DEF KeyReader

-----------------------------------------------------------------------------
LEMMA UiOutputStep == UiInv /\ [Next]_vars => Output'
<1> SUFFICES ASSUME UiInv, [Next]_vars PROVE Output'
  OBVIOUS
<1> USE DEF UiInv, Output
<1>1. CASE UNCHANGED <<callback, fed, pump, frames>>
  BY <1>1
<1>2. CASE Ui
  <2>1. UNCHANGED <<callback, fed, frames, pump>>
    BY <1>2 DEF Ui, EnterStructured, SwitchOrQuit, PumpJoined, QuitKey, CycleKey, IgnoreKey,
       ForwardKey, TakeKey, StructuredFails, StopReader, ReaderJoined, EnterRaw, RawFails, Repaint,
       task, ReadStdin, StdinEnds, ForwardBytes, ForwardFails, ForwardEof, LeaveRaw, DetachRaw,
       Send, DropSender, transport, output
  <2> QED BY <1>1, <2>1
<1>3. CASE KeyReader \/ (\E k \in Key : Type(k)) \/ UNCHANGED vars
  <2>1. UNCHANGED <<callback, fed, frames, pump>>
    BY <1>3 DEF KeyReader, ReaderChecks, ReaderTimesOut, ReaderReads, ReaderSends, ReaderFails,
       Type, vars, transport, output
  <2> QED BY <1>1, <2>1
<1>4. CASE PumpStep
  <2>1. CASE TakeInput \/ InputClosed \/ Sent \/ SendFails \/ SocketEnds
    <3>1. UNCHANGED <<callback, fed, frames>> /\ pump \in {"select", "send"}
          /\ pump' \in {"select", "send", "stopped", "closed", "lost"}
      BY <1>4, <2>1 DEF PumpStep, TakeInput, InputClosed, Sent, SendFails, SocketEnds, End, output
    <3> QED BY <3>1
  <2>2. CASE RecvFrame
    BY <1>4, <2>2 DEF PumpStep, RecvFrame, output
  <2> QED BY <1>4, <2>1, <2>2 DEF PumpStep
<1>5. CASE Callback
  BY <1>5 DEF Callback, FeedEngine, CheckMode, MirrorFrame, OutputReturns, transport
<1> QED BY <1>2, <1>3, <1>4, <1>5 DEF Next

LEMMA UiScreenStep == UiInv /\ [Next]_vars => Screen'
<1> SUFFICES ASSUME UiInv, [Next]_vars PROVE Screen'
  OBVIOUS
<1> USE DEF UiInv, Screen
<1>1. CASE UNCHANGED <<repaint, ui, overlap, fed, callback, tty_out, mode>>
  BY <1>1 DEF Shown
<1>2. ASSUME UNCHANGED output, ui' # "repaint",
             ui' \in {"read", "act"} /\ mode' = "Raw" => ui \in {"read", "act"} /\ mode = "Raw"
      PROVE  Screen'
  BY <1>2 DEF output, Shown
<1>3. CASE Ui
  <2>0. CASE StopReader
    BY <1>1, <2>0 DEF StopReader, task, output
  <2>1. CASE EnterStructured \/ SwitchOrQuit \/ PumpJoined \/ StructuredFails \/ ReaderJoined
    BY <1>2, <2>1 DEF EnterStructured, SwitchOrQuit, PumpJoined, StructuredFails, ReaderJoined,
       Leave, output
  <2>2. CASE QuitKey \/ IgnoreKey \/ ForwardKey
    BY <1>2, <2>2 DEF QuitKey, IgnoreKey, ForwardKey, TakeKey, Leave, output, Control
  <2>3. CASE CycleKey
    BY <1>2, <2>3 DEF CycleKey, TakeKey, Leave, output, Control, Structured
  <2>4. CASE RawFails \/ StdinEnds \/ LeaveRaw \/ DetachRaw \/ ForwardEof
    BY <1>2, <2>4 DEF RawFails, StdinEnds, LeaveRaw, DetachRaw, ForwardEof, Return, output, Control
  <2>5. CASE ForwardBytes
    BY <1>2, <2>5 DEF ForwardBytes, Acting, output, Control, Structured
  <2>6. CASE ForwardFails
    BY <1>2, <2>6 DEF ForwardFails, Leave, Return, output, Control
  <2>7. CASE ReadStdin
    BY <1>2, <2>7 DEF ReadStdin, output, Control
  <2>8. CASE EnterRaw
    <3>1. ASSUME ~overlap' PROVE callback = "feed"
      BY <2>8, <3>1, Zenon DEF EnterRaw
    <3>2. callback' = callback /\ ui' = "repaint" /\ repaint' = fed /\ fed' = fed
      BY <2>8 DEF EnterRaw
    <3> QED BY <3>1, <3>2 DEF Output
  <2>9. CASE Repaint
    <3>1. ASSUME ~overlap' PROVE tty_out' = Shown'
      <4>1. callback = "feed" /\ fed = repaint
        BY <2>9, <3>1 DEF Repaint
      <4> QED BY <2>9, <4>1 DEF Repaint, Shown
    <3> QED BY <2>9, <3>1 DEF Repaint
  <2> QED BY <1>3, <2>0, <2>1, <2>2, <2>3, <2>4, <2>5, <2>6, <2>7, <2>8, <2>9 DEF Ui
<1>4. CASE KeyReader \/ PumpStep \/ (\E k \in Key : Type(k)) \/ UNCHANGED vars
  <2>1. UNCHANGED <<repaint, ui, overlap, fed, callback, tty_out, mode>>
    BY <1>4 DEF KeyReader, ReaderChecks, ReaderTimesOut, ReaderReads, ReaderSends, ReaderFails,
       PumpStep, Type, vars, task, output
  <2> QED BY <1>1, <2>1
<1>5. CASE FeedEngine
  <2>1. /\ UNCHANGED <<repaint, ui, overlap, tty_out, mode>>
        /\ fed' = fed + 1 /\ callback = "feed" /\ callback' = "check" /\ fed \in Nat
    BY <1>5 DEF FeedEngine, task, Output
  <2>2. Shown' = Shown
    BY <2>1 DEF Shown
  <2> QED BY <2>1, <2>2
<1>6. CASE CheckMode
  <2>1. UNCHANGED <<repaint, ui, overlap, tty_out, mode, fed>>
    BY <1>6 DEF CheckMode, task
  <2>2. CASE mode = "Raw"
    <3>1. callback = "check" /\ callback' = "write"
      BY <1>6, <2>2 DEF CheckMode
    <3>2. Shown' = Shown
      BY <2>1, <3>1 DEF Shown
    <3> QED BY <2>1, <3>1, <3>2
  <2>3. CASE mode # "Raw"
    <3>1. ui # "repaint" /\ callback' = "feed"
      BY <1>6, <2>3 DEF CheckMode, Control
    <3> QED BY <2>1, <2>3, <3>1
  <2> QED BY <2>2, <2>3
<1>7. CASE MirrorFrame
  <2>1. /\ UNCHANGED <<repaint, ui, overlap, mode, fed>> /\ tty_out' = Append(tty_out, fed)
        /\ callback = "write" /\ callback' = "feed" /\ fed \in Nat
    BY <1>7 DEF MirrorFrame, task, Output
  <2>2. fed >= 1
    BY <1>7 DEF MirrorFrame, Output
  <2>3. Append(Shown, fed) = Shown'
    <3>1. Shown = [i \in 1 .. fed - 1 |-> i] /\ Shown' = [i \in 1 .. fed |-> i]
      BY <2>1 DEF Shown
    <3>2. Shown \in Seq(Nat) /\ Len(Shown) = fed - 1
      BY <2>1, <2>2, <3>1
    <3> QED BY <2>1, <2>2, <3>1, <3>2
  <2> QED BY <2>1, <2>3
<1> QED BY <1>3, <1>4, <1>5, <1>6, <1>7 DEF Next, Callback

-----------------------------------------------------------------------------
LEMMA TailOfConcat ==
  ASSUME NEW q \in Seq(Keystroke), q # <<>>, NEW t \in Seq(Keystroke)
  PROVE  Tail(q) \o t = Tail(q \o t) /\ Head(q \o t) = Head(q) /\ q \o t # <<>>
<1>1. /\ Tail(q) \in Seq(Keystroke) /\ Len(Tail(q)) = Len(q) - 1 /\ Len(q) \in Nat /\ Len(q) >= 1
      /\ \A i \in 1 .. Len(q) - 1 : Tail(q)[i] = q[i + 1]
      /\ Head(q) = q[1]
  OBVIOUS
<1>2. /\ q \o t \in Seq(Keystroke) /\ Len(q \o t) = Len(q) + Len(t) /\ Len(t) \in Nat
      /\ \A i \in 1 .. Len(q) : (q \o t)[i] = q[i]
      /\ \A i \in 1 .. Len(q) + Len(t) : ~(i =< Len(q)) => (q \o t)[i] = t[i - Len(q)]
  BY ConcatFacts
<1> DEFINE u == q \o t
           w == Tail(q)
<1> HIDE DEF w
<1>3. /\ w \o t \in Seq(Keystroke) /\ Len(w \o t) = Len(w) + Len(t)
      /\ \A i \in 1 .. Len(w) : (w \o t)[i] = w[i]
      /\ \A i \in 1 .. Len(w) + Len(t) : ~(i =< Len(w)) => (w \o t)[i] = t[i - Len(w)]
  BY <1>1, ConcatFacts DEF w
<1> HIDE DEF u
<1>4. u \in Seq(Keystroke) /\ Len(u) = Len(q) + Len(t) /\ u # <<>>
  BY <1>1, <1>2 DEF u
<1>5. /\ Tail(u) \in Seq(Keystroke) /\ Len(Tail(u)) = Len(u) - 1 /\ Head(u) = u[1]
      /\ \A i \in 1 .. Len(u) - 1 : Tail(u)[i] = u[i + 1]
  BY <1>4
<1>6. ASSUME NEW i \in 1 .. Len(w) + Len(t) PROVE (w \o t)[i] = Tail(u)[i]
  <2>1. i \in 1 .. Len(u) - 1 /\ i + 1 \in 1 .. Len(q) + Len(t) /\ Tail(u)[i] = u[i + 1]
        /\ Len(w) = Len(q) - 1
    BY <1>1, <1>2, <1>4, <1>5 DEF w
  <2>2. CASE i =< Len(w)
    <3>1. (w \o t)[i] = w[i] /\ w[i] = q[i + 1] /\ i + 1 \in 1 .. Len(q)
      BY <1>1, <1>3, <2>1, <2>2 DEF w
    <3> QED BY <1>2, <2>1, <3>1 DEF u
  <2>3. CASE ~(i =< Len(w))
    <3>1. (w \o t)[i] = t[i - Len(w)] /\ ~(i + 1 =< Len(q)) /\ i - Len(w) = (i + 1) - Len(q)
      BY <1>1, <1>3, <2>1, <2>3
    <3> QED BY <1>2, <2>1, <3>1 DEF u
  <2> QED BY <2>2, <2>3
<1>7. w \o t = Tail(u)
  <2>1. Len(w \o t) = Len(Tail(u)) /\ Len(w) = Len(q) - 1
    BY <1>1, <1>2, <1>3, <1>4, <1>5 DEF w
  <2> QED BY <1>3, <1>5, <1>6, <2>1, SeqEqual
<1>8. Head(u) = Head(q)
  BY <1>1, <1>2, <1>5 DEF u
<1> QED BY <1>4, <1>7, <1>8 DEF u, w

(* What is behind the first key comes later.                               *)
LEMMA TailRises ==
  ASSUME NEW u \in Seq(Keystroke), u # <<>>, Rising(Numbers(u))
  PROVE  /\ Tail(u) \in Seq(Keystroke) /\ Rising(Numbers(Tail(u)))
         /\ Keys(Tail(u)) \subseteq Keys(u)
         /\ Head(u) \in Keystroke /\ Head(u).n \in Keys(u)
         /\ Before({Head(u).n}, Keys(Tail(u)))
<1> DEFINE v == Tail(u)
<1>1. /\ v \in Seq(Keystroke) /\ Len(v) = Len(u) - 1 /\ Len(u) \in Nat /\ Len(u) >= 1
      /\ \A i \in 1 .. Len(u) - 1 : v[i] = u[i + 1]
      /\ Head(u) = u[1] /\ u[1] \in Keystroke
  OBVIOUS
<1> HIDE DEF v
<1>2. /\ DOMAIN Numbers(u) = 1 .. Len(u) /\ \A i \in 1 .. Len(u) : Numbers(u)[i] = u[i].n
      /\ DOMAIN Numbers(v) = 1 .. Len(u) - 1
      /\ \A i \in 1 .. Len(u) - 1 : Numbers(v)[i] = v[i].n
  BY <1>1 DEF Numbers
<1>3. \A i \in 1 .. Len(u) - 1 : Numbers(v)[i] = Numbers(u)[i + 1] /\ i + 1 \in 1 .. Len(u) /\ 1 < i + 1
  BY <1>1, <1>2
<1>4. Rising(Numbers(v))
  BY <1>1, <1>2, <1>3, SMTT(30) DEF Rising
<1>5. ASSUME NEW x \in Keys(v) PROVE x \in Keys(u)
  <2>1. PICK i \in 1 .. Len(u) - 1 : x = Numbers(v)[i]
    BY <1>2 DEF Keys, Range
  <2>2. x = Numbers(u)[i + 1] /\ i + 1 \in DOMAIN Numbers(u)
    BY <1>2, <1>3, <2>1
  <2> QED BY <2>2 DEF Keys, Range
<1>6. 1 \in 1 .. Len(u) /\ Numbers(u)[1] = Head(u).n
  BY <1>1, <1>2
<1>7. Head(u).n \in Keys(u)
  BY <1>2, <1>6 DEF Keys, Range
<1>8. ASSUME NEW x \in Keys(v) PROVE Head(u).n < x
  <2>1. PICK i \in 1 .. Len(u) - 1 : x = Numbers(v)[i]
    BY <1>2 DEF Keys, Range
  <2> QED BY <1>2, <1>3, <1>6, <2>1 DEF Rising
<1> QED BY <1>1, <1>4, <1>5, <1>7, <1>8 DEF v, Before

(* Keys that are dropped leave the others in line.                         *)
LEMMA Dropped ==
  ASSUME UiInv, UNCHANGED <<typed, tty_in, read_key, queued>>,
         held' = held \/ held' = <<>>,
         key_q' = key_q \/ key_q' = <<>>,
         armed' = armed \/ armed' = <<>>,
         reader' = "send" => reader = "send",
         Waiting' = Waiting \/ Waiting' = <<>>
  PROVE  Typed' /\ KeysInLine'
<1>1. Typed'
  <2>1. <<>> \in Seq(Keystroke) /\ <<>> \in Seq(Action)
    OBVIOUS
  <2> QED BY <2>1 DEF UiInv, Typed, Taken
<1>2. KeysInLine'
  <2>1. Taken' = Taken /\ Contents(queued)' = Contents(queued)
    BY DEF Taken, Contents
  <2>2. CarriedBy(held)' = CarriedBy(held) \/ CarriedBy(held)' = CarriedBy(<<>>)
    BY DEF CarriedBy
  <2>3. Numbers(Waiting)' = Numbers(Waiting) \/ Numbers(Waiting)' = Numbers(<<>>)
    BY DEF Numbers
  <2> DEFINE h == CarriedBy(held)
             hh == CarriedBy(held)'
             w == Numbers(Waiting)
             ww == Numbers(Waiting)'
  <2>4. InLine(hh) /\ All(hh) \subseteq All(h)
    BY <2>2, NothingCarried DEF UiInv, KeysInLine
  <2>5. Rising(ww) /\ Range(ww) \subseteq Range(w)
    BY <2>3, NumbersOfNone DEF UiInv, KeysInLine
  <2> QED BY <2>1, <2>4, <2>5 DEF UiInv, KeysInLine, Before, Keys
<1> QED BY <1>1, <1>2

LEMMA DropSteps ==
  ASSUME UiInv,
         \/ EnterStructured \/ SwitchOrQuit \/ PumpJoined \/ StructuredFails \/ StopReader
         \/ ReaderJoined \/ EnterRaw \/ RawFails \/ Repaint \/ StdinEnds
         \/ ForwardFails \/ LeaveRaw \/ DetachRaw \/ (ForwardEof /\ pump \in Ended)
  PROVE  Typed' /\ KeysInLine'
<1>0. <<>> \o <<>> = <<>>
  OBVIOUS
<1>1. CASE EnterStructured \/ SwitchOrQuit \/ PumpJoined \/ StructuredFails \/ StopReader
  <2>1. UNCHANGED <<typed, tty_in, read_key, queued, held, key_q, armed>> /\ ~InRaw /\ ~InRaw'
        /\ (reader' = "send" => reader = "send")
    BY <1>1 DEF EnterStructured, SwitchOrQuit, PumpJoined, StructuredFails, StopReader, Leave,
       InRaw, keys, task, transport, DropSender
  <2>2. Waiting' = Waiting
    BY <2>1 DEF Waiting
  <2> QED BY <2>1, <2>2, Dropped
<1>2. CASE ReaderJoined
  <2>1. UNCHANGED <<typed, tty_in, read_key, queued, held, armed, reader>> /\ ~InRaw'
        /\ key_q' = <<>> /\ read_key = <<>>
    BY <1>2 DEF ReaderJoined, InRaw, UiInv, Control, transport
  <2>2. Waiting' = <<>>
    BY <1>0, <2>1 DEF Waiting
  <2> QED BY <2>1, <2>2, Dropped
<1>3. CASE EnterRaw \/ Repaint
  <2>1. UNCHANGED <<typed, tty_in, read_key, queued, held, key_q, reader>> /\ InRaw'
        /\ (armed' = <<>> \/ (armed' = armed /\ InRaw))
    BY <1>3 DEF EnterRaw, Repaint, InRaw, keys, transport
  <2>2. Waiting' = Waiting \/ Waiting' = <<>>
    BY <2>1 DEF Waiting
  <2> QED BY <2>1, <2>2, Dropped
<1>4. CASE RawFails \/ StdinEnds \/ LeaveRaw \/ DetachRaw \/ (ForwardEof /\ pump \in Ended)
           \/ (ForwardFails /\ ~Structured(mode))
  <2>1. /\ UNCHANGED <<typed, tty_in, read_key, queued, key_q, armed, reader>> /\ ~InRaw'
        /\ held' = held \/ held' = <<>>
    BY <1>4 DEF RawFails, StdinEnds, LeaveRaw, DetachRaw, ForwardEof, ForwardFails, Return, keys,
       transport, InRaw
  <2>2. key_q = <<>> /\ read_key = <<>>
    BY <1>4 DEF RawFails, StdinEnds, LeaveRaw, DetachRaw, ForwardEof, ForwardFails, Acting,
       Structured, InRaw, UiInv, Control
  <2>3. Waiting' = <<>>
    BY <1>0, <2>1, <2>2 DEF Waiting
  <2> QED BY <2>1, <2>3, Dropped
<1>5. CASE ForwardFails /\ Structured(mode)
  <2>1. UNCHANGED <<typed, tty_in, read_key, queued, key_q, armed, reader>> /\ ~InRaw' /\ ~InRaw
        /\ held' = <<>>
    BY <1>5 DEF ForwardFails, Acting, Leave, Structured, transport, InRaw
  <2>2. Waiting' = Waiting
    BY <2>1 DEF Waiting
  <2> QED BY <2>1, <2>2, Dropped
<1> QED BY <1>1, <1>2, <1>3, <1>4, <1>5

(* Steps that no key takes part in.                                        *)
LEMMA StandStill ==
  ASSUME UiInv, UNCHANGED <<task, queued>>,
         UNCHANGED <<read_key, key_q, tty_in, typed>>,
         reader' = "send" => reader = "send"
  PROVE  Typed' /\ KeysInLine'
<1>1. UNCHANGED <<typed, tty_in, read_key, queued, held, key_q, armed, ui, mode>>
  BY DEF task
<1>2. Waiting' = Waiting
  BY <1>1 DEF Waiting, InRaw
<1> QED BY <1>1, <1>2, Dropped

LEMMA OtherSteps ==
  ASSUME UiInv,
         ReaderChecks \/ ReaderTimesOut \/ ReaderFails \/ PumpStep \/ Callback \/ UNCHANGED vars
  PROVE  Typed' /\ KeysInLine'
<1>1. UNCHANGED <<task, queued, read_key, key_q, tty_in, typed>>
  <2>1. CASE PumpStep
    BY <2>1 DEF PumpStep, TakeInput, InputClosed, Sent, SendFails, RecvFrame, SocketEnds, End,
       keys
  <2>2. CASE Callback
    BY <2>2 DEF Callback, FeedEngine, CheckMode, MirrorFrame, OutputReturns, transport, keys
  <2>3. CASE ReaderChecks \/ ReaderTimesOut \/ ReaderFails \/ UNCHANGED vars
    BY <2>3 DEF ReaderChecks, ReaderTimesOut, ReaderFails, vars, transport, keys
  <2> QED BY <2>1, <2>2, <2>3
<1>2. reader' = "send" => reader = "send"
  BY DEF ReaderChecks, ReaderTimesOut, ReaderFails, PumpStep, Callback, FeedEngine, CheckMode,
     MirrorFrame, vars, keys
<1> QED BY <1>1, <1>2, StandStill

-----------------------------------------------------------------------------
LEMMA ConcatNothing ==
  ASSUME NEW X, NEW s \in Seq(X)
  PROVE  s \o <<>> = s
OBVIOUS

(* One key in hand.                                                        *)
LEMMA OneCarried ==
  ASSUME NEW k \in Keystroke
  PROVE  /\ InLine(CarriedBy(KeyToBytes(k)))
         /\ All(CarriedBy(KeyToBytes(k))) \subseteq {k.n}
<1>1. CASE KeyToBytes(k) = <<>>
  BY <1>1, NothingCarried
<1>2. CASE KeyToBytes(k) = <<Forward(<<k>>)>>
  <2> DEFINE c == CarriedBy(<<Forward(<<k>>)>>)
  <2>1. Carried(Forward(<<k>>)) = <<k.n>> /\ Rising(<<k.n>>) /\ Range(<<k.n>>) = {k.n}
    BY NumbersOfOne, ForwardFields
  <2>2. DOMAIN c = {1} /\ c[1] = <<k.n>>
    BY <2>1 DEF CarriedBy
  <2> HIDE DEF c
  <2>3. InLine(c) /\ All(c) = {k.n}
    BY <2>1, <2>2 DEF InLine, All
  <2> QED BY <1>2, <2>3 DEF c
<1> QED BY <1>1, <1>2 DEF KeyToBytes

LEMMA TakeKeySteps ==
  ASSUME UiInv, QuitKey \/ CycleKey \/ IgnoreKey \/ ForwardKey
  PROVE  Typed' /\ KeysInLine'
<1>1. /\ ui = "select" /\ key_q # <<>> /\ key_q' = Tail(key_q)
      /\ UNCHANGED <<armed, reader, read_key, tty_in, typed, queued>>
      /\ held' = <<>> \/ held' = KeyToBytes(Head(key_q))
  <2>1. TakeKey /\ held = <<>> /\ (held' = held \/ held' = KeyToBytes(Head(key_q)))
    BY DEF QuitKey, CycleKey, IgnoreKey, ForwardKey, TakeKey, UiInv, Control
  <2> QED BY <2>1 DEF TakeKey, transport
<1>2. ~InRaw /\ ~InRaw'
  BY DEF QuitKey, CycleKey, IgnoreKey, ForwardKey, TakeKey, InRaw, UiInv, Control, Leave,
     Structured
<1>3. key_q \in Seq(Keystroke) /\ read_key \in Seq(Keystroke)
  BY DEF UiInv, Typed
<1>4. Waiting \in Seq(Keystroke) /\ Waiting # <<>> /\ Waiting' = Tail(Waiting)
      /\ Head(Waiting) = Head(key_q)
  <2>1. Waiting = key_q \o read_key /\ Waiting' = Tail(key_q) \o read_key
    BY <1>1, <1>2 DEF Waiting
  <2>2. key_q \o read_key \in Seq(Keystroke)
    BY <1>3, ConcatFacts
  <2> QED BY <1>1, <1>3, <2>1, <2>2, TailOfConcat
<1> DEFINE k == Head(key_q)
           w == Waiting
<1>5. /\ Rising(Numbers(Tail(w))) /\ Keys(Tail(w)) \subseteq Keys(w)
      /\ k \in Keystroke /\ k.n \in Keys(w) /\ Before({k.n}, Keys(Tail(w)))
  BY <1>4, TailRises DEF UiInv, KeysInLine
<1>6. /\ InLine(CarriedBy(held)') /\ All(CarriedBy(held)') \subseteq {k.n}
      /\ held' \in Seq(Action)
  <2>1. <<>> \in Seq(Action)
    OBVIOUS
  <2>2. CarriedBy(held)' = CarriedBy(held')
    BY DEF CarriedBy
  <2> QED BY <1>1, <1>5, <2>1, <2>2, NothingCarried, OneCarried, KeyBytes
<1>7. Typed'
  <2>1. Tail(key_q) \in Seq(Keystroke)
    BY <1>1, <1>3
  <2> QED BY <1>1, <1>6, <2>1 DEF UiInv, Typed, Taken
<1>8. KeysInLine'
  <2>1. Taken' = Taken /\ Contents(queued)' = Contents(queued)
    BY <1>1 DEF Taken, Contents
  <2>2. Numbers(Waiting)' = Numbers(Tail(w))
    BY <1>4 DEF Numbers
  <2> DEFINE hh == CarriedBy(held)'
             ww == Numbers(Tail(w))
             wo == Numbers(w)
             q == Contents(queued)
  <2>3. /\ InLine(q) /\ Before(All(q), All(CarriedBy(held)) \cup Range(wo))
        /\ All(q) \cup All(CarriedBy(held)) \cup Range(wo) \subseteq 1 .. Taken
    BY DEF UiInv, KeysInLine, Keys
  <2>4. /\ Rising(ww) /\ Range(ww) \subseteq Range(wo) /\ InLine(hh) /\ All(hh) \subseteq {k.n}
        /\ k.n \in Range(wo) /\ Before({k.n}, Range(ww))
    BY <1>5, <1>6 DEF Keys
  <2>5. /\ InLine(q) /\ InLine(hh) /\ Rising(ww)
        /\ Before(All(q), All(hh) \cup Range(ww)) /\ Before(All(hh), Range(ww))
        /\ All(q) \cup All(hh) \cup Range(ww) \subseteq 1 .. Taken
    <3> HIDE DEF hh, ww, wo, q, k
    <3> QED BY <2>3, <2>4 DEF Before
  <2> QED BY <2>1, <2>2, <2>5 DEF KeysInLine, Keys
<1> QED BY <1>7, <1>8

(* The reader hands a key on.                                              *)
LEMMA ReaderSendsStep ==
  ASSUME UiInv, ReaderSends
  PROVE  Typed' /\ KeysInLine'
<1>1. /\ key_q' = key_q \o read_key /\ read_key' = <<>> /\ reader = "send" /\ reader' = "check"
      /\ UNCHANGED <<tty_in, typed, queued, held, armed, ui, mode>>
      /\ key_q \in Seq(Keystroke) /\ read_key \in Seq(Keystroke)
  BY DEF ReaderSends, transport, task, UiInv, Typed
<1>2. ~InRaw /\ ~InRaw'
  BY <1>1 DEF InRaw, UiInv, Control
<1>3. key_q \o read_key \in Seq(Keystroke)
  BY <1>1, ConcatFacts
<1>4. Waiting' = Waiting
  BY <1>1, <1>2, <1>3, ConcatNothing DEF Waiting
<1>5. Typed'
  <2>1. <<>> \in Seq(Keystroke)
    OBVIOUS
  <2> QED BY <1>1, <1>3, <2>1 DEF UiInv, Typed, Taken
<1>6. KeysInLine'
  <2>1. /\ Taken' = Taken /\ Contents(queued)' = Contents(queued)
        /\ CarriedBy(held)' = CarriedBy(held) /\ Numbers(Waiting)' = Numbers(Waiting)
    BY <1>1, <1>4 DEF Taken, Contents, CarriedBy, Numbers
  <2> QED BY <2>1 DEF UiInv, KeysInLine, Before, Keys
<1> QED BY <1>5, <1>6

(* The reader takes the next key from the terminal.                        *)
LEMMA ReaderReadsStep ==
  ASSUME UiInv, ReaderReads
  PROVE  Typed' /\ KeysInLine'
<1> DEFINE k == Head(tty_in)
<1>1. /\ tty_in # <<>> /\ tty_in' = Tail(tty_in) /\ read_key' = <<k>> /\ reader' = "send"
      /\ UNCHANGED <<typed, queued, held, armed, ui, mode, key_q>>
      /\ read_key = <<>> /\ tty_in \in Seq(Keystroke) /\ key_q \in Seq(Keystroke)
      /\ reader = "poll"
  BY DEF ReaderReads, transport, task, UiInv, Typed, Control
<1>2. ~InRaw /\ ~InRaw'
  BY <1>1 DEF InRaw, UiInv, Control
<1>3. /\ k \in Keystroke /\ k.n = Taken + 1 /\ Taken' = Taken + 1 /\ Taken \in Nat
      /\ Tail(tty_in) \in Seq(Keystroke) /\ Len(Tail(tty_in)) =< typed
      /\ \A i \in 1 .. Len(Tail(tty_in)) : Tail(tty_in)[i].n = Taken + 1 + i
  <2>1. /\ k = tty_in[1] /\ k \in Keystroke /\ Len(tty_in) \in Nat /\ Len(tty_in) >= 1
        /\ Tail(tty_in) \in Seq(Keystroke) /\ Len(Tail(tty_in)) = Len(tty_in) - 1
        /\ \A i \in 1 .. Len(tty_in) - 1 : Tail(tty_in)[i] = tty_in[i + 1]
    BY <1>1
  <2>2. /\ typed \in Nat /\ Len(tty_in) =< typed
        /\ \A i \in 1 .. Len(tty_in) : tty_in[i].n = Taken + i
    BY MessageAssumption DEF UiInv, Typed
  <2>3. Taken' = typed - Len(Tail(tty_in)) /\ Taken = typed - Len(tty_in)
    BY <1>1 DEF Taken
  <2> HIDE DEF k
  <2>4. Taken' = Taken + 1 /\ Taken \in Nat /\ k.n = Taken + 1
    BY <2>1, <2>2, <2>3
  <2>5. \A i \in 1 .. Len(Tail(tty_in)) : Tail(tty_in)[i].n = Taken + 1 + i
    BY <2>1, <2>2, <2>4
  <2> QED BY <2>1, <2>2, <2>4, <2>5
<1>4. Waiting = key_q /\ Waiting' = key_q \o <<k>>
  BY <1>1, <1>2, ConcatNothing DEF Waiting
<1> HIDE DEF k
<1>5. /\ <<k>> \in Seq(Keystroke) /\ Numbers(<<k>>) = <<k.n>> /\ Rising(<<k.n>>)
      /\ Range(<<k.n>>) = {k.n} /\ Numbers(key_q) \in Seq(Nat) /\ <<k.n>> \in Seq(Nat)
  BY <1>1, <1>3, NumbersOfOne, NumbersSound
<1>6. Numbers(key_q \o <<k>>) = Numbers(key_q) \o <<k.n>>
  BY <1>1, <1>5, NumbersConcat
<1>7. /\ Rising(Numbers(key_q) \o <<k.n>>)
      /\ Range(Numbers(key_q) \o <<k.n>>) = Range(Numbers(key_q)) \cup {k.n}
  <2>1. Rising(Numbers(key_q)) /\ Range(Numbers(key_q)) \subseteq 1 .. Taken
    BY <1>4 DEF UiInv, KeysInLine, Keys
  <2>2. Before(Range(Numbers(key_q)), Range(<<k.n>>))
    BY <1>3, <1>5, <2>1 DEF Before
  <2>3. Rising(Numbers(key_q) \o <<k.n>>)
    BY <1>5, <2>1, <2>2, RisingConcat
  <2>4. Range(Numbers(key_q) \o <<k.n>>) = Range(Numbers(key_q)) \cup Range(<<k.n>>)
    <3>1. Numbers(key_q) \in Seq(Nat) /\ <<k.n>> \in Seq(Nat)
      BY <1>5
    <3> QED BY <3>1, RangeOfTwo, Zenon
  <2> QED BY <1>5, <2>3, <2>4
<1>8. Typed'
  <2>1. Len(<<k>>) = 1
    OBVIOUS
  <2>2. \A i \in 1 .. Len(tty_in') : tty_in'[i].n = Taken' + i
    BY <1>1, <1>3
  <2> QED BY <1>1, <1>3, <1>5, <2>1, <2>2 DEF UiInv, Typed
<1>9. KeysInLine'
  <2> DEFINE q == Contents(queued)
             h == CarriedBy(held)
             w == Numbers(key_q)
             ww == Numbers(key_q) \o <<k.n>>
  <2>1. /\ Contents(queued)' = q /\ CarriedBy(held)' = h /\ Numbers(Waiting)' = ww
    BY <1>1, <1>4, <1>6 DEF Contents, CarriedBy, Numbers
  <2>2. /\ InLine(q) /\ InLine(h) /\ Before(All(q), All(h) \cup Range(w)) /\ Before(All(h), Range(w))
        /\ All(q) \cup All(h) \cup Range(w) \subseteq 1 .. Taken
    BY <1>4 DEF UiInv, KeysInLine, Keys
  <2>3. Rising(ww) /\ Range(ww) = Range(w) \cup {k.n}
    BY <1>7
  <2>4. /\ Before(All(q), All(h) \cup Range(ww)) /\ Before(All(h), Range(ww))
        /\ All(q) \cup All(h) \cup Range(ww) \subseteq 1 .. Taken + 1
    <3> HIDE DEF q, h, w, ww
    <3>1. \A x \in 1 .. Taken : x < k.n
      BY <1>3
    <3>2. 1 .. Taken \subseteq 1 .. Taken + 1 /\ k.n \in 1 .. Taken + 1
      BY <1>3
    <3> QED BY <2>2, <2>3, <3>1, <3>2 DEF Before
  <2> QED BY <1>3, <2>1, <2>2, <2>3, <2>4 DEF KeysInLine, Keys
<1> QED BY <1>8, <1>9

(* A key is typed.                                                         *)
LEMMA TypeStep ==
  ASSUME UiInv, NEW k \in Key, Type(k)
  PROVE  Typed' /\ KeysInLine'
<1> DEFINE e == [key |-> k, n |-> typed + 1]
<1>1. /\ typed < MaxKeys /\ typed' = typed + 1 /\ tty_in' = Append(tty_in, e)
      /\ UNCHANGED <<reader, read_key, key_q, queued, held, armed, ui, mode>>
  BY DEF Type, transport, task
<1>2. /\ typed \in 0 .. MaxKeys /\ tty_in \in Seq(Keystroke) /\ Len(tty_in) =< typed
      /\ Len(tty_in) \in Nat /\ typed \in Nat
      /\ \A i \in 1 .. Len(tty_in) : tty_in[i].n = Taken + i
  BY MessageAssumption DEF UiInv, Typed
<1>3. e \in Keystroke /\ e.n = typed + 1
  BY <1>2 DEF Keystroke
<1> HIDE DEF e
<1>4. /\ Append(tty_in, e) \in Seq(Keystroke) /\ Len(Append(tty_in, e)) = Len(tty_in) + 1
      /\ Append(tty_in, e)[Len(tty_in) + 1] = e
      /\ \A i \in 1 .. Len(tty_in) : Append(tty_in, e)[i] = tty_in[i]
  BY <1>2, <1>3
<1>5. Taken' = Taken /\ Taken = typed - Len(tty_in)
  BY <1>1, <1>2, <1>4 DEF Taken
<1>6. \A i \in 1 .. Len(tty_in) + 1 : Append(tty_in, e)[i].n = Taken + i
  <2> SUFFICES ASSUME NEW i \in 1 .. Len(tty_in) + 1 PROVE Append(tty_in, e)[i].n = Taken + i
    OBVIOUS
  <2>1. CASE i \in 1 .. Len(tty_in)
    BY <1>2, <1>4, <2>1
  <2>2. CASE i = Len(tty_in) + 1
    BY <1>2, <1>3, <1>4, <1>5, <2>2
  <2>3. i \in 1 .. Len(tty_in) \/ i = Len(tty_in) + 1
    BY <1>2
  <2> QED BY <2>1, <2>2, <2>3
<1>7. Typed'
  <2>1. /\ typed' \in 0 .. MaxKeys /\ tty_in' \in Seq(Keystroke) /\ Len(tty_in') =< typed'
        /\ \A i \in 1 .. Len(tty_in') : tty_in'[i].n = Taken' + i
    BY <1>1, <1>2, <1>4, <1>5, <1>6, MessageAssumption
  <2> QED BY <1>1, <2>1 DEF UiInv, Typed
<1>8. KeysInLine'
  <2>1. /\ Contents(queued)' = Contents(queued) /\ CarriedBy(held)' = CarriedBy(held)
        /\ Numbers(Waiting)' = Numbers(Waiting)
    BY <1>1 DEF Contents, CarriedBy, Numbers, Waiting, InRaw
  <2> QED BY <1>5, <2>1 DEF UiInv, KeysInLine, Before, Keys
<1> QED BY <1>7, <1>8

-----------------------------------------------------------------------------
(* What was queued is below what the parser holds back.                    *)
LEMMA LowestHeld ==
  ASSUME UiInv, InRaw
  PROVE  \E lo \in Nat : /\ lo =< Taken /\ Keys(armed) \subseteq lo + 1 .. Taken
                         /\ All(Contents(queued)) \subseteq 1 .. lo
<1> DEFINE q == All(Contents(queued))
           a == Numbers(armed)
<1>1. /\ Taken \in Nat /\ q \subseteq 1 .. Taken /\ Range(a) \subseteq 1 .. Taken
      /\ Rising(a) /\ Before(q, Range(a))
  <2>1. Taken \in Nat
    BY MessageAssumption DEF UiInv, Typed, Taken
  <2> QED BY <2>1 DEF UiInv, KeysInLine, Waiting, Keys, Before
<1>2. a \in Seq(Nat)
  BY NumbersSound DEF UiInv, Typed
<1> HIDE DEF q, a
<1>3. CASE a = <<>>
  <2>1. Range(a) = {}
    BY <1>3, EmptyRises
  <2> QED BY <1>1, <2>1 DEF q, a, Keys
<1>4. CASE a # <<>>
  <2>1. 1 \in DOMAIN a /\ a[1] \in Range(a) /\ \A i \in DOMAIN a : i = 1 \/ 1 < i
    BY <1>2, <1>4 DEF Range
  <2>2. a[1] \in 1 .. Taken /\ a[1] - 1 \in Nat /\ a[1] - 1 =< Taken
    BY <1>1, <2>1
  <2>3. \A x \in Range(a) : a[1] =< x
    <3> SUFFICES ASSUME NEW i \in DOMAIN a PROVE a[1] =< a[i]
      BY DEF Range
    <3>1. CASE i = 1
      BY <2>2, <3>1
    <3>2. CASE 1 < i
      <4>1. a[1] < a[i]
        BY <1>1, <2>1, <3>2 DEF Rising
      <4>2. a[i] \in 1 .. Taken
        BY <1>1 DEF Range
      <4> QED BY <2>2, <4>1, <4>2
    <3> QED BY <2>1, <3>1, <3>2
  <2>4. Range(a) \subseteq (a[1] - 1) + 1 .. Taken
    BY <1>1, <2>2, <2>3
  <2>5. q \subseteq 1 .. a[1] - 1
    <3>1. \A x \in q : x < a[1]
      BY <1>1, <2>1 DEF Before
    <3> QED BY <1>1, <2>2, <3>1
  <2> QED BY <2>2, <2>4, <2>5 DEF q, a, Keys
<1> QED BY <1>3, <1>4

LEMMA ReadStdinStep ==
  ASSUME UiInv, ReadStdin
  PROVE  Typed' /\ KeysInLine'
<1>1. PICK n \in 1 .. Len(tty_in) :
        LET p == Feed(armed, SubSeq(tty_in, 1, n))
        IN /\ tty_in' = SubSeq(tty_in, n + 1, Len(tty_in))
           /\ armed' = p.armed
           /\ held' = p.actions
           /\ ui' = IF p.actions = <<>> THEN "read" ELSE "act"
  BY DEF ReadStdin
<1> DEFINE s == SubSeq(tty_in, 1, n)
           r == SubSeq(tty_in, n + 1, Len(tty_in))
           p == Feed(armed, s)
<1>2. /\ tty_in' = r /\ armed' = p.armed /\ held' = p.actions /\ ui' \in {"read", "act"}
      /\ UNCHANGED <<mode, flow, reader, read_key, stop, key_q, typed, queued>>
      /\ ui = "read" /\ mode = "Raw" /\ held = <<>>
  BY <1>1 DEF ReadStdin, transport, UiInv, Control
<1>3. /\ tty_in \in Seq(Keystroke) /\ armed \in Seq(Keystroke) /\ typed \in Nat
      /\ Len(tty_in) \in Nat /\ Len(tty_in) =< typed /\ typed \in 0 .. MaxKeys
      /\ \A i \in 1 .. Len(tty_in) : tty_in[i].n = Taken + i
      /\ Taken = typed - Len(tty_in) /\ Taken \in Nat /\ n \in Nat
  BY <1>1, MessageAssumption, SMTT(30) DEF UiInv, Typed, Taken
<1>4. /\ s \in Seq(Keystroke) /\ Len(s) = n /\ \A i \in 1 .. n : s[i] = tty_in[i]
      /\ r \in Seq(Keystroke) /\ Len(r) = Len(tty_in) - n
      /\ \A i \in 1 .. Len(tty_in) - n : r[i] = tty_in[n + i]
  BY <1>1, <1>3
<1> HIDE DEF s, r, p
<1>5. Taken' = Taken + n /\ \A i \in 1 .. Len(r) : r[i].n = Taken + n + i
  <2>1. Taken' = typed - Len(r)
    BY <1>2 DEF Taken
  <2>2. Taken' = Taken + n
    BY <1>3, <1>4, <2>1
  <2>3. ASSUME NEW i \in 1 .. Len(r) PROVE r[i].n = Taken + n + i
    <3>1. n + i \in 1 .. Len(tty_in) /\ i \in 1 .. Len(tty_in) - n /\ i \in Nat
      BY <1>1, <1>3, <1>4
    <3>2. r[i] = tty_in[n + i] /\ tty_in[n + i].n = Taken + (n + i)
      BY <1>3, <1>4, <3>1
    <3> QED BY <1>3, <3>1, <3>2
  <2> QED BY <2>2, <2>3
<1>6. PICK lo \in Nat : /\ lo =< Taken /\ Keys(armed) \subseteq lo + 1 .. Taken
                        /\ All(Contents(queued)) \subseteq 1 .. lo
  BY <1>2, LowestHeld DEF InRaw
<1>7. Rising(Numbers(armed))
  BY <1>2 DEF UiInv, KeysInLine, Waiting, InRaw
<1>8. ASSUME NEW k \in 1 .. Len(s) PROVE s[k].n = Taken + k
  <2>1. k \in 1 .. n /\ k \in 1 .. Len(tty_in)
    BY <1>1, <1>3, <1>4
  <2> QED BY <1>3, <1>4, <2>1
<1>9. ParserOK(p, lo, Taken + n)
  BY <1>3, <1>4, <1>6, <1>7, <1>8, FeedKeepsOrder DEF p
<1>10. p.armed \in Seq(Keystroke) /\ p.actions \in Seq(Action)
  BY <1>9, ParserParts DEF ParserOK
<1>11. Typed'
  <2>1. /\ tty_in' \in Seq(Keystroke) /\ Len(tty_in') =< typed'
        /\ \A i \in 1 .. Len(tty_in') : tty_in'[i].n = Taken' + i
        /\ typed' \in 0 .. MaxKeys
    BY <1>2, <1>3, <1>4, <1>5
  <2> QED BY <1>2, <1>10, <2>1 DEF UiInv, Typed
<1>12. KeysInLine'
  <2> DEFINE q == Contents(queued)
             h == CarriedBy(p.actions)
             w == Numbers(p.armed)
  <2>1. Contents(queued)' = q /\ CarriedBy(held)' = h /\ Numbers(Waiting)' = w
    BY <1>2 DEF Contents, CarriedBy, Numbers, Waiting, InRaw
  <2>2. InLine(q) /\ All(q) \subseteq 1 .. lo
    BY <1>6 DEF UiInv, KeysInLine
  <2>3. /\ InLine(h) /\ Rising(w) /\ Before(All(h), Range(w))
        /\ All(h) \cup Range(w) \subseteq lo + 1 .. Taken + n
    BY <1>9 DEF ParserOK, InOrder, Within, Before, Keys
  <2>4. Before(All(q), All(h) \cup Range(w)) /\ All(q) \cup All(h) \cup Range(w) \subseteq 1 .. Taken + n
    <3> HIDE DEF q, h, w
    <3>1. \A x \in 1 .. lo, y \in lo + 1 .. Taken + n : x < y
      BY <1>3, <1>6
    <3>2. 1 .. lo \subseteq 1 .. Taken + n /\ lo + 1 .. Taken + n \subseteq 1 .. Taken + n
      BY <1>3, <1>6
    <3> QED BY <2>2, <2>3, <3>1, <3>2 DEF Before
  <2> QED BY <1>5, <2>1, <2>2, <2>3, <2>4 DEF KeysInLine, Keys
<1> QED BY <1>11, <1>12

-----------------------------------------------------------------------------
(* The first of the sequences comes before the others.                     *)
LEMMA InLineTail ==
  ASSUME NEW ss \in Seq(Seq(Nat)), ss # <<>>, InLine(ss)
  PROVE  /\ InLine(Tail(ss)) /\ All(Tail(ss)) \subseteq All(ss)
         /\ ss[1] \in Seq(Nat) /\ Rising(ss[1]) /\ Range(ss[1]) \subseteq All(ss)
         /\ Before(Range(ss[1]), All(Tail(ss)))
<1> DEFINE t == Tail(ss)
<1>1. /\ DOMAIN ss = 1 .. Len(ss) /\ Len(ss) \in Nat /\ Len(ss) >= 1
      /\ DOMAIN t = 1 .. Len(ss) - 1 /\ \A i \in 1 .. Len(ss) - 1 : t[i] = ss[i + 1]
      /\ ss[1] \in Seq(Nat)
  OBVIOUS
<1> HIDE DEF t
<1>2. \A i \in 1 .. Len(ss) - 1 : i + 1 \in 1 .. Len(ss) /\ 1 < i + 1 /\ 1 \in 1 .. Len(ss)
  BY <1>1
<1>3. InLine(t)
  <2>1. \A i \in DOMAIN t : Rising(t[i])
    BY <1>1, <1>2 DEF InLine
  <2>2. ASSUME NEW i \in DOMAIN t, NEW j \in DOMAIN t, i < j
        PROVE  Before(Range(t[i]), Range(t[j]))
    <3>1. i + 1 \in DOMAIN ss /\ j + 1 \in DOMAIN ss /\ i + 1 < j + 1
      BY <1>1, <1>2, <2>2
    <3> QED BY <1>1, <3>1 DEF InLine
  <2> QED BY <2>1, <2>2 DEF InLine
<1>4. ASSUME NEW x \in All(t) PROVE x \in All(ss) /\ \A y \in Range(ss[1]) : y < x
  <2>1. PICK i \in DOMAIN t : x \in Range(t[i])
    BY <1>4 DEF All
  <2>2. i + 1 \in DOMAIN ss /\ x \in Range(ss[i + 1]) /\ 1 < i + 1 /\ 1 \in DOMAIN ss
    BY <1>1, <1>2, <2>1
  <2> QED BY <2>2 DEF All, InLine, Before
<1>5. Rising(ss[1]) /\ Range(ss[1]) \subseteq All(ss)
  <2>1. 1 \in DOMAIN ss
    BY <1>1
  <2> QED BY <2>1 DEF InLine, All
<1> QED BY <1>1, <1>3, <1>4, <1>5 DEF t, Before

LEMMA CarriedTail ==
  ASSUME NEW h \in Seq(Action), h # <<>>
  PROVE  /\ CarriedBy(Tail(h)) = Tail(CarriedBy(h)) /\ CarriedBy(h) # <<>>
         /\ CarriedBy(h)[1] = Carried(h[1]) /\ h[1] \in Action
<1>1. /\ Tail(h) \in Seq(Action) /\ Len(Tail(h)) = Len(h) - 1 /\ Len(h) \in Nat /\ Len(h) >= 1
      /\ \A i \in 1 .. Len(h) - 1 : Tail(h)[i] = h[i + 1]
      /\ h[1] \in Action
  OBVIOUS
<1>2. /\ CarriedBy(h) \in Seq(Seq(Nat)) /\ CarriedBy(Tail(h)) \in Seq(Seq(Nat))
      /\ Len(CarriedBy(h)) = Len(h) /\ Len(CarriedBy(Tail(h))) = Len(h) - 1
      /\ \A i \in 1 .. Len(h) : CarriedBy(h)[i] = Carried(h[i])
      /\ \A i \in 1 .. Len(h) - 1 : CarriedBy(Tail(h))[i] = Carried(Tail(h)[i])
  BY <1>1, CarriedSound DEF CarriedBy
<1> DEFINE c == CarriedBy(h)
           d == CarriedBy(Tail(h))
<1> HIDE DEF c, d
<1>3. /\ c # <<>> /\ Tail(c) \in Seq(Seq(Nat)) /\ Len(Tail(c)) = Len(h) - 1
      /\ \A i \in 1 .. Len(h) - 1 : Tail(c)[i] = c[i + 1]
  BY <1>1, <1>2 DEF c
<1>4. \A i \in 1 .. Len(h) - 1 : d[i] = Tail(c)[i]
  BY <1>1, <1>2, <1>3 DEF c, d
<1>5. d = Tail(c)
  <2>1. d \in Seq(Seq(Nat)) /\ Len(d) = Len(h) - 1
    BY <1>2 DEF d
  <2> QED BY <1>3, <1>4, <2>1, SeqEqual
<1>6. c[1] = Carried(h[1])
  BY <1>1, <1>2 DEF c
<1> QED BY <1>1, <1>3, <1>5, <1>6 DEF c, d

LEMMA ContentsAppend ==
  ASSUME NEW q \in Seq(UiMessage), NEW msg \in UiMessage
  PROVE  /\ Append(q, msg) \in Seq(UiMessage)
         /\ Contents(q) \in Seq(Seq(Nat)) /\ msg.bytes \in Seq(Nat)
         /\ Contents(Append(q, msg)) = Append(Contents(q), msg.bytes)
<1>1. /\ Append(q, msg) \in Seq(UiMessage) /\ Len(Append(q, msg)) = Len(q) + 1 /\ Len(q) \in Nat
      /\ Append(q, msg)[Len(q) + 1] = msg
      /\ \A i \in 1 .. Len(q) : Append(q, msg)[i] = q[i] /\ q[i] \in UiMessage
  OBVIOUS
<1>2. \A m \in UiMessage : m.bytes \in Seq(Nat)
  BY DEF UiMessage
<1> DEFINE c == Contents(q)
           d == Contents(Append(q, msg))
<1>3. /\ c \in Seq(Seq(Nat)) /\ Len(c) = Len(q) /\ \A i \in 1 .. Len(q) : c[i] = q[i].bytes
  BY <1>1, <1>2 DEF Contents
<1>4. /\ d \in Seq(Seq(Nat)) /\ Len(d) = Len(q) + 1
      /\ \A i \in 1 .. Len(q) + 1 : d[i] = Append(q, msg)[i].bytes
  <2> DEFINE e == Append(q, msg)
  <2>0. \A i \in 1 .. Len(q) + 1 : e[i] \in UiMessage
    BY <1>1
  <2> HIDE DEF e
  <2>1. d = [i \in 1 .. Len(q) + 1 |-> e[i].bytes]
    BY <1>1 DEF Contents, e
  <2>2. \A i \in 1 .. Len(q) + 1 : e[i].bytes \in Seq(Nat)
    BY <1>2, <2>0
  <2> HIDE DEF d
  <2> QED BY <1>1, <2>1, <2>2 DEF e
<1> HIDE DEF c, d
<1>5. /\ Append(c, msg.bytes) \in Seq(Seq(Nat)) /\ Len(Append(c, msg.bytes)) = Len(q) + 1
      /\ Append(c, msg.bytes)[Len(q) + 1] = msg.bytes
      /\ \A i \in 1 .. Len(q) : Append(c, msg.bytes)[i] = c[i]
  BY <1>2, <1>3
<1>6. ASSUME NEW i \in 1 .. Len(q) + 1 PROVE d[i] = Append(c, msg.bytes)[i]
  <2>1. CASE i \in 1 .. Len(q)
    BY <1>1, <1>3, <1>4, <1>5, <2>1
  <2>2. CASE i = Len(q) + 1
    BY <1>1, <1>4, <1>5, <2>2
  <2>3. i \in 1 .. Len(q) \/ i = Len(q) + 1
    BY <1>1
  <2> QED BY <2>1, <2>2, <2>3
<1>7. d = Append(c, msg.bytes)
  BY <1>4, <1>5, <1>6, SeqEqual
<1> QED BY <1>1, <1>2, <1>3, <1>7 DEF c, d

(* The first action in hand is sent.                                       *)
LEMMA FirstSent ==
  ASSUME UiInv, held # <<>>,
         NEW msg \in UiMessage, msg.bytes = Carried(held[1]), queued' = Append(queued, msg),
         held' = Tail(held) \/ held' = <<>>,
         UNCHANGED <<typed, tty_in, read_key, key_q, armed, reader>>,
         Waiting' = Waiting \/ Waiting' = <<>>
  PROVE  Typed' /\ KeysInLine'
<1>1. held \in Seq(Action) /\ queued \in Seq(UiMessage)
  BY DEF UiInv, Typed
<1> DEFINE h == CarriedBy(held)
           hh == CarriedBy(held)'
           q == Contents(queued)
           w == Numbers(Waiting)
           ww == Numbers(Waiting)'
<1>2. /\ h \in Seq(Seq(Nat)) /\ h # <<>> /\ InLine(h) /\ h[1] = msg.bytes
      /\ CarriedBy(Tail(held)) = Tail(h)
  <2>1. InLine(h)
    BY DEF UiInv, KeysInLine
  <2>2. h \in Seq(Seq(Nat))
    <3>1. \A i \in 1 .. Len(held) : Carried(held[i]) \in Seq(Nat)
      BY <1>1, CarriedSound
    <3>2. Len(held) \in Nat
      BY <1>1
    <3> QED BY <3>1, <3>2 DEF CarriedBy
  <2>3. h # <<>> /\ h[1] = Carried(held[1]) /\ CarriedBy(Tail(held)) = Tail(h)
    BY <1>1, CarriedTail
  <2> QED BY <2>1, <2>2, <2>3
<1>3. hh = Tail(h) \/ hh = CarriedBy(<<>>)
  <2>1. hh = CarriedBy(held')
    BY DEF CarriedBy
  <2> QED BY <1>2, <2>1
<1>4. /\ queued' \in Seq(UiMessage) /\ q \in Seq(Seq(Nat)) /\ msg.bytes \in Seq(Nat)
      /\ Contents(queued)' = Append(q, msg.bytes)
  <2>1. Contents(queued)' = Contents(queued')
    BY DEF Contents
  <2> QED BY <1>1, <2>1, ContentsAppend
<1>5. ww = w \/ ww = Numbers(<<>>)
  BY DEF Numbers
<1>6. /\ InLine(q) /\ Rising(w) /\ Before(All(q), All(h) \cup Range(w)) /\ Before(All(h), Range(w))
      /\ All(q) \cup All(h) \cup Range(w) \subseteq 1 .. Taken
  BY DEF UiInv, KeysInLine, Keys
<1>7. Typed'
  <2>1. held' \in Seq(Action)
    <3>1. Tail(held) \in Seq(Action) /\ <<>> \in Seq(Action)
      BY <1>1
    <3> QED BY <3>1
  <2> QED BY <1>4, <2>1 DEF UiInv, Typed, Taken
<1> HIDE DEF h, hh, q, w, ww
<1>8. /\ InLine(Tail(h)) /\ All(Tail(h)) \subseteq All(h)
      /\ Rising(h[1]) /\ Range(h[1]) \subseteq All(h) /\ Before(Range(h[1]), All(Tail(h)))
  BY <1>2, InLineTail
<1>9. InLine(hh) /\ All(hh) \subseteq All(h) /\ Before(Range(h[1]), All(hh))
  BY <1>3, <1>8, NothingCarried DEF Before
<1>10. Rising(ww) /\ Range(ww) \subseteq Range(w)
  BY <1>5, <1>6, NumbersOfNone
<1>11. /\ InLine(Append(q, msg.bytes)) /\ All(Append(q, msg.bytes)) = All(q) \cup Range(h[1])
  <2>1. Before(All(q), Range(msg.bytes)) /\ Rising(msg.bytes)
    BY <1>2, <1>6, <1>8 DEF Before
  <2> QED BY <1>2, <1>4, <1>6, <2>1, InLineAppend
<1>12. KeysInLine'
  <2> DEFINE qq == Append(q, msg.bytes)
  <2>1. Contents(queued)' = qq /\ Taken' = Taken
    BY <1>4 DEF Taken
  <2>2. InLine(qq) /\ All(qq) = All(q) \cup Range(h[1])
    BY <1>11
  <2> HIDE DEF qq
  <2>3. /\ Before(All(qq), All(hh) \cup Range(ww)) /\ Before(All(hh), Range(ww))
        /\ All(qq) \cup All(hh) \cup Range(ww) \subseteq 1 .. Taken
    BY <1>6, <1>8, <1>9, <1>10, <2>2 DEF Before
  <2> QED BY <1>9, <1>10, <2>1, <2>2, <2>3 DEF KeysInLine, Keys, hh, ww
<1> QED BY <1>7, <1>12

LEMMA ForwardBytesStep ==
  ASSUME UiInv, ForwardBytes
  PROVE  Typed' /\ KeysInLine'
<1> DEFINE msg == Bytes(Numbers(held[1].bytes))
<1>1. /\ ui = "act" /\ held # <<>> /\ held[1].type = "Forward" /\ held' = Tail(held)
      /\ queued' = Append(queued, msg)
      /\ UNCHANGED <<mode, typed, tty_in, read_key, key_q, armed, reader>>
  BY DEF ForwardBytes, Acting, Send, keys, UiInv, Control
<1>2. held[1] \in Action /\ Carried(held[1]) = Numbers(held[1].bytes)
  BY <1>1, CarriedTail DEF UiInv, Typed, Carried
<1>3. msg \in UiMessage /\ msg.bytes = Carried(held[1])
  <2>1. Carried(held[1]) \in Seq(Nat)
    BY <1>2, CarriedSound
  <2> QED BY <1>2, <2>1 DEF Bytes, UiMessage
<1>4. Waiting' = Waiting
  <2>1. CASE mode = "Raw"
    <3>1. ui' \in {"act", "read"}
      BY <2>1 DEF ForwardBytes, Structured
    <3> QED BY <1>1, <2>1, <3>1 DEF Waiting, InRaw
  <2>2. CASE mode # "Raw"
    <3>1. ui' \in {"act", "select"}
      BY <2>2 DEF ForwardBytes, Structured
    <3> QED BY <1>1, <2>2, <3>1 DEF Waiting, InRaw
  <2> QED BY <2>1, <2>2
<1> HIDE DEF msg
<1> QED BY <1>1, <1>3, <1>4, FirstSent

LEMMA ForwardEofStep ==
  ASSUME UiInv, ForwardEof, pump \notin Ended
  PROVE  Typed' /\ KeysInLine'
<1> DEFINE msg == BytesThenStop(Numbers(held[1].bytes))
<1>1. /\ ui = "act" /\ mode = "Raw" /\ held # <<>> /\ held[1].type = "ForwardThenStop" /\ held' = <<>>
      /\ queued' = Append(queued, msg) /\ ui' = "return"
      /\ UNCHANGED <<mode, typed, tty_in, read_key, key_q, armed, reader>>
  BY DEF ForwardEof, Return, Acting, Send, keys, UiInv, Control
<1>2. held[1] \in Action /\ Carried(held[1]) = Numbers(held[1].bytes)
  BY <1>1, CarriedTail DEF UiInv, Typed, Carried
<1>3. msg \in UiMessage /\ msg.bytes = Carried(held[1])
  <2>1. Carried(held[1]) \in Seq(Nat)
    BY <1>2, CarriedSound
  <2> QED BY <1>2, <2>1 DEF BytesThenStop, UiMessage
<1>4. Waiting' = <<>>
  <2>1. key_q = <<>> /\ read_key = <<>> /\ <<>> \o <<>> = <<>>
    BY <1>1 DEF UiInv, Control, InRaw
  <2> QED BY <1>1, <2>1 DEF Waiting, InRaw
<1> HIDE DEF msg
<1> QED BY <1>1, <1>3, <1>4, FirstSent

-----------------------------------------------------------------------------
LEMMA UiInvStep == UiInv /\ [Next]_vars => UiInv'
<1> SUFFICES ASSUME UiInv, [Next]_vars PROVE UiInv'
  OBVIOUS
<1>1. Control'
  BY ControlOfUi, ControlOfOthers DEF Next
<1>2. Output' /\ Screen'
  BY UiOutputStep, UiScreenStep
<1>3. Typed' /\ KeysInLine'
  <2>1. CASE Ui
    BY <2>1, DropSteps, TakeKeySteps, ReadStdinStep, ForwardBytesStep, ForwardEofStep DEF Ui
  <2>2. CASE KeyReader
    BY <2>2, OtherSteps, ReaderReadsStep, ReaderSendsStep DEF KeyReader
  <2>3. CASE PumpStep \/ Callback \/ UNCHANGED vars
    BY <2>3, OtherSteps
  <2>4. CASE \E k \in Key : Type(k)
    BY <2>4, TypeStep
  <2> QED BY <2>1, <2>2, <2>3, <2>4 DEF Next
<1> QED BY <1>1, <1>2, <1>3 DEF UiInv

(* The invariant of the session UI is inductive.                           *)
THEOREM UiInvariant == Spec => []UiInv
BY InitUi, UiInvStep, PTL DEF Spec

-----------------------------------------------------------------------------
(***************************************************************************)
(* The UI is a frontend of the transport.                                  *)
(***************************************************************************)
(* Numbers that rise from 1 to m are at most m.                            *)
LEMMA RisingLength ==
  ASSUME NEW m \in Nat, NEW s \in Seq(Nat), Rising(s), Range(s) \subseteq 1 .. m
  PROVE  Len(s) =< m
<1> DEFINE n == Len(s)
           Good == {k \in 0 .. n : k > 0 => k =< s[k]}
<1>0. n \in Nat /\ DOMAIN s = 1 .. n /\ \A k \in 1 .. n : s[k] \in 1 .. m
  <2>1. n \in Nat /\ DOMAIN s = 1 .. n
    OBVIOUS
  <2> QED BY <2>1 DEF Range
<1> HIDE DEF n
<1>1. 0 \in Good
  BY <1>0
<1>2. ASSUME NEW k \in 0 .. n - 1, k \in Good PROVE k + 1 \in Good
  <2>1. k + 1 \in 1 .. n /\ s[k + 1] \in Nat /\ s[k + 1] >= 1
    BY <1>0
  <2>2. CASE k = 0
    BY <2>1, <2>2
  <2>3. CASE k > 0
    <3>1. k \in 1 .. n /\ k < k + 1
      BY <1>0, <2>3
    <3>2. k =< s[k] /\ s[k] \in Nat
      BY <1>0, <1>2, <2>3, <3>1
    <3>3. s[k] < s[k + 1]
      <4> HIDE DEF Good
      <4> QED BY <1>0, <2>1, <3>1 DEF Rising
    <3> QED BY <2>1, <3>2, <3>3
  <2> QED BY <1>0, <2>2, <2>3
<1>3. n \in Good
  <2>1. \A k \in 0 .. n - 1 : k \in Good => k + 1 \in Good
    BY <1>2
  <2> HIDE DEF Good
  <2>2. 0 .. n \subseteq Good
    BY <1>0, <1>1, <2>1, BoundedInduction
  <2> QED BY <1>0, <2>2
<1>4. n =< m
  BY <1>0, <1>3
<1> QED BY <1>4 DEF n

(* A message may carry what an action carries.                             *)
LEMMA HeldFits ==
  ASSUME UiInv, ui = "act", held[1].type \in {"Forward", "ForwardThenStop"}
  PROVE  Numbers(held[1].bytes) \in Byte
<1>1. held \in Seq(Action) /\ held # <<>> /\ InLine(CarriedBy(held))
      /\ All(CarriedBy(held)) \subseteq 1 .. Taken
  BY DEF UiInv, Control, Typed, KeysInLine
<1> DEFINE h == CarriedBy(held)
           s == Numbers(held[1].bytes)
<1>2. s = Carried(held[1]) /\ s = h[1] /\ h # <<>>
  BY <1>1, CarriedTail DEF Carried
<1>3. h \in Seq(Seq(Nat))
  <2>1. \A i \in 1 .. Len(held) : Carried(held[i]) \in Seq(Nat)
    BY <1>1, CarriedSound
  <2>2. Len(held) \in Nat
    BY <1>1
  <2> QED BY <2>1, <2>2 DEF CarriedBy
<1> HIDE DEF h, s
<1>4. s \in Seq(Nat) /\ Rising(s) /\ Range(s) \subseteq All(h)
  BY <1>1, <1>2, <1>3, InLineTail DEF h
<1>5. MaxKeys \in Nat /\ 1 .. Taken \subseteq 1 .. MaxKeys
  BY MessageAssumption DEF UiInv, Typed, Taken
<1>6. Range(s) \subseteq 1 .. MaxKeys
  BY <1>1, <1>4, <1>5 DEF h
<1>7. Len(s) \in 0 .. MaxKeys
  BY <1>4, <1>5, <1>6, RisingLength
<1>8. s \in [1 .. Len(s) -> 1 .. MaxKeys]
  <2>1. DOMAIN s = 1 .. Len(s) /\ s = [i \in 1 .. Len(s) |-> s[i]]
    BY <1>4
  <2>2. \A i \in 1 .. Len(s) : s[i] \in 1 .. MaxKeys
    BY <1>6, <2>1 DEF Range
  <2> QED BY <2>1, <2>2
<1>9. s \in Byte
  BY <1>7, <1>8, MessageAssumption
<1> QED BY <1>9 DEF s

LEMMA UiStepsTransport == UiInv /\ [Next]_vars => [TransportNext]_transport
<1> SUFFICES ASSUME UiInv, [Next]_vars PROVE [TransportNext]_transport
  OBVIOUS
<1>1. CASE \/ EnterStructured \/ PumpJoined \/ QuitKey \/ CycleKey \/ IgnoreKey \/ ForwardKey
           \/ StructuredFails \/ StopReader \/ ReaderJoined \/ EnterRaw \/ RawFails \/ Repaint
           \/ ReadStdin \/ StdinEnds \/ ForwardFails \/ LeaveRaw \/ DetachRaw
  <2>1. UNCHANGED transport
    BY <1>1 DEF EnterStructured, PumpJoined, QuitKey, CycleKey, IgnoreKey, ForwardKey, TakeKey,
       StructuredFails, StopReader, ReaderJoined, EnterRaw, RawFails, Repaint, ReadStdin,
       StdinEnds, ForwardFails, LeaveRaw, DetachRaw
  <2> QED BY <2>1
<1>2. CASE SwitchOrQuit
  BY <1>2 DEF SwitchOrQuit, TransportNext
<1>3. CASE ForwardBytes
  <2>1. Numbers(held[1].bytes) \in Byte
    BY <1>3, HeldFits DEF ForwardBytes, Acting
  <2>2. Bytes(Numbers(held[1].bytes)) \in Outbound
    BY <2>1 DEF Bytes, Outbound
  <2> QED BY <1>3, <2>2 DEF ForwardBytes, TransportNext
<1>4. CASE ForwardEof
  <2>1. Numbers(held[1].bytes) \in Byte
    BY <1>4, HeldFits DEF ForwardEof, Acting
  <2>2. BytesThenStop(Numbers(held[1].bytes)) \in Outbound
    BY <2>1 DEF BytesThenStop, Outbound
  <2> QED BY <1>4, <2>2 DEF ForwardEof, TransportNext
<1>5. CASE KeyReader \/ (\E k \in Key : Type(k)) \/ UNCHANGED vars
  <2>1. UNCHANGED transport
    BY <1>5 DEF KeyReader, ReaderChecks, ReaderTimesOut, ReaderReads, ReaderSends, ReaderFails,
       Type, vars
  <2> QED BY <2>1
<1>6. CASE PumpStep
  BY <1>6 DEF PumpStep, Pump, TransportNext
<1>7. CASE Callback
  <2>1. OutputReturns \/ UNCHANGED transport
    BY <1>7 DEF Callback, FeedEngine, CheckMode, MirrorFrame
  <2> QED BY <2>1 DEF Pump, TransportNext
<1> QED BY <1>1, <1>2, <1>3, <1>4, <1>5, <1>6, <1>7 DEF Next, Ui

(* Whatever the user types and however the modes change, the UI uses the   *)
(* transport as any frontend may: each of its steps is a step of the       *)
(* transport, or none (session_ui.rs:88-129, 211-302).                     *)
THEOREM UiImplementsTransport == Spec => TransportSpec
<1>1. Init => TransportInit
  BY DEF Init
<1> QED BY <1>1, UiInvariant, UiStepsTransport, PTL DEF Spec, TransportSpec

(* What is proved of the transport holds under the UI.                     *)
LEMMA UiTransport == Spec => [](IInv /\ Emptied)
BY UiImplementsTransport, InvariantHolds, EmptiedHolds, PTL

-----------------------------------------------------------------------------
(* The three tasks are where the code can have them (session_ui.rs:41-302). *)
THEOREM TypesCorrect == Spec => []TypeOK
<1>1. UiInv /\ IInv => TypeOK
  <2> SUFFICES ASSUME UiInv, IInv PROVE TypeOK
    OBVIOUS
  <2>1. fed \in {frames, frames - 1} /\ callback \in {"feed", "check", "write"}
    BY DEF UiInv, Output
  <2>2. TransportTypeOK
    BY DEF IInv
  <2> QED BY <2>1, <2>2 DEF UiInv, Control, InRaw, TypeOK
<1> QED BY <1>1, UiInvariant, UiTransport, PTL

(* Nothing is queued for the peer while the session is watched             *)
(* (mode.rs:9-16).                                                         *)
THEOREM WatchIsSilent == Spec => WatchQueuesNothing
<1>1. UiInv /\ [Next]_vars => [queued' # queued => mode # "Watch"]_vars
  <2> SUFFICES ASSUME UiInv, [Next]_vars, queued' # queued PROVE mode # "Watch"
    OBVIOUS
  <2>1. ForwardBytes \/ ForwardEof
    <3>1. CASE Ui
      BY <3>1 DEF Ui, EnterStructured, SwitchOrQuit, DropSender, PumpJoined, QuitKey, CycleKey,
         IgnoreKey, ForwardKey, TakeKey, StructuredFails, StopReader, ReaderJoined, EnterRaw,
         RawFails, Repaint, ReadStdin, StdinEnds, ForwardFails, LeaveRaw, DetachRaw, transport
    <3>2. CASE ~Ui
      BY <3>2 DEF Next, KeyReader, ReaderChecks, ReaderTimesOut, ReaderReads, ReaderSends,
         ReaderFails, Callback, FeedEngine, CheckMode, MirrorFrame, OutputReturns, PumpStep,
         TakeInput, InputClosed, Sent, SendFails, RecvFrame, SocketEnds, Type, vars, transport
    <3> QED BY <3>1, <3>2
  <2> QED BY <2>1 DEF ForwardBytes, ForwardEof, Acting, UiInv, Control
<1> QED BY <1>1, UiInvariant, PTL DEF Spec, WatchQueuesNothing

(* In Raw no frame is lost or shown twice, unless one was being processed  *)
(* during the repaint (session_ui.rs:71-77, 268-275).                      *)
THEOREM RawIsFaithful == Spec => []RawShowsFrames
<1>1. UiInv => RawShowsFrames
  BY DEF UiInv, Output, Screen, Shown, RawShowsFrames
<1> QED BY <1>1, UiInvariant, PTL

-----------------------------------------------------------------------------
(***************************************************************************)
(* Keystrokes on the wire.                                                 *)
(***************************************************************************)
(* A stretch of sequences that are in line is in line.                     *)
LEMMA StretchInLine ==
  ASSUME NEW c \in Seq(Seq(Nat)), InLine(c), NEW o \in Nat, NEW n \in Nat, o + n =< Len(c),
         NEW s \in [1 .. n -> Seq(Nat)], \A i \in 1 .. n : s[i] = c[o + i]
  PROVE  s \in Seq(Seq(Nat)) /\ Len(s) = n /\ InLine(s)
<1>1. \A i \in 1 .. n : o + i \in DOMAIN c /\ s[i] \in Seq(Nat)
  <2>1. DOMAIN c = 1 .. Len(c) /\ Len(c) \in Nat /\ \A k \in 1 .. Len(c) : c[k] \in Seq(Nat)
    OBVIOUS
  <2> QED BY <2>1
<1>2. s \in Seq(Seq(Nat)) /\ Len(s) = n /\ DOMAIN s = 1 .. n
  BY <1>1
<1>3. \A i \in DOMAIN s : Rising(s[i])
  BY <1>1, <1>2 DEF InLine
<1>4. ASSUME NEW i \in DOMAIN s, NEW j \in DOMAIN s, i < j
      PROVE  Before(Range(s[i]), Range(s[j]))
  <2>1. o + i \in DOMAIN c /\ o + j \in DOMAIN c /\ o + i < o + j
    BY <1>1, <1>2, <1>4
  <2> QED BY <1>2, <2>1 DEF InLine
<1> QED BY <1>2, <1>3, <1>4 DEF InLine

(* Two stretches, one after the other, flatten to a rising sequence.       *)
LEMMA StretchesRise ==
  ASSUME NEW c \in Seq(Seq(Nat)), InLine(c), NEW m \in Nat, NEW n \in Nat, m + n =< Len(c),
         NEW s \in [1 .. m -> Seq(Nat)], \A i \in 1 .. m : s[i] = c[i],
         NEW t \in [1 .. n -> Seq(Nat)], \A i \in 1 .. n : t[i] = c[m + i]
  PROVE  /\ FlattenSeq(s) \o FlattenSeq(t) \in Seq(Nat)
         /\ Rising(FlattenSeq(s) \o FlattenSeq(t))
<1>0. Len(c) \in Nat /\ DOMAIN c = 1 .. Len(c)
  OBVIOUS
<1>1. s \in Seq(Seq(Nat)) /\ Len(s) = m /\ InLine(s)
  <2> DEFINE o == 0
  <2>1. o \in Nat /\ o + m =< Len(c) /\ \A i \in 1 .. m : s[i] = c[o + i]
    BY <1>0
  <2> HIDE DEF o
  <2> QED BY <2>1, StretchInLine
<1>2. t \in Seq(Seq(Nat)) /\ Len(t) = n /\ InLine(t)
  BY StretchInLine
<1> DEFINE f == FlattenSeq(s)
           g == FlattenSeq(t)
<1>3. f \in Seq(Nat) /\ Rising(f) /\ Range(f) \subseteq All(s)
  BY <1>1, FlattenInLine
<1>4. g \in Seq(Nat) /\ Rising(g) /\ Range(g) \subseteq All(t)
  BY <1>2, FlattenInLine
<1> HIDE DEF f, g
<1>5. ASSUME NEW x \in All(s), NEW y \in All(t) PROVE x < y
  <2>1. PICK i \in 1 .. m : x \in Range(s[i])
    BY <1>1 DEF All
  <2>2. PICK j \in 1 .. n : y \in Range(t[j])
    BY <1>2 DEF All
  <2>3. i \in DOMAIN c /\ m + j \in DOMAIN c /\ i < m + j
    BY <1>0
  <2> QED BY <2>1, <2>2, <2>3 DEF InLine, Before
<1>6. Before(Range(f), Range(g))
  BY <1>3, <1>4, <1>5 DEF Before
<1>7. Rising(f \o g)
  BY <1>3, <1>4, <1>6, RisingConcat
<1>8. f \o g \in Seq(Nat)
  BY <1>3, <1>4
<1> QED BY <1>7, <1>8 DEF f, g

(* What is neither sent nor lost follows what was sent.                    *)
LEMMA OnTheWay ==
  ASSUME IInv, Emptied
  PROVE  /\ outgoing \o inq \in Seq(Outbound)
         /\ Len(wire) + Len(outgoing \o inq) =< Len(queued)
         /\ \A i \in 1 .. Len(outgoing \o inq) : (outgoing \o inq)[i] = queued[Len(wire) + i]
<1> DEFINE m == outgoing \o inq
<1>1. /\ outgoing \in Seq(Outbound) /\ inq \in Seq(Outbound) /\ Len(outgoing) \in Nat
      /\ Len(inq) \in Nat /\ Len(wire) \in Nat /\ Len(queued) \in Nat
      /\ pump \in Running \cup Ended /\ Len(wire) =< Len(queued)
  BY DEF IInv, TransportTypeOK, WireIsPrefix
<1>2. /\ m \in Seq(Outbound) /\ Len(m) = Len(outgoing) + Len(inq)
      /\ \A i \in 1 .. Len(outgoing) : m[i] = outgoing[i]
      /\ \A i \in 1 .. Len(outgoing) + Len(inq) :
           ~(i =< Len(outgoing)) => m[i] = inq[i - Len(outgoing)]
  BY <1>1, ConcatFacts
<1> HIDE DEF m
<1>3. CASE pump \in Ended
  <2>1. outgoing = <<>> /\ inq = <<>>
    BY <1>3 DEF IInv, TransportTypeOK, Emptied, Ended
  <2>2. Len(m) = 0
    BY <1>2, <2>1
  <2> QED BY <1>1, <1>2, <2>2 DEF m
<1>4. CASE pump \in Running
  <2>1. /\ Len(queued) = Len(wire) + Len(outgoing) + Len(inq)
        /\ \A i \in 1 .. Len(outgoing) : queued[Len(wire) + i] = outgoing[i]
        /\ \A i \in 1 .. Len(inq) : queued[Len(wire) + Len(outgoing) + i] = inq[i]
    BY <1>4 DEF IInv, Accounted
  <2>2. ASSUME NEW i \in 1 .. Len(m) PROVE m[i] = queued[Len(wire) + i]
    <3>1. CASE i =< Len(outgoing)
      <4>1. i \in 1 .. Len(outgoing)
        BY <1>1, <1>2, <3>1
      <4> QED BY <1>2, <2>1, <4>1
    <3>2. CASE ~(i =< Len(outgoing))
      <4>1. /\ i - Len(outgoing) \in 1 .. Len(inq) /\ i \in 1 .. Len(outgoing) + Len(inq)
            /\ Len(wire) + Len(outgoing) + (i - Len(outgoing)) = Len(wire) + i
        BY <1>1, <1>2, <3>2
      <4>2. queued[Len(wire) + Len(outgoing) + (i - Len(outgoing))] = inq[i - Len(outgoing)]
        BY <2>1, <4>1
      <4> QED BY <1>2, <3>2, <4>1, <4>2
    <3> QED BY <3>1, <3>2
  <2> QED BY <1>1, <1>2, <2>1, <2>2 DEF m
<1> QED BY <1>1, <1>3, <1>4

LEMMA MessageFields ==
  ASSUME UiInv, NEW i \in 1 .. Len(queued)
  PROVE  /\ queued[i].type \in {"Bytes", "BytesThenStop"} /\ queued[i].bytes = Contents(queued)[i]
         /\ Len(Contents(queued)) = Len(queued) /\ Contents(queued) \in Seq(Seq(Nat))
<1>1. queued \in Seq(UiMessage) /\ Len(queued) \in Nat
  BY DEF UiInv, Typed
<1>2. \A k \in 1 .. Len(queued) : queued[k] \in UiMessage
  BY <1>1
<1>3. \A m \in UiMessage : m.bytes \in Seq(Nat) /\ m.type \in {"Bytes", "BytesThenStop"}
  BY DEF UiMessage
<1>4. \A k \in 1 .. Len(queued) : queued[k].bytes \in Seq(Nat)
  BY <1>2, <1>3
<1>5. Contents(queued) \in Seq(Seq(Nat)) /\ Len(Contents(queued)) = Len(queued)
      /\ queued[i].bytes = Contents(queued)[i]
  BY <1>1, <1>4 DEF Contents
<1> QED BY <1>2, <1>3, <1>5

LEMMA ContentsTyped ==
  ASSUME UiInv
  PROVE  /\ Contents(queued) \in Seq(Seq(Nat)) /\ Len(Contents(queued)) = Len(queued)
         /\ Len(queued) \in Nat
<1>1. queued \in Seq(UiMessage) /\ Len(queued) \in Nat
  BY DEF UiInv, Typed
<1>2. CASE Len(queued) = 0
  BY <1>1, <1>2 DEF Contents
<1>3. CASE Len(queued) # 0
  <2>1. 1 \in 1 .. Len(queued)
    BY <1>1, <1>3
  <2> QED BY <1>1, <2>1, MessageFields
<1> QED BY <1>2, <1>3

LEMMA InOrderOnTheWire ==
  ASSUME UiInv, IInv, Emptied
  PROVE  KeysInOrder
<1> DEFINE c == Contents(queued)
           msgs == outgoing \o inq
           t == [i \in 1 .. Len(msgs) |-> IF msgs[i].type = "Stop" THEN <<>> ELSE msgs[i].bytes]
<1>1. c \in Seq(Seq(Nat)) /\ Len(c) = Len(queued) /\ InLine(c)
  BY ContentsTyped DEF UiInv, KeysInLine
<1>2. /\ Len(wire) \in Nat /\ Len(msgs) \in Nat /\ Len(queued) \in Nat
      /\ Len(wire) + Len(msgs) =< Len(queued)
      /\ \A i \in 1 .. Len(msgs) : msgs[i] = queued[Len(wire) + i]
  <2>1. msgs \in Seq(Outbound) /\ wire \in Seq(Byte) /\ queued \in Seq(Outbound)
    BY OnTheWay DEF IInv, TransportTypeOK
  <2> QED BY <2>1, OnTheWay
<1>3. DOMAIN wire = 1 .. Len(wire) /\ wire = [i \in DOMAIN wire |-> wire[i]]
  BY DEF IInv, TransportTypeOK
<1>4. ASSUME NEW i \in 1 .. Len(wire) PROVE wire[i] = c[i]
  <2>1. wire[i] = queued[i].bytes /\ i \in 1 .. Len(queued)
    BY <1>2 DEF IInv, WireIsPrefix
  <2> QED BY <2>1, MessageFields
<1> HIDE DEF c, msgs
<1>6. ASSUME NEW i \in 1 .. Len(msgs) PROVE t[i] = c[Len(wire) + i]
  <2>1. Len(wire) + i \in 1 .. Len(queued) /\ msgs[i] = queued[Len(wire) + i]
    BY <1>2
  <2>2. msgs[i].type # "Stop" /\ msgs[i].bytes = c[Len(wire) + i]
    BY <2>1, MessageFields DEF c
  <2> QED BY <2>2
<1> DEFINE passed == FlattenSeq(wire) \o FlattenSeq(t)
<1>c. \A k \in 1 .. Len(c) : c[k] \in Seq(Nat)
  BY <1>1
<1>5. DOMAIN t = 1 .. Len(msgs) /\ t = [i \in DOMAIN t |-> t[i]]
  OBVIOUS
<1>7. passed \in Seq(Nat) /\ Rising(passed)
  <2> HIDE DEF t
  <2>1. wire \in [1 .. Len(wire) -> Seq(Nat)]
    <3>1. \A i \in 1 .. Len(wire) : wire[i] \in Seq(Nat)
      <4>1. \A i \in 1 .. Len(wire) : i \in 1 .. Len(c)
        BY <1>1, <1>2
      <4> QED BY <1>c, <1>4, <4>1
    <3> QED BY <1>3, <3>1, Zenon
  <2>2. t \in [1 .. Len(msgs) -> Seq(Nat)]
    <3>1. \A i \in 1 .. Len(msgs) : t[i] \in Seq(Nat)
      <4>1. \A i \in 1 .. Len(msgs) : Len(wire) + i \in 1 .. Len(c)
        BY <1>1, <1>2
      <4> QED BY <1>c, <1>6, <4>1
    <3> QED BY <1>5, <3>1, Zenon
  <2> QED BY <1>1, <1>2, <1>4, <1>6, <2>1, <2>2, StretchesRise
<1>8. FlatBytes(outgoing \o inq) = FlattenSeq(t)
  BY DEF FlatBytes, msgs
<1> HIDE DEF passed, t
<1>9. \A i, j \in 1 .. Len(passed) : i < j => passed[i] < passed[j]
  <2>1. DOMAIN passed = 1 .. Len(passed)
    BY <1>7
  <2> QED BY <1>7, <2>1 DEF Rising
<1> QED BY <1>8, <1>9 DEF KeysInOrder, passed

(* Keystrokes reach the peer in the order of typing, none twice, across    *)
(* all changes of the mode (session_ui.rs:88-100, 111-129, 282-302).       *)
THEOREM KeysStayInOrder == Spec => []KeysInOrder
BY UiInvariant, UiTransport, InOrderOnTheWire, PTL

-----------------------------------------------------------------------------
(***************************************************************************)
(* Quitting.  A message that ends the pump is the last one queued: the UI  *)
(* has left Raw for good when it is accepted.                              *)
(***************************************************************************)
EofIsLast ==
  \A i \in 1 .. Len(queued) :
    queued[i].type = "BytesThenStop"
      => i = Len(queued) /\ ui \in {"return", "drain", "done"} /\ flow = "Quit"

StoppedByEof ==
  pump = "stopped" => Len(wire) \in 1 .. Len(queued) /\ queued[Len(wire)].type = "BytesThenStop"

DoneEnded == ui = "done" => pump \in Ended

Quitting == EofIsLast /\ StoppedByEof /\ DoneEnded

LEMMA InitQuitting == Init => Quitting
BY DEF Init, TransportInit, Quitting, EofIsLast, StoppedByEof, DoneEnded

(* The pump's end is final, and the UI joins it last.                      *)
LEMMA DoneStep == DoneEnded /\ [Next]_vars => DoneEnded'
<1> SUFFICES ASSUME DoneEnded, [Next]_vars PROVE DoneEnded'
  OBVIOUS
<1> USE DEF DoneEnded
<1>1. CASE pump \in Ended
  <2>1. pump' = pump
    BY <1>1 DEF Next, Ui, EnterStructured, SwitchOrQuit, DropSender, PumpJoined, QuitKey, CycleKey,
       IgnoreKey, ForwardKey, TakeKey, StructuredFails, StopReader, ReaderJoined, EnterRaw,
       RawFails, Repaint, task, ReadStdin, StdinEnds, ForwardBytes, ForwardFails, ForwardEof, LeaveRaw, DetachRaw, Send,
       KeyReader, ReaderChecks, ReaderTimesOut, ReaderReads, ReaderSends, ReaderFails, Callback,
       FeedEngine, CheckMode, MirrorFrame, OutputReturns, PumpStep, TakeInput, InputClosed, Sent,
       SendFails, RecvFrame, SocketEnds, Type, vars, transport, Ended
  <2> QED BY <1>1, <2>1
<1>2. CASE pump \notin Ended
  <2>1. ui # "done"
    BY <1>2
  <2>2. ui' # "done"
    BY <1>2, <2>1 DEF Next, Ui, EnterStructured, SwitchOrQuit, PumpJoined, QuitKey, CycleKey,
       IgnoreKey, ForwardKey, TakeKey, StructuredFails, StopReader, ReaderJoined, EnterRaw,
       RawFails, Repaint, task, ReadStdin, StdinEnds, ForwardBytes, ForwardFails, ForwardEof, LeaveRaw, DetachRaw, Leave,
       Return, KeyReader, ReaderChecks, ReaderTimesOut, ReaderReads, ReaderSends, ReaderFails,
       Callback, FeedEngine, CheckMode, MirrorFrame, PumpStep, Type, vars, task
  <2> QED BY <2>2
<1> QED BY <1>1, <1>2

LEMMA EofStep == UiInv /\ EofIsLast /\ [Next]_vars => EofIsLast'
<1> SUFFICES ASSUME UiInv, EofIsLast, [Next]_vars PROVE EofIsLast'
  OBVIOUS
<1>1. ASSUME queued' = queued,
             ui \in {"return", "drain", "done"} /\ flow = "Quit"
               => ui' \in {"return", "drain", "done"} /\ flow' = "Quit"
      PROVE  EofIsLast'
  BY <1>1 DEF EofIsLast
<1>2. queued \in Seq(UiMessage) /\ Len(queued) \in Nat
  BY DEF UiInv, Typed
<1>3. ASSUME ui = "act", NEW msg, queued' = Append(queued, msg),
             msg.type = "BytesThenStop" => ui' = "return" /\ flow' = "Quit"
      PROVE  EofIsLast'
  <2>1. \A i \in 1 .. Len(queued) : queued[i].type # "BytesThenStop"
    BY <1>3 DEF EofIsLast
  <2>2. /\ Len(queued') = Len(queued) + 1 /\ queued'[Len(queued) + 1] = msg
        /\ \A i \in 1 .. Len(queued) : queued'[i] = queued[i]
    BY <1>2, <1>3
  <2>3. ASSUME NEW i \in 1 .. Len(queued'), queued'[i].type = "BytesThenStop"
        PROVE  i = Len(queued) + 1 /\ msg.type = "BytesThenStop"
    <3>1. i \in 1 .. Len(queued) \/ i = Len(queued) + 1
      BY <1>2, <2>2
    <3> QED BY <2>1, <2>2, <2>3, <3>1
  <2> QED BY <1>3, <2>2, <2>3 DEF EofIsLast
<1>4. CASE ForwardBytes
  <2>1. Bytes(Numbers(held[1].bytes)).type # "BytesThenStop"
    BY DEF Bytes
  <2> QED BY <1>3, <1>4, <2>1 DEF ForwardBytes, Acting, Send
<1>5. CASE ForwardEof
  <2>1. CASE pump \in Ended
    BY <1>1, <1>5, <2>1 DEF ForwardEof, Acting, transport
  <2>2. CASE pump \notin Ended
    BY <1>3, <1>5, <2>2 DEF ForwardEof, Acting, Return, Send
  <2> QED BY <2>1, <2>2
<1>6. CASE SwitchOrQuit \/ PumpJoined
  BY <1>1, <1>6 DEF SwitchOrQuit, PumpJoined, DropSender, transport
<1>7. CASE \/ EnterStructured \/ QuitKey \/ CycleKey \/ IgnoreKey \/ ForwardKey \/ StructuredFails
           \/ StopReader \/ ReaderJoined \/ EnterRaw \/ RawFails \/ Repaint \/ ReadStdin \/ StdinEnds
           \/ ForwardFails \/ LeaveRaw \/ DetachRaw
  <2>1. queued' = queued /\ ui \notin {"return", "drain", "done"}
    BY <1>7 DEF EnterStructured, QuitKey, CycleKey, IgnoreKey, ForwardKey, TakeKey,
       StructuredFails, StopReader, ReaderJoined, EnterRaw, RawFails, Repaint, ReadStdin,
       StdinEnds, ForwardFails, LeaveRaw, DetachRaw, Acting, task, transport
  <2> QED BY <1>1, <2>1
<1>8. CASE KeyReader \/ PumpStep \/ Callback \/ (\E k \in Key : Type(k)) \/ UNCHANGED vars
  <2>1. UNCHANGED <<queued, ui, flow>>
    <3>1. CASE PumpStep
      BY <3>1 DEF PumpStep, TakeInput, InputClosed, Sent, SendFails, RecvFrame, SocketEnds, task
    <3>2. CASE KeyReader \/ Callback \/ (\E k \in Key : Type(k)) \/ UNCHANGED vars
      BY <3>2 DEF KeyReader, ReaderChecks, ReaderTimesOut, ReaderReads, ReaderSends, ReaderFails,
         Callback, FeedEngine, CheckMode, MirrorFrame, OutputReturns, Type, vars, transport, task
    <3> QED BY <1>8, <3>1, <3>2
  <2> QED BY <1>1, <2>1
<1> QED BY <1>4, <1>5, <1>6, <1>7, <1>8 DEF Next, Ui

LEMMA StoppedStep ==
  UiInv /\ IInv /\ IInv' /\ StoppedByEof /\ [TransportNext]_transport => StoppedByEof'
<1> SUFFICES ASSUME UiInv, IInv, IInv', StoppedByEof, [TransportNext]_transport
             PROVE  StoppedByEof'
  OBVIOUS
<1>0. /\ Len(wire) \in Nat /\ queued \in Seq(UiMessage) /\ Len(queued) \in Nat
      /\ inq \in Seq(Outbound)
  BY SMTT(30) DEF UiInv, Typed, IInv, TransportTypeOK
<1>1. CASE pump = "stopped"
  <2>1. UNCHANGED <<pump, wire, queued>>
    BY <1>1 DEF TransportNext, Pump, TakeInput, InputClosed, Sent, SendFails, RecvFrame,
       OutputReturns, SocketEnds, DropSender, Send, HasRoom, Running, transport
  <2> QED BY <2>1 DEF StoppedByEof
<1>2. CASE pump # "stopped" /\ TakeInput
  <2>1. inq # <<>> /\ Len(outgoing) = 0 /\ pump \in Running
    BY <1>2 DEF TakeInput, IInv, TransportTypeOK, Running
  <2>2. Len(inq) >= 1 /\ Len(inq) \in Nat /\ Head(inq) = inq[1]
    BY <1>0, <2>1
  <2>3. Len(wire) + 1 \in 1 .. Len(queued) /\ queued[Len(wire) + 1] = inq[1]
    BY <1>0, <2>1, <2>2 DEF IInv, Accounted
  <2>4. Head(inq).type # "Stop"
    BY <2>2, <2>3, MessageFields
  <2> QED BY <1>2, <2>4 DEF TakeInput, StoppedByEof
<1>3. CASE pump # "stopped" /\ Sent
  <2>1. /\ Len(outgoing) = 1 /\ pump \in Running /\ wire' = Append(wire, outgoing[1].bytes)
        /\ queued' = queued /\ wire \in Seq(Byte)
    BY <1>3 DEF Sent, IInv, TransportTypeOK, Running
  <2>2. queued[Len(wire) + 1] = outgoing[1]
    BY <2>1 DEF IInv, Accounted
  <2>3. Len(wire') = Len(wire) + 1
    BY <2>1
  <2>4. Len(wire') =< Len(queued')
    BY DEF IInv, WireIsPrefix
  <2>5. pump' = "stopped" => outgoing[1].type = "BytesThenStop"
    BY <1>3 DEF Sent
  <2> QED BY <1>0, <2>1, <2>2, <2>3, <2>4, <2>5 DEF StoppedByEof
<1>4. CASE \/ InputClosed \/ SendFails \/ RecvFrame \/ OutputReturns \/ SocketEnds \/ DropSender
           \/ (\E msg \in Outbound : Send(msg)) \/ UNCHANGED transport
  <2>1. pump' = "stopped" => pump = "stopped"
    BY <1>4 DEF InputClosed, SendFails, RecvFrame, OutputReturns, SocketEnds, DropSender, Send,
       End, transport
  <2> QED BY <1>1, <2>1 DEF StoppedByEof
<1> QED BY <1>1, <1>2, <1>3, <1>4 DEF TransportNext, Pump

LEMMA QuittingHolds == Spec => []Quitting
<1>1. UiInv /\ IInv /\ IInv' /\ Quitting /\ [Next]_vars => Quitting'
  BY DoneStep, EofStep, StoppedStep, UiStepsTransport DEF Quitting
<1> QED BY <1>1, InitQuitting, UiInvariant, UiTransport, PTL DEF Spec

LEMMA DeliveredOnQuit ==
  ASSUME UiInv, IInv, Quitting
  PROVE  QuitDelivers
<1> SUFFICES ASSUME ui = "done", pump # "lost" PROVE FlattenSeq(wire) = FlatBytes(queued)
  BY DEF QuitDelivers
<1>1. pump = "closed" \/ pump = "stopped"
  BY DEF Quitting, DoneEnded, Ended
<1>2. Len(wire) = Len(queued)
  BY <1>1 DEF Quitting, EofIsLast, StoppedByEof, IInv, ClosedIsDrained
<1> DEFINE t == [i \in 1 .. Len(queued) |-> IF queued[i].type = "Stop" THEN <<>> ELSE queued[i].bytes]
<1>3. DOMAIN wire = 1 .. Len(queued) /\ wire = [i \in DOMAIN wire |-> wire[i]]
  <2>1. wire \in Seq(Byte)
    BY DEF IInv, TransportTypeOK
  <2> QED BY <1>2, <2>1
<1>4. ASSUME NEW i \in 1 .. Len(queued) PROVE wire[i] = t[i]
  BY <1>2 DEF IInv, WireIsPrefix
<1>5. wire = t
  BY <1>3, <1>4
<1> QED BY <1>5 DEF FlatBytes

(* Quitting by a key, a chord, EOF or a failure delivers all the input     *)
(* that was accepted, unless the socket was lost (session_ui.rs:97-99).    *)
THEOREM QuittingDelivers == Spec => []QuitDelivers
BY UiInvariant, UiTransport, QuittingHolds, DeliveredOnQuit, PTL

(* Under the UI too, the peer gets a prefix of what was queued, nothing    *)
(* after a message that stops the pump, and everything when the input is   *)
(* closed (transport.rs:39-51).                                            *)
THEOREM UiSendsInOrder == Spec => [](WireIsPrefix /\ NothingAfterStop /\ ClosedIsDrained)
BY UiTransport, PTL DEF IInv

-----------------------------------------------------------------------------
(***************************************************************************)
(* The chord parser against its definition.  What the definition says of a *)
(* byte is told from the byte before it: that is how the parser sees it.   *)
(***************************************************************************)
(* There is one run of Ctrl-] before a byte.                               *)
LEMMA RunIsUnique ==
  ASSUME NEW t, NEW i \in Nat \ {0}, NEW n \in 0 .. i - 1, NEW m \in 0 .. i - 1,
         IsRun(t, i, n), IsRun(t, i, m)
  PROVE  n = m
<1>1. ASSUME NEW a \in 0 .. i - 1, NEW b \in 0 .. i - 1, IsRun(t, i, a), IsRun(t, i, b), a < b
      PROVE  FALSE
  <2>1. a < i - 1 /\ i - a - 1 \in i - b .. i - 1
    BY <1>1
  <2> QED BY <1>1, <2>1, Zenon DEF IsRun
<1>2. n < m \/ m < n \/ n = m
  OBVIOUS
<1> QED BY <1>1, <1>2, Zenon

(* The run before the next byte.                                           *)
NextRun(t, i, n) == IF IsBracket(t, i) THEN n + 1 ELSE 0

LEMMA RunStep ==
  ASSUME NEW t, NEW i \in Nat \ {0}, NEW n \in 0 .. i - 1, IsRun(t, i, n)
  PROVE  NextRun(t, i, n) \in 0 .. i /\ IsRun(t, i + 1, NextRun(t, i, n))
<1>1. CASE IsBracket(t, i)
  <2>1. NextRun(t, i, n) = n + 1 /\ n + 1 \in 0 .. i
    BY <1>1 DEF NextRun
  <2>2. ASSUME NEW j \in (i + 1) - (n + 1) .. (i + 1) - 1 PROVE IsBracket(t, j)
    <3>1. j = i \/ j \in i - n .. i - 1
      OBVIOUS
    <3> QED BY <1>1, <3>1, Zenon DEF IsRun
  <2>3. n + 1 < (i + 1) - 1 => ~IsBracket(t, (i + 1) - (n + 1) - 1)
    <3>1. (i + 1) - (n + 1) - 1 = i - n - 1 /\ (n + 1 < (i + 1) - 1 <=> n < i - 1)
      OBVIOUS
    <3> QED BY <3>1, Zenon DEF IsRun
  <2> QED BY <2>1, <2>2, <2>3, Zenon DEF IsRun
<1>2. CASE ~IsBracket(t, i)
  <2>1. NextRun(t, i, n) = 0 /\ 0 \in 0 .. i
    BY <1>2 DEF NextRun
  <2>2. (i + 1) - 0 .. (i + 1) - 1 = {} /\ (i + 1) - 0 - 1 = i
    OBVIOUS
  <2>3. IsRun(t, i + 1, 0)
    BY <1>2, <2>2, Zenon DEF IsRun
  <2> QED BY <2>1, <2>3
<1> QED BY <1>1, <1>2

LEMMA RunExists ==
  ASSUME NEW t, NEW i \in Nat \ {0}
  PROVE  Brackets(t, i) \in 0 .. i - 1 /\ IsRun(t, i, Brackets(t, i))
<1> DEFINE Good == {k \in Nat : \E n \in 0 .. k : IsRun(t, k + 1, n)}
<1>1. 0 \in Good
  <2>1. IsRun(t, 0 + 1, 0)
    BY DEF IsRun
  <2> QED BY <2>1
<1>2. ASSUME NEW k \in Nat, k \in Good PROVE k + 1 \in Good
  <2>1. k + 1 \in Nat \ {0} /\ 0 .. (k + 1) - 1 = 0 .. k
    OBVIOUS
  <2>2. PICK n \in 0 .. (k + 1) - 1 : IsRun(t, k + 1, n)
    BY <1>2, <2>1
  <2>3. NextRun(t, k + 1, n) \in 0 .. k + 1 /\ IsRun(t, (k + 1) + 1, NextRun(t, k + 1, n))
    BY <2>1, <2>2, RunStep
  <2> QED BY <2>1, <2>3
<1>3. Nat \subseteq Good
  <2> HIDE DEF Good
  <2> QED BY <1>1, <1>2, SetInduction
<1>4. i - 1 \in Good /\ (i - 1) + 1 = i
  BY <1>3
<1>5. \E n \in 0 .. i - 1 : IsRun(t, i, n)
  BY <1>4
<1> QED BY <1>5, Zenon DEF Brackets

(* A byte is prefixed when the one before is a Ctrl-] that is not.         *)
LEMMA PrefixedStep ==
  ASSUME NEW t, NEW i \in Nat \ {0}
  PROVE  Prefixed(t, i + 1) <=> IsBracket(t, i) /\ ~Prefixed(t, i)
<1> DEFINE n == Brackets(t, i)
           m == Brackets(t, i + 1)
<1>1. n \in 0 .. i - 1 /\ IsRun(t, i, n)
  BY RunExists
<1>2. m \in 0 .. (i + 1) - 1 /\ IsRun(t, i + 1, m) /\ i + 1 \in Nat \ {0}
  BY RunExists
<1> HIDE DEF n, m
<1>3. NextRun(t, i, n) \in 0 .. i /\ IsRun(t, i + 1, NextRun(t, i, n))
  BY <1>1, RunStep
<1>4. 0 .. (i + 1) - 1 = 0 .. i
  OBVIOUS
<1>5. m = NextRun(t, i, n)
  BY <1>2, <1>3, <1>4, RunIsUnique
<1>6. m = IF IsBracket(t, i) THEN n + 1 ELSE 0
  BY <1>5 DEF NextRun
<1>7. (n + 1) % 2 = 1 <=> ~(n % 2 = 1)
  BY <1>1
<1>8. ~(0 % 2 = 1)
  OBVIOUS
<1> QED BY <1>6, <1>7, <1>8 DEF Prefixed, n, m

LEMMA FirstIsPlain ==
  ASSUME NEW t
  PROVE  ~Prefixed(t, 1)
<1>1. Brackets(t, 1) \in 0 .. 1 - 1
  BY RunExists, 1 \in Nat \ {0}
<1>2. Brackets(t, 1) = 0
  BY <1>1
<1> QED BY <1>2 DEF Prefixed

(* Bytes to come change nothing about those that are there.                *)
LEMMA PrefixedIsLocal ==
  ASSUME NEW t, NEW u, NEW n \in Nat, \A i \in 1 .. n : t[i] = u[i],
         NEW i \in 1 .. n
  PROVE  Prefixed(t, i) <=> Prefixed(u, i)
<1> DEFINE Good == {k \in 0 .. n - 1 : Prefixed(t, k + 1) <=> Prefixed(u, k + 1)}
<1>1. 0 \in Good
  BY FirstIsPlain
<1>2. ASSUME NEW k \in 0 .. (n - 1) - 1, k \in Good PROVE k + 1 \in Good
  <2>1. k + 1 \in Nat \ {0} /\ k + 1 \in 1 .. n /\ k + 1 \in 0 .. n - 1
    OBVIOUS
  <2>2. IsBracket(t, k + 1) <=> IsBracket(u, k + 1)
    BY <2>1 DEF IsBracket
  <2>3. Prefixed(t, (k + 1) + 1) <=> Prefixed(u, (k + 1) + 1)
    BY <1>2, <2>1, <2>2, PrefixedStep
  <2> QED BY <2>1, <2>3
<1>3. 0 .. n - 1 \subseteq Good
  <2> HIDE DEF Good
  <2>1. n - 1 \in Nat
    OBVIOUS
  <2> QED BY <1>1, <1>2, <2>1, BoundedInduction
<1>4. i - 1 \in Good /\ (i - 1) + 1 = i
  BY <1>3
<1> QED BY <1>4

LEMMA EffectIsLocal ==
  ASSUME NEW t, NEW u, NEW n \in Nat, \A i \in 1 .. n : t[i] = u[i],
         NEW i \in 1 .. n
  PROVE  Effect(t, i) = Effect(u, i)
<1>1. Prefixed(t, i) <=> Prefixed(u, i)
  BY PrefixedIsLocal
<1>2. t[i] = u[i]
  OBVIOUS
<1> QED BY <1>1, <1>2, Zenon DEF Effect, EndsChord, IsBracket

-----------------------------------------------------------------------------
(* A sequence flattened step by step.                                      *)
FlatSteps(ss, f, n) ==
  f[0] = <<>> /\ \A k \in 1 .. n : f[k] = f[k - 1] \o ss[k]

LEMMA FlattenUnique ==
  ASSUME NEW X, NEW ss \in Seq(Seq(X)), NEW f, FlatSteps(ss, f, Len(ss))
  PROVE  f[Len(ss)] = FlattenSeq(ss) /\ FlattenSeq(ss) \in Seq(X)
<1> DEFINE n == Len(ss)
<1>0. n \in Nat /\ \A k \in 1 .. n : ss[k] \in Seq(X)
  OBVIOUS
<1>1. PICK g : g[0] = <<>> /\ (\A k \in 1 .. n : g[k] = g[k - 1] \o ss[k]) /\ FlattenSeq(ss) = g[n]
  BY FlattenSteps
<1> DEFINE Good == {k \in 0 .. n : f[k] = g[k] /\ f[k] \in Seq(X)}
<1>2. 0 \in Good
  <2>1. f[0] = <<>> /\ g[0] = <<>> /\ <<>> \in Seq(X)
    BY <1>1 DEF FlatSteps
  <2>2. 0 \in 0 .. n
    BY <1>0
  <2> QED BY <2>1, <2>2
<1>3. ASSUME NEW k \in 0 .. n - 1, k \in Good PROVE k + 1 \in Good
  <2>1. k + 1 \in 1 .. n /\ (k + 1) - 1 = k /\ k + 1 \in 0 .. n
    BY <1>0
  <2>2. f[k + 1] = f[k] \o ss[k + 1] /\ g[k + 1] = g[k] \o ss[k + 1]
    BY <1>1, <2>1 DEF FlatSteps
  <2>3. f[k] \o ss[k + 1] \in Seq(X)
    BY <1>0, <1>3, <2>1
  <2> QED BY <1>3, <2>1, <2>2, <2>3
<1>4. n \in Good
  <2> HIDE DEF Good, n
  <2>1. 0 .. n \subseteq Good
    BY <1>0, <1>2, <1>3, BoundedInduction
  <2> QED BY <1>0, <2>1
<1> QED BY <1>1, <1>4

LEMMA FlattenTyped ==
  ASSUME NEW X, NEW ss \in Seq(Seq(X))
  PROVE  FlattenSeq(ss) \in Seq(X)
<1>1. PICK f : f[0] = <<>> /\ (\A k \in 1 .. Len(ss) : f[k] = f[k - 1] \o ss[k])
  BY FlattenSteps
<1>2. FlatSteps(ss, f, Len(ss))
  BY <1>1 DEF FlatSteps
<1> QED BY <1>2, FlattenUnique

LEMMA FlattenConcat ==
  ASSUME NEW X, NEW ss \in Seq(Seq(X)), NEW tt \in Seq(Seq(X))
  PROVE  FlattenSeq(ss \o tt) = FlattenSeq(ss) \o FlattenSeq(tt)
<1> DEFINE uu == ss \o tt
           n == Len(ss)
           m == Len(tt)
<1>0. /\ uu \in Seq(Seq(X)) /\ Len(uu) = n + m /\ n \in Nat /\ m \in Nat
      /\ \A k \in 1 .. n : uu[k] = ss[k]
  OBVIOUS
<1>a. ASSUME NEW k \in 1 .. m PROVE uu[n + k] = tt[k] /\ tt[k] \in Seq(X)
  OBVIOUS
<1> HIDE DEF uu, n, m
<1>1. PICK f : f[0] = <<>> /\ (\A k \in 1 .. Len(uu) : f[k] = f[k - 1] \o uu[k])
               /\ FlattenSeq(uu) = f[Len(uu)]
  BY <1>0, FlattenSteps
<1>2. PICK g : g[0] = <<>> /\ (\A k \in 1 .. m : g[k] = g[k - 1] \o tt[k])
               /\ FlattenSeq(tt) = g[m]
  BY FlattenSteps DEF m
<1>3. f[n] = FlattenSeq(ss) /\ f[n] \in Seq(X)
  <2>1. ASSUME NEW k \in 1 .. n PROVE f[k] = f[k - 1] \o ss[k]
    <3>1. k \in 1 .. Len(uu) /\ uu[k] = ss[k]
      BY <1>0
    <3> QED BY <1>1, <3>1
  <2>2. FlatSteps(ss, f, Len(ss))
    BY <1>1, <2>1 DEF FlatSteps, n
  <2> QED BY <2>2, FlattenUnique DEF n
<1> DEFINE Good == {k \in 0 .. m : f[n + k] = f[n] \o g[k] /\ g[k] \in Seq(X)}
<1>4. 0 \in Good
  <2>1. f[n] \o <<>> = f[n] /\ <<>> \in Seq(X) /\ n + 0 = n /\ 0 \in 0 .. m
    BY <1>0, <1>3
  <2> QED BY <1>2, <2>1
<1>5. ASSUME NEW k \in 0 .. m - 1, k \in Good PROVE k + 1 \in Good
  <2>1. /\ k + 1 \in 1 .. m /\ (k + 1) - 1 = k /\ k + 1 \in 0 .. m
        /\ n + (k + 1) \in 1 .. Len(uu) /\ (n + (k + 1)) - 1 = n + k
    BY <1>0
  <2>2. f[n + (k + 1)] = f[n + k] \o tt[k + 1] /\ g[k + 1] = g[k] \o tt[k + 1]
        /\ tt[k + 1] \in Seq(X)
    BY <1>1, <1>2, <1>a, <2>1
  <2>3. f[n + k] = f[n] \o g[k] /\ g[k] \in Seq(X)
    BY <1>5
  <2>4. (f[n] \o g[k]) \o tt[k + 1] = f[n] \o (g[k] \o tt[k + 1])
    <3>1. f[n] \in Seq(X)
      BY <1>3
    <3>2. g[k] \in Seq(X)
      BY <2>3
    <3>3. tt[k + 1] \in Seq(X)
      BY <2>2
    <3>4. \A a, b, c \in Seq(X) : (a \o b) \o c = a \o (b \o c)
      <4> SUFFICES ASSUME NEW a \in Seq(X), NEW b \in Seq(X), NEW c \in Seq(X)
                   PROVE  (a \o b) \o c = a \o (b \o c)
        OBVIOUS
      <4> QED BY ConcatAssociative, SMTT(30)
    <3> QED BY <3>1, <3>2, <3>3, <3>4
  <2>5. g[k] \o tt[k + 1] \in Seq(X)
    BY <2>2, <2>3
  <2> QED BY <2>1, <2>2, <2>3, <2>4, <2>5
<1>6. m \in Good
  <2> HIDE DEF Good
  <2>1. 0 .. m \subseteq Good
    BY <1>0, <1>4, <1>5, BoundedInduction
  <2> QED BY <1>0, <2>1
<1> QED BY <1>0, <1>1, <1>2, <1>3, <1>6 DEF uu

LEMMA FlattenOne ==
  ASSUME NEW X, NEW s \in Seq(X)
  PROVE  <<s>> \in Seq(Seq(X)) /\ FlattenSeq(<<s>>) = s
<1>1. <<s>> \in Seq(Seq(X)) /\ Len(<<s>>) = 1 /\ <<s>>[1] = s
  OBVIOUS
<1>2. PICK f : f[0] = <<>> /\ (\A k \in 1 .. Len(<<s>>) : f[k] = f[k - 1] \o <<s>>[k])
               /\ FlattenSeq(<<s>>) = f[Len(<<s>>)]
  BY <1>1, FlattenSteps
<1>3. f[1] = f[0] \o s
  <2>1. 1 \in 1 .. Len(<<s>>) /\ 1 - 1 = 0
    BY <1>1
  <2> QED BY <1>1, <1>2, <2>1
<1>4. <<>> \o s = s
  OBVIOUS
<1> QED BY <1>1, <1>2, <1>3, <1>4

LEMMA FlattenNone == FlattenSeq(<<>>) = <<>>
BY DEF FlattenSeq

(***************************************************************************)
(* What actions do.                                                        *)
(***************************************************************************)
TypedByte == [key : Key, at : Nat]

ByteAction ==
  [type : {"Forward", "ForwardThenStop"}, bytes : Seq(TypedByte)]
    \cup [type : {"ExitToStructured", "Detach"}]

ByteParser == [armed : Seq(TypedByte), pending : Seq(TypedByte), actions : Seq(ByteAction)]

(* A byte forwarded, by its position, or what a chord or Ctrl-D does.      *)
Mark == Nat \cup {"leave", "detach", "stop"}

(* A function along a sequence.                                            *)
Along(F, s) == [i \in 1 .. Len(s) |-> F[s[i]]]

Maps(F, X, Y) ==
  /\ \A s \in Seq(X) : Along(F, s) \in Seq(Y) /\ Len(Along(F, s)) = Len(s)
  /\ \A s, t \in Seq(X) : Along(F, s \o t) = Along(F, s) \o Along(F, t)

LEMMA AlongMaps ==
  ASSUME NEW X, NEW Y, NEW F \in [X -> Y]
  PROVE  Maps(F, X, Y)
<1>1. ASSUME NEW s \in Seq(X)
      PROVE  Along(F, s) \in Seq(Y) /\ Len(Along(F, s)) = Len(s)
  <2>1. Len(s) \in Nat /\ \A i \in 1 .. Len(s) : F[s[i]] \in Y
    <3>1. Len(s) \in Nat /\ \A i \in 1 .. Len(s) : s[i] \in X
      OBVIOUS
    <3> QED BY <3>1
  <2>2. Along(F, s) \in [1 .. Len(s) -> Y]
    BY <2>1 DEF Along
  <2> QED BY <2>1, <2>2
<1>2. ASSUME NEW s \in Seq(X), NEW t \in Seq(X)
      PROVE  Along(F, s \o t) = Along(F, s) \o Along(F, t)
  <2>1. s \o t \in Seq(X) /\ Len(s \o t) = Len(s) + Len(t)
        /\ Len(s) \in Nat /\ Len(t) \in Nat
    OBVIOUS
  <2> DEFINE u == Along(F, s)
             v == Along(F, t)
             w == Along(F, s \o t)
  <2>2. /\ u \in Seq(Y) /\ v \in Seq(Y) /\ w \in Seq(Y)
        /\ Len(u) = Len(s) /\ Len(v) = Len(t) /\ Len(w) = Len(s) + Len(t)
    BY <1>1, <2>1
  <2>3. /\ \A i \in 1 .. Len(s) : u[i] = F[s[i]]
        /\ \A i \in 1 .. Len(t) : v[i] = F[t[i]]
        /\ \A i \in 1 .. Len(s) + Len(t) : w[i] = F[(s \o t)[i]]
    BY <2>1 DEF Along
  <2> HIDE DEF u, v, w
  <2>4. /\ u \o v \in Seq(Y) /\ Len(u \o v) = Len(s) + Len(t)
        /\ \A i \in 1 .. Len(s) : (u \o v)[i] = u[i]
        /\ \A i \in 1 .. Len(s) + Len(t) : ~(i =< Len(s)) => (u \o v)[i] = v[i - Len(s)]
    <3>1. PICK a \in Seq(Y) : a = u /\ Len(a) = Len(s)
      BY <2>2
    <3>2. PICK b \in Seq(Y) : b = v /\ Len(b) = Len(t)
      BY <2>2
    <3>3. /\ a \o b \in Seq(Y) /\ Len(a \o b) = Len(a) + Len(b)
          /\ \A i \in 1 .. Len(a) : (a \o b)[i] = a[i]
          /\ \A i \in 1 .. Len(a) + Len(b) : ~(i =< Len(a)) => (a \o b)[i] = b[i - Len(a)]
      BY ConcatFacts
    <3> QED BY <3>1, <3>2, <3>3
  <2>5. ASSUME NEW i \in 1 .. Len(s) + Len(t)
        PROVE  w[i] = (u \o v)[i]
    <3>1. CASE i =< Len(s)
      <4>1. i \in 1 .. Len(s) /\ (s \o t)[i] = s[i]
        BY <2>1, <3>1
      <4> QED BY <2>3, <2>4, <4>1, SMTT(30)
    <3>2. CASE ~(i =< Len(s))
      <4>1. (s \o t)[i] = t[i - Len(s)] /\ i - Len(s) \in 1 .. Len(t)
        BY <3>2, ConcatFacts
      <4> QED BY <2>3, <2>4, <3>2, <4>1, SMTT(30)
    <3> QED BY <3>1, <3>2
  <2>6. w = u \o v
    BY <2>1, <2>2, <2>4, <2>5, SeqEqual
  <2> QED BY <2>6 DEF u, v, w
<1> QED BY <1>1, <1>2 DEF Maps

AtOf == [b \in TypedByte |-> b.at]

LEMMA PositionsAlong ==
  ASSUME NEW s \in Seq(TypedByte)
  PROVE  Positions(s) = Along(AtOf, s) /\ AtOf \in [TypedByte -> Mark]
<1>1. \A i \in 1 .. Len(s) : s[i].at = AtOf[s[i]]
  <2>1. \A i \in 1 .. Len(s) : s[i] \in TypedByte
    OBVIOUS
  <2> QED BY <2>1 DEF AtOf
<1>2. Positions(s) = Along(AtOf, s)
  BY <1>1, Zenon DEF Positions, Along
<1>3. \A b \in TypedByte : b.at \in Mark
  BY DEF TypedByte, Mark
<1> QED BY <1>2, <1>3 DEF AtOf

LEMMA PositionsConcat ==
  ASSUME NEW s \in Seq(TypedByte), NEW t \in Seq(TypedByte)
  PROVE  /\ Positions(s) \in Seq(Mark)
         /\ Positions(s \o t) = Positions(s) \o Positions(t)
<1>1. s \o t \in Seq(TypedByte) /\ AtOf \in [TypedByte -> Mark]
  BY PositionsAlong
<1>2. Maps(AtOf, TypedByte, Mark)
  BY <1>1, AlongMaps
<1> QED BY <1>1, <1>2, PositionsAlong DEF Maps

LEMMA PositionsOfOne ==
  ASSUME NEW b \in TypedByte
  PROVE  <<b>> \in Seq(TypedByte) /\ Positions(<<b>>) = <<b.at>>
BY DEF Positions

LEMMA PositionsOfNone == <<>> \in Seq(TypedByte) /\ Positions(<<>>) = <<>>
BY DEF Positions

LEMMA EffectsTyped ==
  ASSUME NEW a \in ByteAction
  PROVE  Effects(a) \in Seq(Mark)
<1>1. CASE a.type \in {"Forward", "ForwardThenStop"}
  <2>1. a.bytes \in Seq(TypedByte)
    BY <1>1 DEF ByteAction
  <2>2. Positions(a.bytes) \in Seq(Mark) /\ "stop" \in Mark
    BY <2>1, PositionsConcat DEF Mark
  <2>3. Append(Positions(a.bytes), "stop") \in Seq(Mark)
    BY <2>2
  <2> QED BY <1>1, <2>2, <2>3 DEF Effects
<1>2. CASE a.type \in {"ExitToStructured", "Detach"}
  <2>1. <<"leave">> \in Seq(Mark) /\ <<"detach">> \in Seq(Mark)
    BY DEF Mark
  <2> QED BY <1>2, <2>1 DEF Effects
<1>3. a.type \in {"Forward", "ForwardThenStop", "ExitToStructured", "Detach"}
  BY DEF ByteAction
<1> QED BY <1>1, <1>2, <1>3

EffectsOf == [a \in ByteAction |-> Effects(a)]

LEMMA DoingAlong ==
  ASSUME NEW s \in Seq(ByteAction)
  PROVE  Doing(s) = FlattenSeq(Along(EffectsOf, s)) /\ EffectsOf \in [ByteAction -> Seq(Mark)]
<1>1. \A i \in 1 .. Len(s) : Effects(s[i]) = EffectsOf[s[i]]
  <2>1. \A i \in 1 .. Len(s) : s[i] \in ByteAction
    OBVIOUS
  <2> QED BY <2>1 DEF EffectsOf
<1>2. [i \in 1 .. Len(s) |-> Effects(s[i])] = Along(EffectsOf, s)
  BY <1>1, Zenon DEF Along
<1>3. Doing(s) = FlattenSeq(Along(EffectsOf, s))
  BY <1>2, Zenon DEF Doing
<1>4. \A a \in ByteAction : Effects(a) \in Seq(Mark)
  BY EffectsTyped
<1> QED BY <1>3, <1>4 DEF EffectsOf

LEMMA DoingConcat ==
  ASSUME NEW s \in Seq(ByteAction), NEW t \in Seq(ByteAction)
  PROVE  Doing(s \o t) = Doing(s) \o Doing(t) /\ s \o t \in Seq(ByteAction)
<1> DEFINE u == Along(EffectsOf, s)
           v == Along(EffectsOf, t)
<1>1. s \o t \in Seq(ByteAction) /\ EffectsOf \in [ByteAction -> Seq(Mark)]
  BY DoingAlong
<1>2. Maps(EffectsOf, ByteAction, Seq(Mark))
  BY <1>1, AlongMaps
<1>a. u \in Seq(Seq(Mark)) /\ v \in Seq(Seq(Mark)) /\ Along(EffectsOf, s \o t) = u \o v
  BY <1>2 DEF Maps
<1>3. /\ Doing(s) = FlattenSeq(u) /\ Doing(t) = FlattenSeq(v)
      /\ Doing(s \o t) = FlattenSeq(Along(EffectsOf, s \o t))
  BY <1>1, DoingAlong
<1> HIDE DEF u, v
<1>4. FlattenSeq(u \o v) = FlattenSeq(u) \o FlattenSeq(v)
  BY <1>a, FlattenConcat
<1> QED BY <1>1, <1>a, <1>3, <1>4

LEMMA DoingTyped ==
  ASSUME NEW s \in Seq(ByteAction)
  PROVE  Doing(s) \in Seq(Mark)
<1>1. Doing(s) = FlattenSeq(Along(EffectsOf, s)) /\ EffectsOf \in [ByteAction -> Seq(Mark)]
  BY DoingAlong
<1>2. Maps(EffectsOf, ByteAction, Seq(Mark))
  BY <1>1, AlongMaps
<1>3. Along(EffectsOf, s) \in Seq(Seq(Mark))
  BY <1>2 DEF Maps
<1> QED BY <1>1, <1>3, FlattenTyped

LEMMA DoingNone == Doing(<<>>) = <<>>
<1>1. [i \in 1 .. Len(<<>>) |-> Effects(<<>>[i])] = <<>>
  OBVIOUS
<1> QED BY <1>1, FlattenNone DEF Doing

LEMMA DoingAppend ==
  ASSUME NEW s \in Seq(ByteAction), NEW a \in ByteAction
  PROVE  Append(s, a) \in Seq(ByteAction) /\ Doing(Append(s, a)) = Doing(s) \o Effects(a)
<1>1. Append(s, a) = s \o <<a>> /\ <<a>> \in Seq(ByteAction)
  OBVIOUS
<1>2. Doing(<<a>>) = Effects(a)
  <2>1. [i \in 1 .. Len(<<a>>) |-> Effects(<<a>>[i])] = <<Effects(a)>>
    OBVIOUS
  <2>2. FlattenSeq(<<Effects(a)>>) = Effects(a)
    BY EffectsTyped, FlattenOne
  <2> QED BY <2>1, <2>2 DEF Doing
<1> QED BY <1>1, <1>2, DoingConcat

-----------------------------------------------------------------------------
(***************************************************************************)
(* The parser says what the definition means, byte by byte.                *)
(***************************************************************************)
LEMMA Marks ==
  /\ \A a, b \in Seq(Mark) : a \o b \in Seq(Mark)
  /\ \A a, b, c \in Seq(Mark) : (a \o b) \o c = a \o (b \o c)
  /\ \A a \in Seq(Mark) : a \o <<>> = a /\ <<>> \o a = a
  /\ <<>> \in Seq(Mark)
<1>1. ASSUME NEW a \in Seq(Mark), NEW b \in Seq(Mark) PROVE a \o b \in Seq(Mark)
  OBVIOUS
<1>2. ASSUME NEW a \in Seq(Mark), NEW b \in Seq(Mark), NEW c \in Seq(Mark)
      PROVE  (a \o b) \o c = a \o (b \o c)
  BY ConcatAssociative
<1>3. ASSUME NEW a \in Seq(Mark) PROVE a \o <<>> = a /\ <<>> \o a = a
  OBVIOUS
<1> QED BY <1>1, <1>2, <1>3

(* What a parser will do with what it has consumed.                        *)
Said(p) == Doing(p.actions) \o Positions(p.pending)

LEMMA ByteParserParts ==
  ASSUME NEW p \in ByteParser
  PROVE  /\ p.armed \in Seq(TypedByte) /\ p.pending \in Seq(TypedByte)
         /\ p.actions \in Seq(ByteAction)
         /\ Doing(p.actions) \in Seq(Mark) /\ Positions(p.pending) \in Seq(Mark)
         /\ Said(p) \in Seq(Mark)
<1>1. /\ p.armed \in Seq(TypedByte) /\ p.pending \in Seq(TypedByte)
      /\ p.actions \in Seq(ByteAction)
  BY DEF ByteParser
<1>2. Doing(p.actions) \in Seq(Mark) /\ Positions(p.pending) \in Seq(Mark)
  BY <1>1, DoingTyped, PositionsConcat
<1> QED BY <1>1, <1>2, Marks DEF Said

LEMMA ByteParserTyped ==
  ASSUME NEW a \in Seq(TypedByte), NEW b \in Seq(TypedByte), NEW c \in Seq(ByteAction)
  PROVE  /\ Parser(a, b, c) \in ByteParser /\ Parser(a, b, c).armed = a
         /\ Parser(a, b, c).pending = b /\ Parser(a, b, c).actions = c
BY DEF Parser, ByteParser

LEMMA ByteActions ==
  /\ \A s \in Seq(TypedByte) :
       /\ Forward(s) \in ByteAction /\ Effects(Forward(s)) = Positions(s)
       /\ ForwardThenStop(s) \in ByteAction
       /\ Effects(ForwardThenStop(s)) = Append(Positions(s), "stop")
  /\ ExitToStructured \in ByteAction /\ Effects(ExitToStructured) = <<"leave">>
  /\ Detach \in ByteAction /\ Effects(Detach) = <<"detach">>
BY DEF Forward, ForwardThenStop, ExitToStructured, Detach, ByteAction, Effects

LEMMA FlushSays ==
  ASSUME NEW p \in ByteParser
  PROVE  /\ FlushPending(p) \in ByteParser /\ FlushPending(p).armed = p.armed
         /\ FlushPending(p).pending = <<>> /\ Doing(FlushPending(p).actions) = Said(p)
<1>1. CASE p.pending = <<>>
  <2>1. Said(p) = Doing(p.actions)
    BY <1>1, ByteParserParts, PositionsOfNone, Marks DEF Said
  <2> QED BY <1>1, <2>1 DEF FlushPending
<1>2. CASE p.pending # <<>>
  <2> DEFINE a == Forward(p.pending)
  <2>1. a \in ByteAction /\ Effects(a) = Positions(p.pending)
    BY ByteParserParts, ByteActions
  <2> HIDE DEF a
  <2>2. Append(p.actions, a) \in Seq(ByteAction)
        /\ Doing(Append(p.actions, a)) = Doing(p.actions) \o Effects(a)
    BY <2>1, ByteParserParts, DoingAppend
  <2>3. FlushPending(p) = Parser(p.armed, <<>>, Append(p.actions, a))
    BY <1>2 DEF FlushPending, a
  <2>4. /\ FlushPending(p).armed = p.armed /\ FlushPending(p).pending = <<>>
        /\ FlushPending(p).actions = Append(p.actions, a)
    BY <2>3 DEF Parser
  <2>5. FlushPending(p) \in ByteParser
    <3>1. p.armed \in Seq(TypedByte) /\ <<>> \in Seq(TypedByte)
      BY ByteParserParts
    <3>2. Append(p.actions, a) \in Seq(ByteAction)
      BY <2>2
    <3> QED BY <2>3, <3>1, <3>2 DEF Parser, ByteParser
  <2> QED BY <2>1, <2>2, <2>4, <2>5 DEF Said
<1> QED BY <1>1, <1>2

LEMMA PushSays ==
  ASSUME NEW p \in ByteParser, NEW a \in ByteAction
  PROVE  /\ Push(p, a) \in ByteParser /\ Push(p, a).armed = p.armed
         /\ Said(Push(p, a)) = Said(p) \o Effects(a)
<1> DEFINE f == FlushPending(p)
           q == Push(p, a)
<1>1. f \in ByteParser /\ f.armed = p.armed /\ f.pending = <<>> /\ Doing(f.actions) = Said(p)
  BY FlushSays
<1>2. q = Parser(f.armed, f.pending, Append(f.actions, a))
  BY DEF Push
<1> HIDE DEF f, q
<1>3. Append(f.actions, a) \in Seq(ByteAction)
      /\ Doing(Append(f.actions, a)) = Said(p) \o Effects(a)
  BY <1>1, ByteParserParts, DoingAppend
<1>4. q \in ByteParser /\ q.armed = p.armed /\ q.pending = <<>>
      /\ q.actions = Append(f.actions, a)
  <2>1. q.armed = p.armed /\ q.pending = <<>> /\ q.actions = Append(f.actions, a)
    BY <1>1, <1>2 DEF Parser
  <2>2. f.armed \in Seq(TypedByte) /\ f.pending \in Seq(TypedByte)
    BY <1>1, ByteParserParts
  <2>3. q \in ByteParser
    BY <1>2, <1>3, <2>2, ByteParserTyped
  <2> QED BY <2>1, <2>3
<1>5. Said(q) = (Said(p) \o Effects(a)) \o <<>>
  BY <1>3, <1>4, PositionsOfNone DEF Said
<1>6. Said(p) \o Effects(a) \in Seq(Mark)
  BY ByteParserParts, EffectsTyped, Marks
<1> QED BY <1>4, <1>5, <1>6, Marks DEF q

LEMMA PendSays ==
  ASSUME NEW p \in ByteParser, NEW a \in Seq(TypedByte), NEW s \in Seq(TypedByte)
  PROVE  /\ Parser(a, p.pending \o s, p.actions) \in ByteParser
         /\ Parser(a, p.pending \o s, p.actions).armed = a
         /\ Said(Parser(a, p.pending \o s, p.actions)) = Said(p) \o Positions(s)
<1> DEFINE q == Parser(a, p.pending \o s, p.actions)
<1>1. p.pending \in Seq(TypedByte) /\ p.actions \in Seq(ByteAction)
      /\ p.pending \o s \in Seq(TypedByte)
  BY ByteParserParts
<1>2. q \in ByteParser /\ q.armed = a /\ q.pending = p.pending \o s /\ q.actions = p.actions
  <2>1. q.armed = a /\ q.pending = p.pending \o s /\ q.actions = p.actions
    BY DEF Parser
  <2>2. q \in ByteParser
    BY <1>1, ByteParserTyped
  <2> QED BY <2>1, <2>2
<1> HIDE DEF q
<1>3. Positions(q.pending) = Positions(p.pending) \o Positions(s)
  BY <1>1, <1>2, PositionsConcat
<1>4. Doing(p.actions) \in Seq(Mark) /\ Positions(p.pending) \in Seq(Mark)
      /\ Positions(s) \in Seq(Mark)
  BY <1>1, DoingTyped, PositionsConcat
<1>5. Said(q) = Said(p) \o Positions(s)
  <2>1. PICK d \in Seq(Mark) : d = Doing(p.actions)
    BY <1>4
  <2>2. PICK o \in Seq(Mark) : o = Positions(p.pending)
    BY <1>4
  <2>3. PICK e \in Seq(Mark) : e = Positions(s)
    BY <1>4
  <2>4. (d \o o) \o e = d \o (o \o e)
    BY Marks
  <2> QED BY <1>2, <1>3, <2>1, <2>2, <2>3, <2>4 DEF Said
<1> QED BY <1>2, <1>5 DEF q

(* A byte that no Ctrl-] is held back before.                              *)
LEMMA PlainSays ==
  ASSUME NEW p \in ByteParser, p.armed = <<>>, NEW b \in TypedByte
  PROVE  LET q == ConsumePlain(p, b)
         IN /\ q \in ByteParser
            /\ q.armed = IF b.key = CtrlRightBracket THEN <<b>> ELSE <<>>
            /\ Said(q) = Said(p) \o
                 (IF b.key = CtrlRightBracket THEN <<>>
                  ELSE <<b.at>> \o (IF b.key = CtrlD THEN <<"stop">> ELSE <<>>))
<1> DEFINE q == ConsumePlain(p, b)
<1>0. /\ p.pending \in Seq(TypedByte) /\ p.actions \in Seq(ByteAction)
      /\ <<b>> \in Seq(TypedByte) /\ Positions(<<b>>) = <<b.at>> /\ <<>> \in Seq(TypedByte)
      /\ Said(p) \in Seq(Mark) /\ CtrlRightBracket # CtrlD /\ b.at \in Nat
  BY ByteParserParts, PositionsOfOne DEF CtrlRightBracket, CtrlD, TypedByte
<1>1. CASE b.key = CtrlRightBracket
  <2>1. q = Parser(<<b>>, p.pending, p.actions)
    BY <1>1 DEF ConsumePlain, CtrlRightBracket, CtrlD
  <2>2. q \in ByteParser /\ q.armed = <<b>> /\ q.pending = p.pending /\ q.actions = p.actions
    <3>1. /\ <<b>> \in Seq(TypedByte) /\ p.pending \in Seq(TypedByte)
          /\ p.actions \in Seq(ByteAction)
      BY <1>0
    <3>2. Parser(<<b>>, p.pending, p.actions) \in ByteParser
      BY <3>1, ByteParserTyped
    <3> HIDE DEF q
    <3> QED BY <2>1, <3>2 DEF Parser
  <2> HIDE DEF q
  <2>3. Said(q) = Said(p) \o <<>>
    BY <1>0, <2>2, Marks DEF Said
  <2> QED BY <1>1, <2>2, <2>3 DEF q
<1>2. CASE b.key = CtrlD
  <2>1. q = Push(p, ForwardThenStop(<<b>>))
    BY <1>0, <1>2 DEF ConsumePlain
  <2>2. /\ ForwardThenStop(<<b>>) \in ByteAction
        /\ Effects(ForwardThenStop(<<b>>)) = Append(<<b.at>>, "stop")
    BY <1>0, ByteActions
  <2>3. Append(<<b.at>>, "stop") = <<b.at>> \o <<"stop">>
    OBVIOUS
  <2>4. q \in ByteParser /\ q.armed = <<>> /\ Said(q) = Said(p) \o (<<b.at>> \o <<"stop">>)
    BY <2>1, <2>2, <2>3, PushSays
  <2> QED BY <1>0, <1>2, <2>4
<1>3. CASE b.key # CtrlRightBracket /\ b.key # CtrlD
  <2>1. q = Parser(<<>>, Append(p.pending, b), p.actions)
    BY <1>3 DEF ConsumePlain
  <2>2. Append(p.pending, b) = p.pending \o <<b>>
    BY <1>0, SMTT(30)
  <2>3. q \in ByteParser /\ q.armed = <<>> /\ Said(q) = Said(p) \o <<b.at>>
    <3>1. q = Parser(<<>>, p.pending \o <<b>>, p.actions)
      BY <2>1, <2>2
    <3>2. <<>> \in Seq(TypedByte) /\ <<b>> \in Seq(TypedByte)
      BY <1>0
    <3> HIDE DEF q
    <3>3. q \in ByteParser /\ q.armed = <<>> /\ Said(q) = Said(p) \o Positions(<<b>>)
      BY <3>1, <3>2, PendSays
    <3> QED BY <1>0, <3>3
  <2>4. <<b.at>> \o <<>> = <<b.at>>
    OBVIOUS
  <2> QED BY <1>3, <2>3, <2>4
<1> QED BY <1>1, <1>2, <1>3

-----------------------------------------------------------------------------
Numbered(t, n) == \A i \in 1 .. n : t[i] \in TypedByte /\ t[i].at = i

LEMMA StopTyped == <<"stop">> \in Seq(Mark) /\ <<>> \in Seq(Mark)
<1>1. "stop" \in Mark
  BY DEF Mark
<1> QED BY <1>1

LEMMA Regroup ==
  ASSUME NEW s \in Seq(Mark), NEW x \in Seq(Mark), NEW n \in Nat
  PROVE  (s \o <<n>>) \o (<<n + 1>> \o x) = s \o (<<n, n + 1>> \o x)
<1>1. n \in Mark /\ n + 1 \in Mark
  BY DEF Mark
<1>a. <<n>> \in Seq(Mark) /\ <<n + 1>> \in Seq(Mark)
  BY <1>1
<1>2. PICK y \in Seq(Mark) : y = <<n>>
  BY <1>a, Zenon
<1>3. PICK z \in Seq(Mark) : z = <<n + 1>>
  BY <1>a, Zenon
<1>4. PICK w \in Seq(Mark) : w = z \o x
  BY Marks
<1>5. (s \o y) \o w = s \o (y \o w)
  BY Marks, SMTT(30)
<1>6. (y \o z) \o x = y \o (z \o x)
  BY Marks
<1>7. <<n>> \o <<n + 1>> = <<n, n + 1>>
  <2>1. PICK m \in Nat : m = n + 1
    OBVIOUS
  <2>2. <<n>> \o <<m>> = Append(<<n>>, m)
    OBVIOUS
  <2>3. Append(<<n>>, m) = <<n, m>>
    <3> DEFINE a == Append(<<n>>, m)
               b == <<n, m>>
    <3>1. a \in Seq(Nat) /\ Len(a) = 2 /\ a[1] = n /\ a[2] = m
      OBVIOUS
    <3>2. b \in Seq(Nat) /\ Len(b) = 2 /\ b[1] = n /\ b[2] = m
      OBVIOUS
    <3> HIDE DEF a, b
    <3>3. \A i \in 1 .. Len(a) : a[i] = b[i]
      BY <3>1, <3>2
    <3>4. a = b
      BY <3>1, <3>2, <3>3, SeqEqual
    <3> QED BY <3>4 DEF a, b
  <2> QED BY <2>1, <2>2, <2>3
<1> QED BY <1>2, <1>3, <1>4, <1>5, <1>6, <1>7

LEMMA EffectTyped ==
  ASSUME NEW t, NEW i \in Nat \ {0}
  PROVE  Effect(t, i) \in Seq(Mark)
<1>1. <<IF t[i].key = TabKey THEN "leave" ELSE "detach">> \in Seq(Mark)
  BY DEF Mark
<1>2. <<>> \in Seq(Mark)
  OBVIOUS
<1>3. (IF Prefixed(t, i) THEN <<i - 1, i>> ELSE <<i>>) \in Seq(Mark)
  <2>1. i \in Mark /\ i - 1 \in Mark
    BY DEF Mark
  <2>2. <<i - 1, i>> \in Seq(Mark) /\ <<i>> \in Seq(Mark)
    BY <2>1
  <2> QED BY <2>2
<1>4. (IF t[i].key = CtrlD THEN <<"stop">> ELSE <<>>) \in Seq(Mark)
  BY StopTyped
<1>5. (IF Prefixed(t, i) THEN <<i - 1, i>> ELSE <<i>>)
        \o (IF t[i].key = CtrlD THEN <<"stop">> ELSE <<>>) \in Seq(Mark)
  BY <1>3, <1>4, Marks
<1> QED BY <1>1, <1>2, <1>5 DEF Effect

(* The Ctrl-] the parser holds back after n bytes.                         *)
HeldBack(t, n) == IF Prefixed(t, n + 1) THEN <<t[n]>> ELSE <<>>

LEMMA ByteSays ==
  ASSUME NEW t, NEW n \in Nat, Numbered(t, n + 1),
         NEW p \in ByteParser, p.armed = HeldBack(t, n)
  PROVE  LET q == ConsumeByte(p, t[n + 1])
         IN /\ q \in ByteParser /\ q.armed = HeldBack(t, n + 1)
            /\ Said(q) = Said(p) \o Effect(t, n + 1)
<1> DEFINE b == t[n + 1]
           q == ConsumeByte(p, b)
<1>0. /\ b \in TypedByte /\ b.at = n + 1 /\ n + 1 \in Nat \ {0} /\ (n + 1) - 1 = n
      /\ TabKey # CtrlRightBracket /\ TabKey # CtrlD /\ CtrlRightBracket # CtrlD
      /\ "d" # CtrlRightBracket /\ "d" # CtrlD /\ "d" # TabKey
  BY DEF Numbered, TabKey, CtrlRightBracket, CtrlD
<1>1. Prefixed(t, (n + 1) + 1) <=> b.key = CtrlRightBracket /\ ~Prefixed(t, n + 1)
  BY <1>0, PrefixedStep DEF IsBracket
<1>2. HeldBack(t, n + 1) = IF b.key = CtrlRightBracket /\ ~Prefixed(t, n + 1) THEN <<b>> ELSE <<>>
  BY <1>1 DEF HeldBack
<1>3. IsBracket(t, n + 1) <=> b.key = CtrlRightBracket
  BY DEF IsBracket
<1>4. CASE ~Prefixed(t, n + 1)
  <2>1. p.armed = <<>>
    BY <1>4 DEF HeldBack
  <2>2. q = ConsumePlain(p, b)
    BY <2>1 DEF ConsumeByte
  <2>3. Effect(t, n + 1) = IF b.key = CtrlRightBracket THEN <<>>
                           ELSE <<n + 1>> \o (IF b.key = CtrlD THEN <<"stop">> ELSE <<>>)
    BY <1>3, <1>4 DEF Effect, EndsChord
  <2> HIDE DEF b, q
  <2> QED BY <1>0, <1>2, <1>4, <2>1, <2>2, <2>3, PlainSays DEF b, q
<1>5. CASE Prefixed(t, n + 1)
  <2>1. /\ n \in Nat \ {0} /\ IsBracket(t, n) /\ ~Prefixed(t, n)
    <3>1. n # 0
      BY <1>5, FirstIsPlain
    <3> QED BY <1>5, <3>1, PrefixedStep
  <2>2. p.armed = <<t[n]>> /\ t[n] \in TypedByte /\ t[n].at = n
    BY <1>5, <2>1 DEF HeldBack, Numbered
  <2>3. HeldBack(t, n + 1) = <<>>
    BY <1>2, <1>5
  <2> DEFINE d == Parser(<<>>, p.pending, p.actions)
             e == Parser(<<>>, p.pending \o p.armed, p.actions)
  <2>4. d \in ByteParser /\ d.armed = <<>> /\ Said(d) = Said(p)
    <3>1. d.armed = <<>> /\ d.pending = p.pending /\ d.actions = p.actions
      BY DEF Parser
    <3>2. d \in ByteParser
      BY ByteParserParts, ByteParserTyped, PositionsOfNone
    <3> HIDE DEF d
    <3> QED BY <3>1, <3>2 DEF Said
  <2>5. e \in ByteParser /\ e.armed = <<>> /\ Said(e) = Said(p) \o <<n>>
    <3>1. <<>> \in Seq(TypedByte) /\ p.armed \in Seq(TypedByte) /\ Positions(p.armed) = <<n>>
      BY <2>2, PositionsOfOne
    <3>2. e \in ByteParser /\ e.armed = <<>> /\ Said(e) = Said(p) \o Positions(p.armed)
      BY <3>1, PendSays
    <3> QED BY <3>1, <3>2
  <2>6. CASE b.key = TabKey
    <3>1. q = Push(d, ExitToStructured)
      BY <2>2, <2>6 DEF ConsumeByte, ConsumeArmed, TabKey, CtrlRightBracket
    <3>2. Effect(t, n + 1) = <<"leave">>
      BY <1>5, <2>6 DEF Effect, EndsChord
    <3> HIDE DEF d, q, b
    <3> QED BY <2>3, <2>4, <3>1, <3>2, PushSays, ByteActions DEF q, b
  <2>7. CASE b.key \in {CtrlRightBracket, "d"}
    <3>1. q = Push(d, Detach)
      BY <2>2, <2>7 DEF ConsumeByte, ConsumeArmed, TabKey, CtrlRightBracket
    <3>2. Effect(t, n + 1) = <<"detach">>
      BY <1>0, <1>5, <2>7 DEF Effect, EndsChord
    <3> HIDE DEF d, q, b
    <3> QED BY <2>3, <2>4, <3>1, <3>2, PushSays, ByteActions DEF q, b
  <2>8. CASE b.key \notin {TabKey, CtrlRightBracket, "d"}
    <3>1. q = ConsumePlain(e, b)
      BY <2>2, <2>8 DEF ConsumeByte, ConsumeArmed, TabKey, CtrlRightBracket
    <3>2. Effect(t, n + 1) = <<n, n + 1>> \o (IF b.key = CtrlD THEN <<"stop">> ELSE <<>>)
      BY <1>0, <1>3, <1>5, <2>8 DEF Effect, EndsChord
    <3> DEFINE after == IF b.key = CtrlD THEN <<"stop">> ELSE <<>>
    <3>3. q \in ByteParser /\ q.armed = <<>>
          /\ Said(q) = (Said(p) \o <<n>>) \o (<<n + 1>> \o after)
      <4> HIDE DEF e, b
      <4>1. /\ ConsumePlain(e, b) \in ByteParser
            /\ ConsumePlain(e, b).armed = <<>>
            /\ Said(ConsumePlain(e, b)) = Said(e) \o (<<b.at>> \o after)
        BY <1>0, <2>5, <2>8, PlainSays
      <4> QED BY <1>0, <2>5, <3>1, <4>1 DEF b
    <3>4. (Said(p) \o <<n>>) \o (<<n + 1>> \o after) = Said(p) \o (<<n, n + 1>> \o after)
      <4>1. Said(p) \in Seq(Mark) /\ after \in Seq(Mark)
        BY ByteParserParts, StopTyped
      <4> HIDE DEF after
      <4> QED BY <4>1, Regroup
    <3> QED BY <2>3, <3>2, <3>3, <3>4
  <2> QED BY <2>6, <2>7, <2>8
<1> QED BY <1>4, <1>5

-----------------------------------------------------------------------------
LEMMA MeaningSteps ==
  ASSUME NEW t, NEW n \in Nat
  PROVE  /\ Meaning(t, n) \in Seq(Mark) /\ Meaning(t, 0) = <<>>
         /\ Meaning(t, n + 1) = Meaning(t, n) \o Effect(t, n + 1)
<1> DEFINE ss == [i \in 1 .. n |-> Effect(t, i)]
           uu == [i \in 1 .. n + 1 |-> Effect(t, i)]
<1>1. \A i \in 1 .. n + 1 : Effect(t, i) \in Seq(Mark)
  BY EffectTyped
<1>2. ss \in Seq(Seq(Mark)) /\ Len(ss) = n /\ uu \in Seq(Seq(Mark)) /\ Len(uu) = n + 1
  BY <1>1
<1>3. \A i \in 1 .. n : uu[i] = ss[i]
  OBVIOUS
<1>4. uu[n + 1] = Effect(t, n + 1)
  OBVIOUS
<1>5. Meaning(t, n) = FlattenSeq(ss) /\ Meaning(t, n + 1) = FlattenSeq(uu)
  BY DEF Meaning
<1> HIDE DEF ss, uu
<1>6. PICK f : f[0] = <<>> /\ (\A k \in 1 .. Len(uu) : f[k] = f[k - 1] \o uu[k])
               /\ FlattenSeq(uu) = f[Len(uu)]
  BY <1>2, FlattenSteps
<1>7. FlatSteps(ss, f, Len(ss))
  <2>1. ASSUME NEW k \in 1 .. n PROVE f[k] = f[k - 1] \o ss[k]
    <3>1. k \in 1 .. Len(uu) /\ uu[k] = ss[k]
      BY <1>2, <1>3
    <3> QED BY <1>6, <3>1
  <2> QED BY <1>2, <1>6, <2>1 DEF FlatSteps
<1>8. f[n] = FlattenSeq(ss) /\ FlattenSeq(ss) \in Seq(Mark)
  BY <1>2, <1>7, FlattenUnique
<1>9. f[n + 1] = f[n] \o uu[n + 1]
  <2>1. n + 1 \in 1 .. Len(uu) /\ (n + 1) - 1 = n
    BY <1>2
  <2> QED BY <1>6, <2>1
<1>10. Meaning(t, 0) = <<>>
  <2>1. [i \in 1 .. 0 |-> Effect(t, i)] = <<>>
    OBVIOUS
  <2> QED BY <2>1, FlattenNone DEF Meaning
<1> QED BY <1>2, <1>4, <1>5, <1>6, <1>8, <1>9, <1>10

LEMMA MeaningIsLocal ==
  ASSUME NEW t, NEW u, NEW n \in Nat, \A i \in 1 .. n : t[i] = u[i]
  PROVE  Meaning(t, n) = Meaning(u, n)
<1>1. \A i \in 1 .. n : Effect(t, i) = Effect(u, i)
  BY EffectIsLocal
<1>2. [i \in 1 .. n |-> Effect(t, i)] = [i \in 1 .. n |-> Effect(u, i)]
  BY <1>1, Zenon
<1> QED BY <1>2, Zenon DEF Meaning

(* What is held back depends on the bytes read.                            *)
LEMMA HeldBackIsLocal ==
  ASSUME NEW t, NEW u, NEW n \in Nat, \A i \in 1 .. n : t[i] = u[i]
  PROVE  HeldBack(t, n) = HeldBack(u, n)
<1>1. CASE n = 0
  BY <1>1, FirstIsPlain DEF HeldBack
<1>2. CASE n # 0
  <2>1. n \in Nat \ {0} /\ n \in 1 .. n /\ n + 1 \in Nat
    BY <1>2
  <2>2. t[n] = u[n]
    BY <2>1
  <2>3. Prefixed(t, n + 1) <=> Prefixed(u, n + 1)
    <3>1. /\ Prefixed(t, n + 1) <=> IsBracket(t, n) /\ ~Prefixed(t, n)
          /\ Prefixed(u, n + 1) <=> IsBracket(u, n) /\ ~Prefixed(u, n)
      BY <2>1, PrefixedStep
    <3>2. Prefixed(t, n) <=> Prefixed(u, n)
      BY <2>1, PrefixedIsLocal
    <3> QED BY <2>2, <3>1, <3>2 DEF IsBracket
  <2> QED BY <2>2, <2>3 DEF HeldBack
<1> QED BY <1>1, <1>2

(* A read of the bytes n + 1 to n + Len(s) of t.                           *)
LEMMA FeedSays ==
  ASSUME NEW t, NEW n \in Nat, NEW s \in Seq(TypedByte), Numbered(t, n + Len(s)),
         \A k \in 1 .. Len(s) : s[k] = t[n + k]
  PROVE  LET p == Feed(HeldBack(t, n), s)
         IN /\ p.armed = HeldBack(t, n + Len(s)) /\ p.actions \in Seq(ByteAction)
            /\ Meaning(t, n) \o Doing(p.actions) = Meaning(t, n + Len(s))
<1> DEFINE m == Len(s)
           p == Parser(HeldBack(t, n), <<>>, <<>>)
<1>0. m \in Nat /\ DOMAIN s = 1 .. m
  OBVIOUS
<1>1. p \in ByteParser /\ p.armed = HeldBack(t, n) /\ Said(p) = <<>>
  <2>1. HeldBack(t, n) \in Seq(TypedByte)
    <3>1. CASE Prefixed(t, n + 1)
      <4>1. n # 0
        BY <3>1, FirstIsPlain
      <4>2. n \in 1 .. n + m
        BY <1>0, <4>1
      <4>3. t[n] \in TypedByte
        BY <4>2 DEF Numbered
      <4> QED BY <3>1, <4>3 DEF HeldBack
    <3>2. CASE ~Prefixed(t, n + 1)
      BY <3>2 DEF HeldBack
    <3> QED BY <3>1, <3>2
  <2>2. p.armed = HeldBack(t, n) /\ p.pending = <<>> /\ p.actions = <<>>
    BY DEF Parser
  <2>3. p \in ByteParser
    BY <2>1 DEF Parser, ByteParser
  <2> HIDE DEF p
  <2>4. Said(p) = <<>> \o <<>>
    BY <2>2, DoingNone, PositionsOfNone DEF Said
  <2> QED BY <2>2, <2>3, <2>4, Marks
<1> HIDE DEF p
<1>2. PICK f : /\ f[0] = p
               /\ \A k \in 1 .. m : f[k] = ConsumeByte(f[k - 1], s[k])
               /\ Fold(p, s) = f[m]
  <2> HIDE DEF m
  <2>1. FoldOf(p, m, s)
    BY <1>0, FoldSteps
  <2> QED BY <2>1 DEF FoldOf
<1> DEFINE Good == {k \in 0 .. m : /\ f[k] \in ByteParser /\ f[k].armed = HeldBack(t, n + k)
                                   /\ Meaning(t, n) \o Said(f[k]) = Meaning(t, n + k)}
<1>3. 0 \in Good
  <2>1. Meaning(t, n) \o <<>> = Meaning(t, n)
    BY MeaningSteps, Marks
  <2>2. n + 0 = n /\ 0 \in 0 .. m
    BY <1>0
  <2> QED BY <1>1, <1>2, <2>1, <2>2
<1>4. ASSUME NEW k \in 0 .. m - 1, k \in Good PROVE k + 1 \in Good
  <2>1. /\ k + 1 \in 1 .. m /\ k + 1 \in 0 .. m /\ (k + 1) - 1 = k /\ n + k \in Nat
        /\ n + (k + 1) = (n + k) + 1 /\ (n + k) + 1 \in 1 .. n + m
    BY <1>0
  <2>2. f[k + 1] = ConsumeByte(f[k], t[(n + k) + 1])
    BY <1>2, <2>1
  <2>3. Numbered(t, (n + k) + 1)
    <3>1. \A i \in 1 .. (n + k) + 1 : i \in 1 .. n + m
      BY <1>0, <2>1
    <3> QED BY <3>1 DEF Numbered
  <2>4. f[k] \in ByteParser /\ f[k].armed = HeldBack(t, n + k)
        /\ Meaning(t, n) \o Said(f[k]) = Meaning(t, n + k)
    BY <1>4
  <2>5. /\ f[k + 1] \in ByteParser /\ f[k + 1].armed = HeldBack(t, (n + k) + 1)
        /\ Said(f[k + 1]) = Said(f[k]) \o Effect(t, (n + k) + 1)
    <3>1. PICK q \in ByteParser : q = f[k]
      BY <2>4, Zenon
    <3>2. q.armed = HeldBack(t, n + k)
      BY <2>4, <3>1
    <3>3. /\ ConsumeByte(q, t[(n + k) + 1]) \in ByteParser
          /\ ConsumeByte(q, t[(n + k) + 1]).armed = HeldBack(t, (n + k) + 1)
          /\ Said(ConsumeByte(q, t[(n + k) + 1])) = Said(q) \o Effect(t, (n + k) + 1)
      BY <2>1, <2>3, <3>2, ByteSays
    <3> QED BY <2>2, <3>1, <3>3
  <2>6. Meaning(t, (n + k) + 1) = Meaning(t, n + k) \o Effect(t, (n + k) + 1)
    BY <2>1, MeaningSteps
  <2>7. Meaning(t, n) \o Said(f[k + 1]) = Meaning(t, (n + k) + 1)
    <3>1. PICK a \in Seq(Mark) : a = Meaning(t, n)
      BY MeaningSteps, Zenon
    <3>2. PICK b \in Seq(Mark) : b = Said(f[k])
      BY <2>4, ByteParserParts, Zenon
    <3>3. PICK c \in Seq(Mark) : c = Effect(t, (n + k) + 1)
      <4>1. (n + k) + 1 \in Nat \ {0}
        BY <2>1
      <4> QED BY <4>1, EffectTyped, Zenon
    <3>4. (a \o b) \o c = a \o (b \o c)
      BY Marks
    <3> QED BY <2>4, <2>5, <2>6, <3>1, <3>2, <3>3, <3>4
  <2> QED BY <2>1, <2>5, <2>7
<1>5. m \in Good
  <2> HIDE DEF Good, m
  <2>1. 0 .. m \subseteq Good
    BY <1>0, <1>3, <1>4, BoundedInduction
  <2> QED BY <1>0, <2>1
<1>6. f[m] \in ByteParser /\ f[m].armed = HeldBack(t, n + m)
      /\ Meaning(t, n) \o Said(f[m]) = Meaning(t, n + m)
  BY <1>5
<1>7. Feed(HeldBack(t, n), s) = FlushPending(f[m])
  <2>1. Feed(HeldBack(t, n), s) = FlushPending(Fold(p, s))
    BY DEF Feed, Fold, p
  <2> QED BY <1>2, <2>1
<1>8. /\ FlushPending(f[m]) \in ByteParser /\ FlushPending(f[m]).armed = f[m].armed
      /\ Doing(FlushPending(f[m]).actions) = Said(f[m])
  BY <1>6, FlushSays
<1> QED BY <1>6, <1>7, <1>8, ByteParserParts

-----------------------------------------------------------------------------
(* What the parser holds back is told from the input, and all the rest of  *)
(* the input is in the actions returned.                                   *)
ReadsInv ==
  /\ input \in Seq(TypedByte) /\ Numbered(input, Len(input))
  /\ prefix = HeldBack(input, Len(input))
  /\ obeyed \in Seq(ByteAction) /\ Verbatim

LEMMA ReadsInitHolds == ReadsInit => ReadsInv
<1> SUFFICES ASSUME ReadsInit PROVE ReadsInv
  OBVIOUS
<1>1. input = <<>> /\ prefix = <<>> /\ obeyed = <<>> /\ Len(input) = 0
  BY DEF ReadsInit
<1>2. HeldBack(input, 0) = <<>>
  BY FirstIsPlain DEF HeldBack
<1>3. Doing(<<>>) = <<>> /\ Meaning(input, 0) = <<>>
  BY DoingNone, MeaningSteps
<1>4. Numbered(input, 0)
  BY DEF Numbered
<1> QED BY <1>1, <1>2, <1>3, <1>4 DEF ReadsInv, Verbatim

LEMMA ReadStep == ReadsInv /\ ReadsNext => ReadsInv'
<1> SUFFICES ASSUME ReadsInv, ReadsNext PROVE ReadsInv'
  OBVIOUS
<1> DEFINE len == Len(input)
<1>0. len \in Nat /\ input \in Seq(TypedByte) /\ obeyed \in Seq(ByteAction)
  BY DEF ReadsInv
<1>1. PICK n \in 1 .. MaxBytes - len : \E k \in [1 .. n -> Key] :
              Read([i \in 1 .. n |-> [key |-> k[i], at |-> len + i]])
  BY DEF ReadsNext
<1>2. PICK k \in [1 .. n -> Key] : Read([i \in 1 .. n |-> [key |-> k[i], at |-> len + i]])
  BY <1>1
<1>3. PICK s : s = [i \in 1 .. n |-> [key |-> k[i], at |-> len + i]]
  OBVIOUS
<1>4. n \in Nat
  BY <1>0, MaxBytesAssumption
<1>5. s \in Seq(TypedByte) /\ Len(s) = n /\ \A i \in 1 .. n : s[i].at = len + i
  <2>1. \A i \in 1 .. n : [key |-> k[i], at |-> len + i] \in TypedByte
    BY <1>0, <1>4 DEF TypedByte
  <2>2. s \in [1 .. n -> TypedByte]
    BY <1>3, <2>1
  <2> QED BY <1>3, <1>4, <2>2
<1>6. PICK t : t = input \o s
  OBVIOUS
<1>7. /\ t \in Seq(TypedByte) /\ Len(t) = len + n
      /\ \A i \in 1 .. len : t[i] = input[i]
      /\ \A i \in 1 .. n : s[i] = t[len + i]
  <2>1. /\ t \in Seq(TypedByte) /\ Len(t) = len + n
        /\ \A i \in 1 .. len : t[i] = input[i]
    BY <1>0, <1>5, <1>6
  <2>2. ASSUME NEW i \in 1 .. n PROVE s[i] = t[len + i]
    BY <1>0, <1>4, <1>5, <1>6
  <2> QED BY <2>1, <2>2
<1>8. Numbered(t, len + n)
  <2> SUFFICES ASSUME NEW i \in 1 .. len + n PROVE t[i] \in TypedByte /\ t[i].at = i
    BY DEF Numbered
  <2>1. t[i] \in TypedByte
    BY <1>7
  <2>2. CASE i =< len
    BY <1>0, <1>7, <2>2 DEF ReadsInv, Numbered
  <2>3. CASE ~(i =< len)
    <3>1. i - len \in 1 .. n /\ len + (i - len) = i
      BY <1>0, <1>4, <2>3
    <3>2. s[i - len] = t[len + (i - len)] /\ s[i - len].at = len + (i - len)
      BY <1>5, <1>7, <3>1
    <3> QED BY <2>1, <3>1, <3>2
  <2> QED BY <2>1, <2>2, <2>3
<1> DEFINE p == Feed(HeldBack(t, len), s)
<1> HIDE DEF len
<1>9. /\ p.armed = HeldBack(t, len + n) /\ p.actions \in Seq(ByteAction)
      /\ Meaning(t, len) \o Doing(p.actions) = Meaning(t, len + n)
  BY <1>0, <1>5, <1>7, <1>8, FeedSays
<1>10. HeldBack(t, len) = HeldBack(input, len) /\ Meaning(t, len) = Meaning(input, len)
  BY <1>0, <1>7, HeldBackIsLocal, MeaningIsLocal
<1>11. prefix' = p.armed /\ obeyed' = obeyed \o p.actions /\ input' = t
  <2>1. prefix = HeldBack(t, len)
    BY <1>10 DEF ReadsInv, len
  <2>2. Read(s)
    BY <1>2, <1>3
  <2> QED BY <1>6, <2>1, <2>2 DEF Read
<1> HIDE DEF p
<1>12. Verbatim'
  <2>1. Doing(obeyed) = Meaning(t, len)
    BY <1>10 DEF ReadsInv, Verbatim, len
  <2>2. Doing(obeyed \o p.actions) = Doing(obeyed) \o Doing(p.actions)
    BY <1>0, <1>9, DoingConcat
  <2>3. Doing(obeyed') = Meaning(t, len + n)
    BY <1>9, <1>11, <2>1, <2>2
  <2> QED BY <1>7, <1>11, <2>3 DEF Verbatim
<1>13. obeyed' \in Seq(ByteAction)
  BY <1>0, <1>9, <1>11, DoingConcat
<1> QED BY <1>7, <1>8, <1>9, <1>11, <1>12, <1>13 DEF ReadsInv

(* The actions returned are what the input asks for, in its order, however *)
(* the reads cut it (input.rs:3-6, 43-71).                                 *)
THEOREM ForwardedVerbatim == ReadsSpec => []Verbatim
<1>1. ReadsInv /\ UNCHANGED reads => ReadsInv'
  BY DEF ReadsInv, reads, Verbatim
<1>2. ReadsInv /\ [ReadsNext]_reads => ReadsInv'
  BY <1>1, ReadStep
<1>3. ReadsInv => Verbatim
  BY DEF ReadsInv
<1> QED BY ReadsInitHolds, <1>2, <1>3, PTL DEF ReadsSpec
=============================================================================

------------------------- MODULE MobileSessionProofs -------------------------
(***************************************************************************)
(* Proofs about the mobile session, for any number of sessions, edits and  *)
(* texts and any capacity of the broadcast channel.                        *)
(***************************************************************************)
EXTENDS MobileSession, TLAPS

(* The two properties hold together with where the app stands: it attaches *)
(* one session at a time and only while it has none.                       *)
Attaching ==
  /\ attach \in {"none", "running", "attached", "failed"}
  /\ main \in {"idle", "attaching"}
  /\ connecting \in BOOLEAN /\ connected \in BOOLEAN
  /\ connecting <=> (attach # "none" \/ main = "attaching")
  /\ main = "attaching" => attach = "none"
  /\ connecting => ~connected

(* The observer task is there from subscribe to close, and never ahead of  *)
(* the channel.                                                            *)
Observing ==
  /\ drain \in {"none", "recv", "call"}
  /\ drain # "none" <=> (connected \/ main = "attaching")
  /\ tail \in Nat /\ rx \in Nat
  /\ drain # "none" => rx =< tail

Counters ==
  /\ session \in Nat /\ log \in Nat /\ reloads \in Nat
  /\ blocks \in [session : Nat, version : Nat]

MobileInv == Attaching /\ Observing /\ Counters /\ ShownIsCurrent /\ NoChangeMissed

LEMMA InitMobile == Init => MobileInv
<1> SUFFICES ASSUME Init PROVE MobileInv
  OBVIOUS
<1>1. Attaching /\ Observing /\ Counters
  BY DEF Init, Attaching, Observing, Counters, NoBlocks
<1>2. ShownIsCurrent /\ NoChangeMissed
  BY DEF Init, ShownIsCurrent, NoChangeMissed
<1> QED BY <1>1, <1>2 DEF MobileInv

(* What a step must leave alone to disturb nothing. *)
LEMMA Undisturbed ==
  ASSUME MobileInv,
         UNCHANGED <<attach, main, connecting, connected, blocks, reloads,
                     session, log, tail, drain, rx>>
  PROVE  MobileInv'
BY DEF MobileInv, Attaching, Observing, Counters, ShownIsCurrent, NoChangeMissed

LEMMA AttachingSteps ==
  ASSUME MobileInv,
         Connect \/ Attached \/ AttachFails \/ OnFailed \/ OnAttached \/ OnAttachedReload
  PROVE  MobileInv'
<1> USE DEF MobileInv, Counters, engine, observer, model, NoBlocks, Blocks
<1>1. CASE Connect
  <2>1. Attaching'
    BY <1>1 DEF Connect, Attaching
  <2>2. Observing' /\ Counters'
    BY <1>1 DEF Connect, Observing
  <2>3. ShownIsCurrent' /\ NoChangeMissed'
    BY <1>1 DEF Connect, ShownIsCurrent, NoChangeMissed
  <2> QED BY <2>1, <2>2, <2>3
<1>2. CASE Attached
  <2>1. attach = "running" /\ ~connected /\ main = "idle" /\ drain = "none"
    BY <1>2 DEF Attached, Attaching, Observing
  <2>2. Attaching'
    BY <1>2, <2>1 DEF Attached, Attaching
  <2>3. Observing' /\ Counters'
    BY <1>2, <2>1 DEF Attached, Observing
  <2>4. ShownIsCurrent' /\ NoChangeMissed'
    BY <1>2, <2>1 DEF Attached, ShownIsCurrent, NoChangeMissed
  <2> QED BY <2>2, <2>3, <2>4
<1>3. CASE AttachFails
  <2>1. Attaching'
    BY <1>3 DEF AttachFails, Attaching
  <2>2. Observing' /\ Counters'
    BY <1>3 DEF AttachFails, Observing
  <2>3. ShownIsCurrent' /\ NoChangeMissed'
    BY <1>3 DEF AttachFails, ShownIsCurrent, NoChangeMissed
  <2> QED BY <2>1, <2>2, <2>3
<1>4. CASE OnFailed
  <2>1. Attaching'
    BY <1>4 DEF OnFailed, Attaching
  <2>2. Observing' /\ Counters'
    BY <1>4 DEF OnFailed, Observing
  <2>3. ShownIsCurrent' /\ NoChangeMissed'
    BY <1>4 DEF OnFailed, ShownIsCurrent, NoChangeMissed
  <2> QED BY <2>1, <2>2, <2>3
<1>5. CASE OnAttached
  <2>1. Attaching'
    BY <1>5 DEF OnAttached, Attaching
  <2>2. Observing' /\ Counters'
    BY <1>5 DEF OnAttached, Observing
  <2>3. ShownIsCurrent' /\ NoChangeMissed'
    BY <1>5 DEF OnAttached, ShownIsCurrent, NoChangeMissed
  <2> QED BY <2>1, <2>2, <2>3
<1>6. CASE OnAttachedReload
  <2>1. Attaching'
    BY <1>6 DEF OnAttachedReload, Attaching
  <2>2. Observing' /\ Counters'
    BY <1>6 DEF OnAttachedReload, Observing
  <2>3. blocks' = Blocks /\ UNCHANGED <<session, log>>
    BY <1>6 DEF OnAttachedReload
  <2>4. ShownIsCurrent' /\ NoChangeMissed'
    BY <1>6, <2>3 DEF OnAttachedReload, ShownIsCurrent, NoChangeMissed, Blocks
  <2> QED BY <2>1, <2>2, <2>4
<1> QED BY <1>1, <1>2, <1>3, <1>4, <1>5, <1>6

LEMMA EngineSteps ==
  ASSUME MobileInv, PumpStep \/ Edit \/ FinishReturns
  PROVE  MobileInv'
<1>1. CASE PumpStep \/ FinishReturns
  BY <1>1, Undisturbed DEF PumpStep, FinishReturns, observer, model
<1>2. CASE Edit
  <2>1. /\ log' = log + 1
        /\ tail' = IF drain = "none" THEN tail ELSE tail + 1
        /\ UNCHANGED <<session, drain, rx, attach, main, connecting, connected, blocks, reloads>>
    BY <1>2 DEF Edit, observer, model
  <2>2. Attaching' /\ Observing' /\ Counters'
    BY <2>1 DEF MobileInv, Attaching, Observing, Counters
  <2>3. ShownIsCurrent'
    <3>1. connected => blocks.version =< log + 1
      <4>1. blocks.version \in Nat /\ log \in Nat
        BY DEF MobileInv, Counters
      <4> QED BY <4>1 DEF MobileInv, ShownIsCurrent
    <3> QED BY <2>1, <3>1 DEF MobileInv, ShownIsCurrent
  <2>4. NoChangeMissed'
    BY <2>1 DEF MobileInv, NoChangeMissed, Observing
  <2> QED BY <2>2, <2>3, <2>4 DEF MobileInv
<1> QED BY <1>1, <1>2

LEMMA ObserverSteps ==
  ASSUME MobileInv, Recv \/ OnChanged \/ OnChangedLate
  PROVE  MobileInv'
<1> USE DEF MobileInv, Counters, engine, model
<1>1. CASE Recv
  <2>1. rx' \in Nat /\ rx' =< tail
    BY <1>1, CapacityAssumption DEF Recv, Observing
  <2>2. Attaching' /\ Observing' /\ Counters'
    BY <1>1, <2>1 DEF Recv, Attaching, Observing
  <2>3. ShownIsCurrent' /\ NoChangeMissed'
    BY <1>1 DEF Recv, ShownIsCurrent, NoChangeMissed
  <2> QED BY <2>2, <2>3
<1>2. CASE OnChanged
  <2>1. Attaching' /\ Observing' /\ Counters'
    BY <1>2 DEF OnChanged, Attaching, Observing
  <2>2. ShownIsCurrent' /\ NoChangeMissed'
    BY <1>2 DEF OnChanged, ShownIsCurrent, NoChangeMissed
  <2> QED BY <2>1, <2>2
<1>3. CASE OnChangedLate
  <2>1. Attaching' /\ Observing' /\ Counters'
    BY <1>3 DEF OnChangedLate, Attaching, Observing
  <2>2. ShownIsCurrent' /\ NoChangeMissed'
    BY <1>3 DEF OnChangedLate, ShownIsCurrent, NoChangeMissed
  <2> QED BY <2>1, <2>2
<1> QED BY <1>1, <1>2, <1>3

LEMMA ModelSteps ==
  ASSUME MobileInv,
         Reload \/ (\E m \in {"Watch", "Interact", "Raw"} : SetMode(m)) \/ SendText \/ Disconnect
  PROVE  MobileInv'
<1>1. CASE (\E m \in {"Watch", "Interact", "Raw"} : SetMode(m)) \/ SendText
  BY <1>1, Undisturbed DEF SetMode, SendText, engine, observer, model
<1>2. CASE Reload
  <2>1. /\ reloads' = reloads - 1 /\ reloads > 0
        /\ blocks' = IF connected THEN Blocks ELSE NoBlocks
        /\ UNCHANGED <<attach, main, connecting, connected, session, log, tail, drain, rx>>
    BY <1>2 DEF Reload, engine, observer
  <2>2. Attaching' /\ Observing' /\ Counters'
    BY <2>1 DEF MobileInv, Attaching, Observing, Counters, Blocks, NoBlocks
  <2>3. ShownIsCurrent' /\ NoChangeMissed'
    BY <2>1 DEF MobileInv, ShownIsCurrent, NoChangeMissed, Counters, Blocks, NoBlocks
  <2> QED BY <2>2, <2>3 DEF MobileInv
<1>3. CASE Disconnect
  <2>1. /\ main = "idle" /\ connected /\ connected' = FALSE
        /\ blocks' = NoBlocks /\ drain' = "none"
        /\ UNCHANGED <<attach, main, connecting, reloads, session, log, tail, rx>>
    BY <1>3 DEF Disconnect
  <2>2. Attaching' /\ Observing' /\ Counters'
    BY <2>1 DEF MobileInv, Attaching, Observing, Counters, Blocks, NoBlocks
  <2>3. ShownIsCurrent' /\ NoChangeMissed'
    BY <2>1 DEF ShownIsCurrent, NoChangeMissed, NoBlocks
  <2> QED BY <2>2, <2>3 DEF MobileInv
<1> QED BY <1>1, <1>2, <1>3

LEMMA NextMobile == MobileInv /\ [Next]_vars => MobileInv'
<1>1. MobileInv /\ UNCHANGED vars => MobileInv'
  BY Undisturbed DEF vars, engine, observer, model
<1> QED BY <1>1, AttachingSteps, EngineSteps, ObserverSteps, ModelSteps DEF Next

LEMMA MobileHolds == Spec => []MobileInv
BY InitMobile, NextMobile, PTL DEF Spec

-----------------------------------------------------------------------------
(* The app shows blocks of the session it is connected to and none when it *)
(* is not, also when a callback of a closed session arrives in a later one *)
(* (SessionModel.swift:65-67, 88-95, 103-105).                             *)
THEOREM AppShowsItsSession == Spec => []ShownIsCurrent
<1>1. MobileInv => ShownIsCurrent
  BY DEF MobileInv
<1> QED BY <1>1, MobileHolds, PTL

(* Whatever the capacity of the channel and however far the observer lags, *)
(* no edit is missed between attaching, subscribing and the first reload,  *)
(* nor later (dd-client-ffi lib.rs:268-278).                               *)
THEOREM NoEditIsMissed == Spec => []NoChangeMissed
<1>1. MobileInv => NoChangeMissed
  BY DEF MobileInv
<1> QED BY <1>1, MobileHolds, PTL
=============================================================================

---------------------------- MODULE RWSpinProofs ----------------------------
(***************************************************************************)
(* Proofs about RWSpin for every finite set of engines: the words of the   *)
(* lock say who has it, and it is a reader-writer lock.                    *)
(***************************************************************************)
EXTENDS RWSpin, FiniteSetTheorems, TLAPS

-----------------------------------------------------------------------------
(* The inductive invariant.                                                *)

(* Where only a reader goes, and where nobody has a call going.            *)
ReaderPcs == {"peek", "joinSpin", "join", "joinLock", "joinState", "joined", "undo", "undone",
              "look", "lookCount", "unset", "again", "againCount", "againState", "shared",
              "sharedCount", "sharedSet", "leave", "left", "sharedUnset", "sharedLast"}

TypeInv ==
  /\ lock \in BOOLEAN /\ fspin \in BOOLEAN
  /\ state \in {"UNLOCKED", "READ", "WRITE"}
  /\ rdcount \in Int
  /\ pc \in [Engine -> ReaderPcs \cup {"idle", "try", "set", "spin", "held", "clear", "free"}]
  /\ call \in [Engine -> {"none", "rdlock", "tryrdlock", "wrlock", "trywrlock"}]
  /\ \A e \in Engine : (pc[e] = "idle" <=> call[e] = "none") /\ (pc[e] \in ReaderPcs => Reading(e))

(* rws_fspin is held over its sections, so one engine at a time is in one. *)
InSection(e) == pc[e] \in {"join", "joinLock", "joinState", "joined", "undo", "undone", "sharedCount",
                           "sharedSet", "leave", "left", "sharedUnset", "sharedLast"}

SectionInv ==
  /\ \A e \in Engine : InSection(e) => fspin
  /\ \A e, f \in Engine : InSection(e) /\ InSection(f) => e = f

(* Who has the lock to itself: a writer, the engine that has just taken    *)
(* rws_lock, and one that will clear it.                                   *)
Alone(e) == Has(e) /\ (Writing(e) \/ pc[e] \in {"set", "sharedUnset", "sharedLast", "clear", "free"})

AloneInv == \A e, f \in Engine : Alone(e) /\ Has(f) => e = f

(* One engine at a time has seen rws_rdcount zero and looks again, and     *)
(* once it has seen it zero twice another reader can only be there with    *)
(* rws_state RWS_READ.                                                     *)
Looking(e) == pc[e] \in {"unset", "again", "againCount", "againState"}

LookInv ==
  /\ \A e, f \in Engine : Looking(e) /\ Looking(f) => e = f
  /\ \A e, f \in Engine : pc[e] = "againState" /\ Has(f) /\ e # f => state = "READ"

(* Engines in rw_unlock that keep readers out with RWS_UNLOCKED or will    *)
(* set RWS_READ.                                                           *)
Restoring(f) == pc[f] \in {"again", "againCount", "againState", "shared", "sharedCount", "sharedSet"}

(* What rws_state says.                                                    *)
StateInv ==
  /\ state = "WRITE" <=> \E e \in Engine : Writing(e) /\ pc[e] \in {"held", "clear"}
  /\ state = "READ" => \E e \in Engine : Has(e) /\ Reading(e)
  /\ \A e \in Engine : pc[e] \in {"set", "free"} => state = "UNLOCKED"
  /\ \A e \in Engine : pc[e] \in {"clear", "sharedLast"} => state # "READ"
  /\ \A e \in Engine : /\ pc[e] \in {"joined", "held", "look", "lookCount", "unset", "leave"}
                       /\ state = "UNLOCKED"
                       => \E f \in Engine : Restoring(f)

(* What an engine in rw_unlock has found in rws_rdcount, under rws_fspin.  *)
FoundInv ==
  \A e \in Engine : /\ pc[e] \in {"sharedSet", "leave"} => rdcount # 0
                    /\ pc[e] \in {"sharedUnset", "sharedLast"} => rdcount = 0

IInv == TypeInv /\ SectionInv /\ AloneInv /\ LookInv /\ StateInv /\ FoundInv /\ CountExact

-----------------------------------------------------------------------------
(* Lemmas about finite sets.                                               *)

(* Two members of a set make its cardinality at least two.                 *)
LEMMA TwoMembers ==
  ASSUME NEW S, IsFiniteSet(S), NEW x \in S, NEW y \in S, x # y
  PROVE  Cardinality(S) >= 2
<1>1. /\ IsFiniteSet(S \ {x}) /\ Cardinality(S \ {x}) = Cardinality(S) - 1
  BY FS_RemoveElement
<1>2. /\ IsFiniteSet((S \ {x}) \ {y}) /\ Cardinality((S \ {x}) \ {y}) = Cardinality(S \ {x}) - 1
  BY <1>1, FS_RemoveElement
<1>3. Cardinality(S) \in Nat /\ Cardinality((S \ {x}) \ {y}) \in Nat
  BY <1>1, <1>2, FS_CardinalityType
<1> QED
  BY <1>1, <1>2, <1>3

(* A set that gains a member.                                              *)
LEMMA Gain ==
  ASSUME NEW S, IsFiniteSet(S), NEW x, x \notin S
  PROVE  Cardinality(S \cup {x}) = Cardinality(S) + 1
BY FS_AddElement

(* A set that loses a member.                                              *)
LEMMA Lose ==
  ASSUME NEW S, IsFiniteSet(S), NEW x \in S
  PROVE  Cardinality(S \ {x}) = Cardinality(S) - 1
BY FS_RemoveElement

-----------------------------------------------------------------------------
(* The readers, and the engines that count themselves without having the   *)
(* lock.                                                                   *)
Readers == {e \in Engine : Has(e) /\ Reading(e)}
Joiners == {e \in Engine : Joining(e)}

(* CountExact in their terms.                                              *)
LEMMA CountInTerms ==
  CountExact <=> /\ lock <=> \E e \in Engine : Has(e)
                 /\ rdcount + (IF Readers # {} THEN 1 ELSE 0) = Cardinality(Readers) + Cardinality(Joiners)
<1>1. (\E e \in Engine : Has(e) /\ Reading(e)) <=> Readers # {}
  BY DEF Readers
<1> QED
  BY <1>1 DEF CountExact, Readers, Joiners

(* And after a step.                                                       *)
LEMMA CountInTermsNext ==
  CountExact' <=> /\ lock' <=> \E e \in Engine : Has(e)'
                  /\ rdcount' + (IF Readers' # {} THEN 1 ELSE 0) = Cardinality(Readers') + Cardinality(Joiners')
<1>1. (\E e \in Engine : Has(e)' /\ Reading(e)') <=> Readers' # {}
  BY DEF Readers
<1> QED
  BY <1>1 DEF CountExact, Readers, Joiners

(* They are finite.                                                        *)
LEMMA FiniteGroups ==
  /\ IsFiniteSet(Readers) /\ Cardinality(Readers) \in Nat
  /\ IsFiniteSet(Joiners) /\ Cardinality(Joiners) \in Nat
<1>1. IsFiniteSet(Readers) /\ IsFiniteSet(Joiners)
  BY RWSpinAssumption, FS_Subset DEF Readers, Joiners
<1> QED
  BY <1>1, FS_CardinalityType

(* A reader that finds rws_rdcount zero is the only one.                   *)
LEMMA ZeroAlone ==
  ASSUME TypeInv, AloneInv, CountExact, rdcount = 0,
         NEW e \in Engine, Has(e), Reading(e), NEW f \in Engine, Has(f)
  PROVE  e = f
<1> SUFFICES ASSUME e # f PROVE FALSE
  OBVIOUS
<1>1. Reading(f)
  <2>1. ~ Writing(f)
    BY DEF AloneInv, Alone
  <2>2. call[f] # "none"
    BY DEF TypeInv, Has, Releasing
  <2> QED
    BY <2>1, <2>2 DEF TypeInv, Reading, Writing
<1>2. e \in Readers /\ f \in Readers
  BY <1>1 DEF Readers
<1>3. Cardinality(Readers) >= 2
  BY <1>2, FiniteGroups, TwoMembers
<1> QED
  BY <1>2, <1>3, CountInTerms, FiniteGroups DEF TypeInv

-----------------------------------------------------------------------------
(* Type correctness.                                                       *)

(* rw_alloc establishes the invariant.                                     *)
LEMMA InitInv == Init => IInv
<1> SUFFICES ASSUME Init PROVE IInv
  OBVIOUS
<1>1. \A e \in Engine : pc[e] = "idle" /\ call[e] = "none"
  BY DEF Init
<1>2. TypeInv
  <2>1. /\ pc \in [Engine -> ReaderPcs \cup {"idle", "try", "set", "spin", "held", "clear", "free"}]
        /\ call \in [Engine -> {"none", "rdlock", "tryrdlock", "wrlock", "trywrlock"}]
    BY DEF Init
  <2>2. lock \in BOOLEAN /\ fspin \in BOOLEAN /\ state \in {"UNLOCKED", "READ", "WRITE"}
    BY Zenon DEF Init
  <2>3. rdcount \in Int
    BY DEF Init
  <2>4. \A e \in Engine : (pc[e] = "idle" <=> call[e] = "none") /\ pc[e] \notin ReaderPcs
    BY <1>1 DEF ReaderPcs
  <2> QED
    BY <2>1, <2>2, <2>3, <2>4, Zenon DEF TypeInv
<1>3. \A e \in Engine : ~ Has(e) /\ ~ Joining(e) /\ ~ InSection(e) /\ ~ Looking(e)
  BY <1>1 DEF Has, Releasing, Joining, InSection, Looking
<1>4. SectionInv /\ AloneInv /\ LookInv /\ FoundInv
  BY <1>1, <1>3 DEF SectionInv, AloneInv, Alone, LookInv, FoundInv
<1>5. StateInv
  BY <1>1 DEF Init, StateInv
<1>6. Readers = {} /\ Joiners = {}
  BY <1>3 DEF Readers, Joiners
<1>7. CountExact
  BY <1>3, <1>6, CountInTerms, FS_EmptySet DEF Init
<1> QED
  BY <1>2, <1>4, <1>5, <1>7 DEF IInv

(* Every step keeps the types.                                             *)
LEMMA StepType ==
  ASSUME TypeInv, StateInv, NEW e \in Engine, Start(e) \/ Step(e)
  PROVE  TypeInv'
<1> USE DEF TypeInv, ReaderPcs, Goto, Reading
<1>1. CASE Take(e)
  BY <1>1 DEF Take
<1>2. CASE SetState(e)
  BY <1>2 DEF SetState
<1>3. CASE TakeFspin(e)
  BY <1>3 DEF TakeFspin
<1>4. CASE Spin(e)
  BY <1>4 DEF Spin
<1>5. CASE Join(e)
  BY <1>5 DEF Join
<1>6. CASE JoinLock(e)
  BY <1>6 DEF JoinLock
<1>7. CASE JoinState(e)
  BY <1>7 DEF JoinState
<1>8. CASE Joined(e)
  BY <1>8 DEF Joined
<1>9. CASE Undo(e)
  BY <1>9 DEF Undo
<1>10. CASE LookFspin(e)
  BY <1>10 DEF LookFspin
<1>11. CASE LookCount(e)
  BY <1>11 DEF LookCount
<1>12. CASE Unset(e)
  BY <1>12 DEF Unset
<1>13. CASE AgainState(e)
  BY <1>13 DEF AgainState
<1>14. CASE SharedCount(e)
  BY <1>14 DEF SharedCount
<1>15. CASE SharedSet(e)
  BY <1>15 DEF SharedSet
<1>16. CASE Leave(e)
  BY <1>16 DEF Leave
<1>17. CASE Left(e)
  BY <1>17 DEF Left
<1>18. CASE SharedUnset(e)
  BY <1>18 DEF SharedUnset
<1>19. CASE SharedLast(e)
  BY <1>19 DEF SharedLast
<1>20. CASE Clear(e)
  BY <1>20 DEF Clear
<1>21. CASE Free(e)
  BY <1>21 DEF Free
<1>22. CASE Start(e)
  BY <1>22 DEF Start
<1>23. CASE Busy(e) \/ Peek(e) \/ Undone(e)
  <2>1. CASE Failed(e, "try") \/ Failed(e, "peek") \/ Failed(e, "undone")
    <3>1. \/ pc' = [pc EXCEPT ![e] = "spin"] /\ call' = call /\ call[e] # "none"
          \/ pc' = [pc EXCEPT ![e] = "idle"] /\ call' = [call EXCEPT ![e] = "none"]
      BY <2>1 DEF Failed
    <3>2. lock' \in BOOLEAN /\ fspin' \in BOOLEAN /\ UNCHANGED <<state, rdcount>>
      BY <1>23, <2>1 DEF Busy, Peek, Undone
    <3> QED
      BY <3>1, <3>2
  <2>2. CASE ~ (Failed(e, "try") \/ Failed(e, "peek") \/ Failed(e, "undone"))
    BY <1>23, <2>2 DEF Busy, Peek, Undone
  <2> QED
    BY <2>1, <2>2
<1>24. CASE Unlock(e)
  BY <1>24 DEF Unlock, StateInv, Writing
<1> QED
  BY <1>1, <1>2, <1>3, <1>4, <1>5, <1>6, <1>7, <1>8, <1>9, <1>10, <1>11, <1>12, <1>13, <1>14, <1>15, <1>16, <1>17, <1>18, <1>19, <1>20, <1>21, <1>22, <1>23, <1>24 DEF Step

(* An engine's step moves nobody else.                                     *)
LEMMA Others ==
  ASSUME TypeInv, NEW e \in Engine, Start(e) \/ Step(e), NEW f \in Engine, e # f
  PROVE  pc'[f] = pc[f] /\ call'[f] = call[f]
<1> USE DEF TypeInv, Goto, Failed
<1>1. CASE Start(e) \/ Take(e) \/ Busy(e)
  BY <1>1 DEF Start, Take, Busy
<1>2. CASE SetState(e) \/ Peek(e) \/ TakeFspin(e) \/ Spin(e)
  BY <1>2 DEF SetState, Peek, TakeFspin, Spin
<1>3. CASE Join(e) \/ JoinLock(e) \/ JoinState(e) \/ Joined(e)
  BY <1>3 DEF Join, JoinLock, JoinState, Joined
<1>4. CASE Undo(e) \/ Undone(e) \/ Unlock(e)
  BY <1>4 DEF Undo, Undone, Unlock
<1>5. CASE LookFspin(e) \/ LookCount(e) \/ Unset(e) \/ AgainState(e)
  BY <1>5 DEF LookFspin, LookCount, Unset, AgainState
<1>6. CASE SharedCount(e) \/ SharedSet(e) \/ Leave(e) \/ Left(e)
  BY <1>6 DEF SharedCount, SharedSet, Leave, Left
<1>7. CASE SharedUnset(e) \/ SharedLast(e) \/ Clear(e) \/ Free(e)
  BY <1>7 DEF SharedUnset, SharedLast, Clear, Free
<1> QED
  BY <1>1, <1>2, <1>3, <1>4, <1>5, <1>6, <1>7 DEF Step

-----------------------------------------------------------------------------
(* The invariant is inductive, part by part.                               *)

(* rws_fspin is free before a section and from its end.                    *)
LEMMA StepSection ==
  ASSUME TypeInv, TypeInv', SectionInv, NEW e \in Engine, Start(e) \/ Step(e)
  PROVE  SectionInv'
<1>1. /\ InSection(e)' /\ ~ InSection(e) => ~ fspin
      /\ InSection(e)' => fspin'
      /\ ~ InSection(e) => fspin' = fspin \/ fspin'
  <2>0. InSection(e) => fspin
    BY DEF SectionInv
  <2> USE DEF TypeInv, Goto, Failed, InSection
  <2>1. CASE Start(e) \/ Take(e) \/ Busy(e)
    BY <2>1, <2>0 DEF Start, Take, Busy
  <2>2. CASE SetState(e) \/ Peek(e) \/ TakeFspin(e) \/ Spin(e)
    BY <2>2, <2>0 DEF SetState, Peek, TakeFspin, Spin
  <2>3. CASE Join(e) \/ JoinLock(e) \/ JoinState(e) \/ Joined(e)
    BY <2>3, <2>0 DEF Join, JoinLock, JoinState, Joined
  <2>4. CASE Undo(e) \/ Undone(e) \/ Unlock(e)
    BY <2>4, <2>0 DEF Undo, Undone, Unlock
  <2>5. CASE LookFspin(e) \/ LookCount(e) \/ Unset(e) \/ AgainState(e)
    BY <2>5, <2>0 DEF LookFspin, LookCount, Unset, AgainState
  <2>6. CASE SharedCount(e) \/ SharedSet(e) \/ Leave(e) \/ Left(e)
    BY <2>6, <2>0 DEF SharedCount, SharedSet, Leave, Left
  <2>7. CASE SharedUnset(e) \/ SharedLast(e) \/ Clear(e) \/ Free(e)
    BY <2>7, <2>0 DEF SharedUnset, SharedLast, Clear, Free
  <2> QED
    BY <2>1, <2>2, <2>3, <2>4, <2>5, <2>6, <2>7 DEF Step
<1>2. \A f \in Engine : e # f => (InSection(f)' <=> InSection(f))
  BY Others DEF InSection
<1> QED
  BY <1>1, <1>2 DEF SectionInv

(* With rws_state RWS_READ outside the section of another engine nobody    *)
(* has the lock to itself.                                                 *)
LEMMA ReadNotAlone ==
  ASSUME TypeInv, StateInv, state = "READ", NEW f \in Engine, pc[f] # "sharedUnset"
  PROVE  ~ Alone(f)
<1>1. ~ (Writing(f) /\ pc[f] \in {"held", "clear"}) /\ pc[f] \notin {"set", "free", "clear", "sharedLast"}
  BY DEF StateInv
<1>2. pc[f] \in ReaderPcs => ~ Writing(f)
  BY DEF TypeInv, Reading, Writing
<1> QED
  BY <1>1, <1>2 DEF Alone, Has, Releasing, ReaderPcs

(* Who has the lock to itself keeps it to itself, and who gets it so, gets *)
(* it from nobody.                                                         *)
LEMMA StepAlone ==
  ASSUME IInv, TypeInv', NEW e \in Engine, Start(e) \/ Step(e)
  PROVE  AloneInv'
<1> USE DEF IInv
<1>1. ASSUME NEW f \in Engine, e # f, Has(e)', ~ Has(e)
      PROVE  ~ Alone(f) /\ (Alone(e)' => ~ Has(f))
  <2> USE DEF TypeInv, Goto, Failed, Has, Releasing
  <2>1. CASE Take(e)
    BY <1>1, <2>1 DEF Take, CountExact, Alone
  <2>2. CASE JoinState(e)
    <3>1. state = "READ" /\ pc[e] = "joinState" /\ pc'[e] = "joined" /\ call' = call
      BY <1>1, <2>2 DEF JoinState
    <3>2. ~ Alone(f)
      BY <1>1, <3>1, ReadNotAlone DEF SectionInv, InSection
    <3> QED
      BY <3>1, <3>2 DEF Alone, ReaderPcs, Reading, Writing
  <2>3. CASE Start(e) \/ Busy(e)
    BY <2>3, <1>1 DEF Start, Busy
  <2>4. CASE SetState(e) \/ Peek(e) \/ TakeFspin(e) \/ Spin(e)
    BY <2>4, <1>1 DEF SetState, Peek, TakeFspin, Spin
  <2>5. CASE Join(e) \/ JoinLock(e) \/ Joined(e)
    BY <2>5, <1>1 DEF Join, JoinLock, Joined
  <2>6. CASE Undo(e) \/ Undone(e) \/ Unlock(e)
    BY <2>6, <1>1 DEF Undo, Undone, Unlock
  <2>7. CASE LookFspin(e) \/ LookCount(e) \/ Unset(e) \/ AgainState(e)
    BY <2>7, <1>1 DEF LookFspin, LookCount, Unset, AgainState
  <2>8. CASE SharedCount(e) \/ SharedSet(e) \/ Leave(e) \/ Left(e)
    BY <2>8, <1>1 DEF SharedCount, SharedSet, Leave, Left
  <2>9. CASE SharedUnset(e) \/ SharedLast(e) \/ Clear(e) \/ Free(e)
    BY <2>9, <1>1 DEF SharedUnset, SharedLast, Clear, Free
  <2> QED
    BY <2>1, <2>2, <2>3, <2>4, <2>5, <2>6, <2>7, <2>8, <2>9 DEF Step
<1>2. ASSUME NEW f \in Engine, e # f, Alone(e)', ~ Alone(e), Has(e)
      PROVE  ~ Has(f)
  <2> USE DEF TypeInv, Goto, Failed, Alone, Has, Releasing
  <2>1. CASE SharedCount(e)
    <3>1. Reading(e) /\ rdcount = 0
      BY <1>2, <2>1 DEF SharedCount, ReaderPcs, Reading, Writing
    <3> QED
      BY <1>2, <3>1, ZeroAlone
  <2>2. CASE AgainState(e)
    <3>1. state = "UNLOCKED" /\ pc[e] = "againState"
      BY <1>2, <2>2 DEF AgainState, ReaderPcs, Reading, Writing
    <3> QED
      BY <1>2, <3>1 DEF LookInv
  <2>3. CASE Unlock(e)
    <3>1. state = "WRITE" /\ Has(e) /\ ~ Writing(e)
      BY <1>2, <2>3 DEF Unlock, Reading, Writing
    <3>2. PICK g \in Engine : Writing(g) /\ pc[g] \in {"held", "clear"}
      BY <3>1 DEF StateInv
    <3> QED
      BY <3>1, <3>2 DEF AloneInv
  <2>4. CASE Start(e) \/ Take(e) \/ Busy(e)
    BY <2>4, <1>2 DEF Start, Take, Busy, Reading, Writing, ReaderPcs
  <2>5. CASE SetState(e) \/ Peek(e) \/ TakeFspin(e) \/ Spin(e)
    BY <2>5, <1>2 DEF SetState, Peek, TakeFspin, Spin, Reading, Writing, ReaderPcs
  <2>6. CASE Join(e) \/ JoinLock(e) \/ JoinState(e) \/ Joined(e)
    BY <2>6, <1>2 DEF Join, JoinLock, JoinState, Joined, Reading, Writing, ReaderPcs
  <2>7. CASE Undo(e) \/ Undone(e)
    BY <2>7, <1>2 DEF Undo, Undone, Reading, Writing, ReaderPcs
  <2>8. CASE LookFspin(e) \/ LookCount(e) \/ Unset(e)
    BY <2>8, <1>2 DEF LookFspin, LookCount, Unset, Reading, Writing, ReaderPcs
  <2>9. CASE SharedSet(e) \/ Leave(e) \/ Left(e)
    BY <2>9, <1>2 DEF SharedSet, Leave, Left, Reading, Writing, ReaderPcs
  <2>10. CASE SharedUnset(e) \/ SharedLast(e) \/ Clear(e) \/ Free(e)
    BY <2>10, <1>2 DEF SharedUnset, SharedLast, Clear, Free, Reading, Writing, ReaderPcs
  <2> QED
    BY <2>1, <2>2, <2>3, <2>4, <2>5, <2>6, <2>7, <2>8, <2>9, <2>10 DEF Step
<1>3. \A f \in Engine : e # f => (Alone(f)' <=> Alone(f)) /\ (Has(f)' <=> Has(f))
  BY Others DEF Alone, Has, Releasing, Writing
<1> QED
  BY <1>1, <1>2, <1>3 DEF AloneInv, Alone

(* The second look at rws_rdcount is one engine's, and what it finds there *)
(* still counts when it looks at rws_state.                                *)
LEMMA StepLook ==
  ASSUME IInv, TypeInv', NEW e \in Engine, Start(e) \/ Step(e)
  PROVE  LookInv'
<1> USE DEF IInv
<1>1. ASSUME NEW f \in Engine, e # f, Looking(e)', Looking(f)
      PROVE  FALSE
  <2> USE DEF TypeInv, Goto, Failed, Looking
  <2>1. CASE LookCount(e)
    <3>1. (pc[e] = "lookCount" /\ rdcount = 0) \/ Looking(e)
      BY <1>1, <2>1 DEF LookCount
    <3>2. pc[e] = "lookCount" => Has(e) /\ Reading(e)
      BY DEF Has, Releasing, ReaderPcs
    <3>3. Has(f)
      BY <1>1 DEF Has, Releasing
    <3> QED
      BY <1>1, <3>1, <3>2, <3>3, ZeroAlone DEF LookInv
  <2>2. CASE Start(e) \/ Take(e) \/ Busy(e)
    BY <2>2, <1>1 DEF Start, Take, Busy, LookInv
  <2>3. CASE SetState(e) \/ Peek(e) \/ TakeFspin(e) \/ Spin(e)
    BY <2>3, <1>1 DEF SetState, Peek, TakeFspin, Spin, LookInv
  <2>4. CASE Join(e) \/ JoinLock(e) \/ JoinState(e) \/ Joined(e)
    BY <2>4, <1>1 DEF Join, JoinLock, JoinState, Joined, LookInv
  <2>5. CASE Undo(e) \/ Undone(e) \/ Unlock(e)
    BY <2>5, <1>1 DEF Undo, Undone, Unlock, LookInv
  <2>6. CASE LookFspin(e) \/ Unset(e) \/ AgainState(e)
    BY <2>6, <1>1 DEF LookFspin, Unset, AgainState, LookInv
  <2>7. CASE SharedCount(e) \/ SharedSet(e) \/ Leave(e) \/ Left(e)
    BY <2>7, <1>1 DEF SharedCount, SharedSet, Leave, Left, LookInv
  <2>8. CASE SharedUnset(e) \/ SharedLast(e) \/ Clear(e) \/ Free(e)
    BY <2>8, <1>1 DEF SharedUnset, SharedLast, Clear, Free, LookInv
  <2> QED
    BY <2>1, <2>2, <2>3, <2>4, <2>5, <2>6, <2>7, <2>8 DEF Step
<1>2. ASSUME NEW f \in Engine, e # f, pc'[e] = "againState", Has(f)
      PROVE  state' = "READ"
  <2> USE DEF TypeInv, Goto, Failed
  <2>1. CASE LookCount(e)
    <3>1. pc[e] = "againCount" /\ rdcount = 0
      BY <1>2, <2>1 DEF LookCount
    <3>2. Has(e) /\ Reading(e)
      BY <3>1 DEF Has, Releasing, ReaderPcs
    <3> QED
      BY <1>2, <3>1, <3>2, ZeroAlone
  <2>2. CASE Start(e) \/ Take(e) \/ Busy(e)
    BY <2>2, <1>2 DEF Start, Take, Busy
  <2>3. CASE SetState(e) \/ Peek(e) \/ TakeFspin(e) \/ Spin(e)
    BY <2>3, <1>2 DEF SetState, Peek, TakeFspin, Spin
  <2>4. CASE Join(e) \/ JoinLock(e) \/ JoinState(e) \/ Joined(e)
    BY <2>4, <1>2 DEF Join, JoinLock, JoinState, Joined
  <2>5. CASE Undo(e) \/ Undone(e) \/ Unlock(e)
    BY <2>5, <1>2 DEF Undo, Undone, Unlock
  <2>6. CASE LookFspin(e) \/ Unset(e) \/ AgainState(e)
    BY <2>6, <1>2 DEF LookFspin, Unset, AgainState
  <2>7. CASE SharedCount(e) \/ SharedSet(e) \/ Leave(e) \/ Left(e)
    BY <2>7, <1>2 DEF SharedCount, SharedSet, Leave, Left
  <2>8. CASE SharedUnset(e) \/ SharedLast(e) \/ Clear(e) \/ Free(e)
    BY <2>8, <1>2 DEF SharedUnset, SharedLast, Clear, Free
  <2> QED
    BY <2>1, <2>2, <2>3, <2>4, <2>5, <2>6, <2>7, <2>8 DEF Step
<1>3. ASSUME NEW f \in Engine, e # f, pc[f] = "againState", Has(e)'
      PROVE  state' = "READ"
  <2>1. Has(f) /\ Looking(f)
    BY <1>3 DEF Has, Releasing, Looking
  <2>2. ~ Alone(e) /\ ~ Looking(e) /\ (Has(e) => state = "READ")
    BY <1>3, <2>1 DEF AloneInv, LookInv
  <2> USE DEF TypeInv, Goto, Failed
  <2>3. CASE Start(e) \/ Take(e) \/ Busy(e)
    BY <2>3, <1>3, <2>1, <2>2 DEF Start, Take, Busy, CountExact, Alone, Has, Releasing, Looking
  <2>4. CASE SetState(e) \/ Peek(e) \/ TakeFspin(e) \/ Spin(e)
    BY <2>4, <1>3, <2>1, <2>2 DEF SetState, Peek, TakeFspin, Spin, CountExact, Alone, Has, Releasing, Looking
  <2>5. CASE Join(e) \/ JoinLock(e) \/ JoinState(e) \/ Joined(e)
    BY <2>5, <1>3, <2>1, <2>2 DEF Join, JoinLock, JoinState, Joined, CountExact, Alone, Has, Releasing, Looking
  <2>6. CASE Undo(e) \/ Undone(e) \/ Unlock(e)
    BY <2>6, <1>3, <2>1, <2>2 DEF Undo, Undone, Unlock, CountExact, Alone, Has, Releasing, Looking
  <2>7. CASE LookFspin(e) \/ LookCount(e) \/ Unset(e) \/ AgainState(e)
    BY <2>7, <1>3, <2>1, <2>2 DEF LookFspin, LookCount, Unset, AgainState, CountExact, Alone, Has, Releasing, Looking
  <2>8. CASE SharedCount(e) \/ SharedSet(e) \/ Leave(e) \/ Left(e)
    BY <2>8, <1>3, <2>1, <2>2 DEF SharedCount, SharedSet, Leave, Left, CountExact, Alone, Has, Releasing, Looking
  <2>9. CASE SharedUnset(e) \/ SharedLast(e) \/ Clear(e) \/ Free(e)
    BY <2>9, <1>3, <2>1, <2>2 DEF SharedUnset, SharedLast, Clear, Free, CountExact, Alone, Has, Releasing, Looking
  <2> QED
    BY <2>3, <2>4, <2>5, <2>6, <2>7, <2>8, <2>9 DEF Step
<1>4. \A f, g \in Engine : e # f /\ e # g /\ pc[f] = "againState" /\ Has(g) /\ f # g => state' = "READ"
  <2> SUFFICES ASSUME NEW f \in Engine, NEW g \in Engine, e # f, e # g, pc[f] = "againState", Has(g), f # g
               PROVE  state' = "READ"
    OBVIOUS
  <2>1. Has(f) /\ Looking(f) /\ state = "READ"
    BY DEF Has, Releasing, Looking, LookInv
  <2>2. ~ Alone(e) /\ ~ Looking(e)
    BY <2>1 DEF AloneInv, LookInv
  <2> USE DEF TypeInv, Goto, Failed
  <2>3. CASE Start(e) \/ Take(e) \/ Busy(e)
    BY <2>3, <2>1, <2>2 DEF Start, Take, Busy, Alone, Has, Releasing, Looking
  <2>4. CASE SetState(e) \/ Peek(e) \/ TakeFspin(e) \/ Spin(e)
    BY <2>4, <2>1, <2>2 DEF SetState, Peek, TakeFspin, Spin, Alone, Has, Releasing, Looking
  <2>5. CASE Join(e) \/ JoinLock(e) \/ JoinState(e) \/ Joined(e)
    BY <2>5, <2>1, <2>2 DEF Join, JoinLock, JoinState, Joined, Alone, Has, Releasing, Looking
  <2>6. CASE Undo(e) \/ Undone(e) \/ Unlock(e)
    BY <2>6, <2>1, <2>2 DEF Undo, Undone, Unlock, Alone, Has, Releasing, Looking
  <2>7. CASE LookFspin(e) \/ LookCount(e) \/ Unset(e) \/ AgainState(e)
    BY <2>7, <2>1, <2>2 DEF LookFspin, LookCount, Unset, AgainState, Alone, Has, Releasing, Looking
  <2>8. CASE SharedCount(e) \/ SharedSet(e) \/ Leave(e) \/ Left(e)
    BY <2>8, <2>1, <2>2 DEF SharedCount, SharedSet, Leave, Left, Alone, Has, Releasing, Looking
  <2>9. CASE SharedUnset(e) \/ SharedLast(e) \/ Clear(e) \/ Free(e)
    BY <2>9, <2>1, <2>2 DEF SharedUnset, SharedLast, Clear, Free, Alone, Has, Releasing, Looking
  <2> QED
    BY <2>3, <2>4, <2>5, <2>6, <2>7, <2>8, <2>9 DEF Step
<1>5. \A f \in Engine : e # f => /\ pc'[f] = pc[f] /\ (Has(f)' <=> Has(f)) /\ (Looking(f)' <=> Looking(f))
  BY Others DEF Has, Releasing, Looking
<1>6. \A f, g \in Engine : Looking(f)' /\ Looking(g)' => f = g
  BY <1>1, <1>5 DEF LookInv
<1>7. \A f, g \in Engine : pc'[f] = "againState" /\ Has(g)' /\ f # g => state' = "READ"
  BY <1>2, <1>3, <1>4, <1>5
<1> QED
  BY <1>6, <1>7 DEF LookInv

(* What an engine has found in rws_rdcount stays so: the others change it  *)
(* under rws_fspin.                                                        *)
LEMMA StepFound ==
  ASSUME IInv, TypeInv', NEW e \in Engine, Start(e) \/ Step(e)
  PROVE  FoundInv'
<1> USE DEF IInv
<1>1. /\ pc'[e] \in {"sharedSet", "leave"} => rdcount' # 0
      /\ pc'[e] \in {"sharedUnset", "sharedLast"} => rdcount' = 0
      /\ rdcount' # rdcount => InSection(e)
  <2> USE DEF TypeInv, Goto, Failed, FoundInv, InSection
  <2>1. CASE Start(e) \/ Take(e) \/ Busy(e)
    BY <2>1 DEF Start, Take, Busy
  <2>2. CASE SetState(e) \/ Peek(e) \/ TakeFspin(e) \/ Spin(e)
    BY <2>2 DEF SetState, Peek, TakeFspin, Spin
  <2>3. CASE Join(e) \/ JoinLock(e) \/ JoinState(e) \/ Joined(e)
    BY <2>3 DEF Join, JoinLock, JoinState, Joined
  <2>4. CASE Undo(e) \/ Undone(e) \/ Unlock(e)
    BY <2>4 DEF Undo, Undone, Unlock
  <2>5. CASE LookFspin(e) \/ LookCount(e) \/ Unset(e) \/ AgainState(e)
    BY <2>5 DEF LookFspin, LookCount, Unset, AgainState
  <2>6. CASE SharedCount(e) \/ SharedSet(e) \/ Leave(e) \/ Left(e)
    BY <2>6 DEF SharedCount, SharedSet, Leave, Left
  <2>7. CASE SharedUnset(e) \/ SharedLast(e) \/ Clear(e) \/ Free(e)
    BY <2>7 DEF SharedUnset, SharedLast, Clear, Free
  <2> QED
    BY <2>1, <2>2, <2>3, <2>4, <2>5, <2>6, <2>7 DEF Step
<1>2. ASSUME NEW f \in Engine, e # f
      PROVE  /\ pc'[f] \in {"sharedSet", "leave"} => rdcount' # 0
             /\ pc'[f] \in {"sharedUnset", "sharedLast"} => rdcount' = 0
  <2>1. pc'[f] = pc[f]
    BY <1>2, Others
  <2>2. CASE InSection(f)
    BY <1>1, <1>2, <2>1, <2>2 DEF SectionInv, FoundInv
  <2>3. CASE ~ InSection(f)
    BY <2>1, <2>3 DEF InSection
  <2> QED
    BY <2>2, <2>3
<1> QED
  BY <1>1, <1>2 DEF FoundInv

(* A reader that gives up rws_lock to the others leaves one there.         *)
LEMMA LeaveLeavesOne ==
  ASSUME IInv, NEW e \in Engine, pc[e] = "leave"
  PROVE  \E f \in Engine : f # e /\ Has(f) /\ Reading(f)
<1> USE DEF IInv
<1>1. e \in Readers /\ rdcount # 0
  BY DEF Readers, Has, Releasing, FoundInv, TypeInv, ReaderPcs
<1>2. Joiners = {}
  BY DEF Joiners, Joining, SectionInv, InSection
<1>3. Cardinality(Joiners) = 0
  BY <1>2, FS_EmptySet
<1>4. Cardinality(Readers) = rdcount + 1
  BY <1>1, <1>3, CountInTerms, FiniteGroups DEF TypeInv
<1>5. Cardinality(Readers \ {e}) = rdcount
  BY <1>1, <1>4, Lose, FiniteGroups DEF TypeInv
<1>6. Readers \ {e} # {}
  BY <1>1, <1>5, FS_EmptySet
<1> QED
  BY <1>6 DEF Readers

(* rws_state goes with the engines that have the lock.                     *)
LEMMA StepState ==
  ASSUME IInv, TypeInv', AloneInv', NEW e \in Engine, Start(e) \/ Step(e)
  PROVE  StateInv'
<1> USE DEF IInv
<1>0. \A f \in Engine : e # f => /\ pc'[f] = pc[f] /\ call'[f] = call[f]
                                 /\ (Has(f)' <=> Has(f)) /\ (Restoring(f)' <=> Restoring(f))
                                 /\ (Reading(f)' <=> Reading(f)) /\ (Writing(f)' <=> Writing(f))
  BY Others DEF Has, Releasing, Restoring, Reading, Writing
<1>9. ~ Has(e) => state' = state
  <2> USE DEF TypeInv, Goto, Failed, Has, Releasing
  <2>1. CASE Start(e) \/ Take(e) \/ Busy(e)
    BY <2>1 DEF Start, Take, Busy
  <2>2. CASE SetState(e) \/ Peek(e) \/ TakeFspin(e) \/ Spin(e)
    BY <2>2 DEF SetState, Peek, TakeFspin, Spin
  <2>3. CASE Join(e) \/ JoinLock(e) \/ JoinState(e) \/ Joined(e)
    BY <2>3 DEF Join, JoinLock, JoinState, Joined
  <2>4. CASE Undo(e) \/ Undone(e) \/ Unlock(e)
    BY <2>4 DEF Undo, Undone, Unlock
  <2>5. CASE LookFspin(e) \/ LookCount(e) \/ Unset(e) \/ AgainState(e)
    BY <2>5 DEF LookFspin, LookCount, Unset, AgainState
  <2>6. CASE SharedCount(e) \/ SharedSet(e) \/ Leave(e) \/ Left(e)
    BY <2>6 DEF SharedCount, SharedSet, Leave, Left
  <2>7. CASE SharedUnset(e) \/ SharedLast(e) \/ Clear(e) \/ Free(e)
    BY <2>7 DEF SharedUnset, SharedLast, Clear, Free
  <2> QED
    BY <2>1, <2>2, <2>3, <2>4, <2>5, <2>6, <2>7 DEF Step
<1>1. ASSUME NEW f \in Engine, Writing(f)', pc'[f] \in {"held", "clear"}
      PROVE  state' = "WRITE"
  <2>1. CASE e = f
    <3> USE DEF TypeInv, Goto, Failed, ReaderPcs, Reading, Writing, StateInv
    <3>1. CASE Start(e) \/ Take(e) \/ Busy(e)
      BY <3>1, <1>1, <2>1 DEF Start, Take, Busy
    <3>2. CASE SetState(e) \/ Peek(e) \/ TakeFspin(e) \/ Spin(e)
      BY <3>2, <1>1, <2>1 DEF SetState, Peek, TakeFspin, Spin
    <3>3. CASE Join(e) \/ JoinLock(e) \/ JoinState(e) \/ Joined(e)
      BY <3>3, <1>1, <2>1 DEF Join, JoinLock, JoinState, Joined
    <3>4. CASE Undo(e) \/ Undone(e) \/ Unlock(e)
      BY <3>4, <1>1, <2>1 DEF Undo, Undone, Unlock
    <3>5. CASE LookFspin(e) \/ LookCount(e) \/ Unset(e) \/ AgainState(e)
      BY <3>5, <1>1, <2>1 DEF LookFspin, LookCount, Unset, AgainState
    <3>6. CASE SharedCount(e) \/ SharedSet(e) \/ Leave(e) \/ Left(e)
      BY <3>6, <1>1, <2>1 DEF SharedCount, SharedSet, Leave, Left
    <3>7. CASE SharedUnset(e) \/ SharedLast(e) \/ Clear(e) \/ Free(e)
      BY <3>7, <1>1, <2>1 DEF SharedUnset, SharedLast, Clear, Free
    <3> QED
      BY <3>1, <3>2, <3>3, <3>4, <3>5, <3>6, <3>7 DEF Step
  <2>2. CASE e # f
    BY <1>0, <1>9, <1>1, <2>2 DEF StateInv, AloneInv, Alone, Has, Releasing
  <2> QED
    BY <2>1, <2>2
<1>2. ASSUME state' = "WRITE"
      PROVE  \E f \in Engine : Writing(f)' /\ pc'[f] \in {"held", "clear"}
  <2>1. CASE SetState(e)
    BY <1>2, <2>1 DEF SetState, TypeInv, Goto, Reading, Writing
  <2>2. CASE ~ SetState(e)
    <3>0. ~ Clear(e)
      BY <1>2 DEF Clear
    <3>1. state = "WRITE"
      <4> USE DEF TypeInv, Goto, Failed
      <4>1. CASE Start(e) \/ Take(e) \/ Busy(e)
        BY <4>1, <1>2, <2>2 DEF Start, Take, Busy
      <4>2. CASE Peek(e) \/ TakeFspin(e) \/ Spin(e)
        BY <4>2, <1>2, <2>2 DEF Peek, TakeFspin, Spin
      <4>3. CASE Join(e) \/ JoinLock(e) \/ JoinState(e) \/ Joined(e)
        BY <4>3, <1>2, <2>2 DEF Join, JoinLock, JoinState, Joined
      <4>4. CASE Undo(e) \/ Undone(e) \/ Unlock(e)
        BY <4>4, <1>2, <2>2 DEF Undo, Undone, Unlock
      <4>5. CASE LookFspin(e) \/ LookCount(e) \/ Unset(e) \/ AgainState(e)
        BY <4>5, <1>2, <2>2 DEF LookFspin, LookCount, Unset, AgainState
      <4>6. CASE SharedCount(e) \/ SharedSet(e) \/ Leave(e) \/ Left(e)
        BY <4>6, <1>2, <2>2 DEF SharedCount, SharedSet, Leave, Left
      <4>7. CASE SharedUnset(e) \/ SharedLast(e) \/ Free(e)
        BY <4>7, <1>2, <2>2 DEF SharedUnset, SharedLast, Free
      <4> QED
        BY <2>2, <3>0, <4>1, <4>2, <4>3, <4>4, <4>5, <4>6, <4>7 DEF Step
    <3>2. PICK f \in Engine : Writing(f) /\ pc[f] \in {"held", "clear"}
      BY <3>1 DEF StateInv
    <3>3. CASE e = f
      <4>1. Unlock(e)
        <5> USE DEF TypeInv, Goto, Failed
        <5>1. CASE Start(e) \/ Take(e) \/ Busy(e)
          BY <5>1, <1>2, <2>2, <3>1, <3>2, <3>3 DEF Start, Take, Busy
        <5>2. CASE Peek(e) \/ TakeFspin(e) \/ Spin(e)
          BY <5>2, <1>2, <2>2, <3>1, <3>2, <3>3 DEF Peek, TakeFspin, Spin
        <5>3. CASE Join(e) \/ JoinLock(e) \/ JoinState(e) \/ Joined(e)
          BY <5>3, <1>2, <2>2, <3>1, <3>2, <3>3 DEF Join, JoinLock, JoinState, Joined
        <5>4. CASE Undo(e) \/ Undone(e)
          BY <5>4, <1>2, <2>2, <3>1, <3>2, <3>3 DEF Undo, Undone
        <5>5. CASE LookFspin(e) \/ LookCount(e) \/ Unset(e) \/ AgainState(e)
          BY <5>5, <1>2, <2>2, <3>1, <3>2, <3>3 DEF LookFspin, LookCount, Unset, AgainState
        <5>6. CASE SharedCount(e) \/ SharedSet(e) \/ Leave(e) \/ Left(e)
          BY <5>6, <1>2, <2>2, <3>1, <3>2, <3>3 DEF SharedCount, SharedSet, Leave, Left
        <5>7. CASE SharedUnset(e) \/ SharedLast(e) \/ Free(e)
          BY <5>7, <1>2, <2>2, <3>1, <3>2, <3>3 DEF SharedUnset, SharedLast, Free
        <5> QED
          BY <2>2, <3>0, <5>1, <5>2, <5>3, <5>4, <5>5, <5>6, <5>7 DEF Step
      <4> QED
        BY <3>1, <3>2, <3>3, <4>1 DEF Unlock, Goto, TypeInv, Writing
    <3>4. CASE e # f
      BY <1>0, <3>2, <3>4
    <3> QED
      BY <3>3, <3>4
  <2> QED
    BY <2>1, <2>2
<1>3. ASSUME state' = "READ"
      PROVE  \E f \in Engine : Has(f)' /\ Reading(f)'
  <2>1. CASE SetState(e) \/ SharedSet(e)
    BY <1>3, <2>1 DEF SetState, SharedSet, TypeInv, ReaderPcs, Goto, Has, Releasing, Reading
  <2>2. CASE Leave(e)
    BY <1>0, <2>2, LeaveLeavesOne DEF Leave, Goto
  <2>3. CASE ~ (SetState(e) \/ SharedSet(e) \/ Leave(e))
    <3>1. state = "READ" /\ (Has(e) /\ Reading(e) /\ pc[e] # "free" => Has(e)' /\ Reading(e)')
      <4> USE DEF TypeInv, Goto, Failed, Has, Releasing, Reading
      <4>1. CASE Start(e) \/ Take(e) \/ Busy(e)
        BY <4>1, <1>3, <2>3 DEF Start, Take, Busy
      <4>2. CASE Peek(e) \/ TakeFspin(e) \/ Spin(e)
        BY <4>2, <1>3, <2>3 DEF Peek, TakeFspin, Spin
      <4>3. CASE Join(e) \/ JoinLock(e) \/ JoinState(e) \/ Joined(e)
        BY <4>3, <1>3, <2>3 DEF Join, JoinLock, JoinState, Joined
      <4>4. CASE Undo(e) \/ Undone(e) \/ Unlock(e)
        BY <4>4, <1>3, <2>3 DEF Undo, Undone, Unlock
      <4>5. CASE LookFspin(e) \/ LookCount(e) \/ Unset(e) \/ AgainState(e)
        BY <4>5, <1>3, <2>3 DEF LookFspin, LookCount, Unset, AgainState
      <4>6. CASE SharedCount(e) \/ Left(e)
        BY <4>6, <1>3, <2>3 DEF SharedCount, Left
      <4>7. CASE SharedUnset(e) \/ SharedLast(e) \/ Clear(e) \/ Free(e)
        BY <4>7, <1>3, <2>3 DEF SharedUnset, SharedLast, Clear, Free
      <4> QED
        BY <2>3, <4>1, <4>2, <4>3, <4>4, <4>5, <4>6, <4>7 DEF Step
    <3>2. PICK f \in Engine : Has(f) /\ Reading(f)
      BY <3>1 DEF StateInv
    <3>3. pc[f] # "free"
      BY <3>1 DEF StateInv
    <3> QED
      BY <1>0, <3>1, <3>2, <3>3
  <2> QED
    BY <2>1, <2>2, <2>3
<1>4. ASSUME NEW f \in Engine, pc'[f] \in {"set", "free"}
      PROVE  state' = "UNLOCKED"
  <2>1. CASE e = f
    <3>1. Take(e) \/ Clear(e)
      <4> USE DEF TypeInv, Goto, Failed
      <4>1. CASE Start(e) \/ Busy(e)
        BY <4>1, <1>4, <2>1 DEF Start, Busy
      <4>2. CASE SetState(e) \/ Peek(e) \/ TakeFspin(e) \/ Spin(e)
        BY <4>2, <1>4, <2>1 DEF SetState, Peek, TakeFspin, Spin
      <4>3. CASE Join(e) \/ JoinLock(e) \/ JoinState(e) \/ Joined(e)
        BY <4>3, <1>4, <2>1 DEF Join, JoinLock, JoinState, Joined
      <4>4. CASE Undo(e) \/ Undone(e) \/ Unlock(e)
        BY <4>4, <1>4, <2>1 DEF Undo, Undone, Unlock
      <4>5. CASE LookFspin(e) \/ LookCount(e) \/ Unset(e) \/ AgainState(e)
        BY <4>5, <1>4, <2>1 DEF LookFspin, LookCount, Unset, AgainState
      <4>6. CASE SharedCount(e) \/ SharedSet(e) \/ Leave(e) \/ Left(e)
        BY <4>6, <1>4, <2>1 DEF SharedCount, SharedSet, Leave, Left
      <4>7. CASE SharedUnset(e) \/ SharedLast(e) \/ Free(e)
        BY <4>7, <1>4, <2>1 DEF SharedUnset, SharedLast, Free
      <4> QED
        BY <4>1, <4>2, <4>3, <4>4, <4>5, <4>6, <4>7 DEF Step
    <3>2. CASE Take(e)
      BY <3>2 DEF Take, CountExact, StateInv, TypeInv, Has, Releasing
    <3>3. CASE Clear(e)
      BY <3>3 DEF Clear
    <3> QED
      BY <3>1, <3>2, <3>3
  <2>2. CASE e # f
    BY <1>0, <1>9, <1>4, <2>2 DEF StateInv, AloneInv, Alone, Has, Releasing
  <2> QED
    BY <2>1, <2>2
<1>5. ASSUME NEW f \in Engine, pc'[f] \in {"clear", "sharedLast"}
      PROVE  state' # "READ"
  <2>1. CASE e = f
    <3> USE DEF TypeInv, Goto, Failed, StateInv
    <3>1. CASE Start(e) \/ Take(e) \/ Busy(e)
      BY <3>1, <1>5, <2>1 DEF Start, Take, Busy
    <3>2. CASE SetState(e) \/ Peek(e) \/ TakeFspin(e) \/ Spin(e)
      BY <3>2, <1>5, <2>1 DEF SetState, Peek, TakeFspin, Spin
    <3>3. CASE Join(e) \/ JoinLock(e) \/ JoinState(e) \/ Joined(e)
      BY <3>3, <1>5, <2>1 DEF Join, JoinLock, JoinState, Joined
    <3>4. CASE Undo(e) \/ Undone(e) \/ Unlock(e)
      BY <3>4, <1>5, <2>1 DEF Undo, Undone, Unlock
    <3>5. CASE LookFspin(e) \/ LookCount(e) \/ Unset(e) \/ AgainState(e)
      BY <3>5, <1>5, <2>1 DEF LookFspin, LookCount, Unset, AgainState
    <3>6. CASE SharedCount(e) \/ SharedSet(e) \/ Leave(e) \/ Left(e)
      BY <3>6, <1>5, <2>1 DEF SharedCount, SharedSet, Leave, Left
    <3>7. CASE SharedUnset(e) \/ SharedLast(e) \/ Clear(e) \/ Free(e)
      BY <3>7, <1>5, <2>1 DEF SharedUnset, SharedLast, Clear, Free
    <3> QED
      BY <3>1, <3>2, <3>3, <3>4, <3>5, <3>6, <3>7 DEF Step
  <2>2. CASE e # f
    BY <1>0, <1>9, <1>5, <2>2 DEF StateInv, AloneInv, Alone, Has, Releasing
  <2> QED
    BY <2>1, <2>2
<1>6. ASSUME NEW f \in Engine, state' = "UNLOCKED",
             pc'[f] \in {"joined", "held", "look", "lookCount", "unset", "leave"}
      PROVE  \E g \in Engine : Restoring(g)'
  <2>1. Has(f)' /\ ~ (e # f /\ ~ Has(f))
    BY <1>0, <1>6 DEF Has, Releasing
  <2>2. CASE Unset(e)
    BY <2>2 DEF Unset, Goto, TypeInv, Restoring
  <2>3. CASE SharedUnset(e) \/ Clear(e)
    <3>1. Alone(e)' /\ pc'[e] \in {"sharedLast", "free"}
      BY <2>3 DEF SharedUnset, Clear, Goto, TypeInv, Alone, Has, Releasing
    <3> QED
      BY <1>6, <2>1, <3>1 DEF AloneInv
  <2>4. CASE ~ (Unset(e) \/ SharedUnset(e) \/ Clear(e))
    <3>1. state = "UNLOCKED" /\ (e = f => pc[f] \in {"joined", "held", "look", "lookCount", "unset", "leave"})
      <4> USE DEF TypeInv, Goto, Failed, Reading
      <4>1. CASE Start(e) \/ Take(e) \/ Busy(e)
        BY <4>1, <1>6, <2>4 DEF Start, Take, Busy
      <4>2. CASE SetState(e) \/ Peek(e) \/ TakeFspin(e) \/ Spin(e)
        BY <4>2, <1>6, <2>4 DEF SetState, Peek, TakeFspin, Spin
      <4>3. CASE Join(e) \/ JoinLock(e) \/ JoinState(e) \/ Joined(e)
        BY <4>3, <1>6, <2>4 DEF Join, JoinLock, JoinState, Joined
      <4>4. CASE Undo(e) \/ Undone(e) \/ Unlock(e)
        BY <4>4, <1>6, <2>4 DEF Undo, Undone, Unlock
      <4>5. CASE LookFspin(e) \/ LookCount(e) \/ AgainState(e)
        BY <4>5, <1>6, <2>4 DEF LookFspin, LookCount, AgainState
      <4>6. CASE SharedCount(e) \/ SharedSet(e) \/ Leave(e) \/ Left(e)
        BY <4>6, <1>6, <2>4 DEF SharedCount, SharedSet, Leave, Left
      <4>7. CASE SharedLast(e) \/ Free(e)
        BY <4>7, <1>6, <2>4 DEF SharedLast, Free
      <4> QED
        BY <2>4, <4>1, <4>2, <4>3, <4>4, <4>5, <4>6, <4>7 DEF Step
    <3>2. PICK g \in Engine : Restoring(g)
      BY <1>0, <1>6, <3>1 DEF StateInv
    <3>3. CASE e # g
      BY <1>0, <3>2, <3>3
    <3>4. CASE e = g /\ ~ Restoring(e)'
      <4>1. Alone(e)'
        <5> USE DEF TypeInv, Goto, Failed, Restoring
        <5>1. CASE Start(e) \/ Take(e) \/ Busy(e)
          BY <5>1, <1>6, <3>1, <3>2, <3>4 DEF Start, Take, Busy, Alone, Has, Releasing
        <5>2. CASE SetState(e) \/ Peek(e) \/ TakeFspin(e) \/ Spin(e)
          BY <5>2, <1>6, <3>1, <3>2, <3>4 DEF SetState, Peek, TakeFspin, Spin, Alone, Has, Releasing
        <5>3. CASE Join(e) \/ JoinLock(e) \/ JoinState(e) \/ Joined(e)
          BY <5>3, <1>6, <3>1, <3>2, <3>4 DEF Join, JoinLock, JoinState, Joined, Alone, Has, Releasing
        <5>4. CASE Undo(e) \/ Undone(e) \/ Unlock(e)
          BY <5>4, <1>6, <3>1, <3>2, <3>4 DEF Undo, Undone, Unlock, Alone, Has, Releasing
        <5>5. CASE LookFspin(e) \/ LookCount(e) \/ Unset(e) \/ AgainState(e)
          BY <5>5, <1>6, <3>1, <3>2, <3>4 DEF LookFspin, LookCount, Unset, AgainState, Alone, Has, Releasing
        <5>6. CASE SharedCount(e) \/ SharedSet(e) \/ Leave(e) \/ Left(e)
          BY <5>6, <1>6, <3>1, <3>2, <3>4 DEF SharedCount, SharedSet, Leave, Left, Alone, Has, Releasing
        <5>7. CASE SharedUnset(e) \/ SharedLast(e) \/ Clear(e) \/ Free(e)
          BY <5>7, <1>6, <3>1, <3>2, <3>4 DEF SharedUnset, SharedLast, Clear, Free, Alone, Has, Releasing
        <5> QED
          BY <5>1, <5>2, <5>3, <5>4, <5>5, <5>6, <5>7 DEF Step
      <4>2. e = f
        BY <2>1, <4>1 DEF AloneInv
      <4> QED
        BY <3>1, <3>2, <3>4, <4>2 DEF Restoring
    <3> QED
      BY <3>2, <3>3, <3>4
  <2> QED
    BY <2>2, <2>3, <2>4
<1> QED
  BY <1>1, <1>2, <1>3, <1>4, <1>5, <1>6 DEF StateInv

(* rws_rdcount goes with the readers, and rws_lock with who has the lock.  *)
LEMMA StepCount ==
  ASSUME IInv, TypeInv', AloneInv', StateInv', NEW e \in Engine, Start(e) \/ Step(e)
  PROVE  CountExact'
<1> USE DEF IInv
<1>0. \A f \in Engine : e # f => /\ (Has(f)' <=> Has(f)) /\ (Reading(f)' <=> Reading(f))
                                 /\ (Joining(f)' <=> Joining(f))
  BY Others DEF Has, Releasing, Reading, Joining
<1>1. /\ Readers' \subseteq Engine /\ Readers \subseteq Engine /\ Joiners' \subseteq Engine /\ Joiners \subseteq Engine
      /\ e \in Readers' <=> (Has(e)' /\ Reading(e)')
      /\ e \in Readers <=> (Has(e) /\ Reading(e))
      /\ e \in Joiners' <=> Joining(e)'
      /\ e \in Joiners <=> Joining(e)
      /\ \A f \in Engine : e # f => (f \in Readers' <=> f \in Readers) /\ (f \in Joiners' <=> f \in Joiners)
  BY <1>0 DEF Readers, Joiners
<1>2. CASE Take(e)
  <2>1. /\ \A f \in Engine : ~ Has(f)
        /\ lock' /\ rdcount' = rdcount /\ Has(e)' /\ ~ Joining(e)' /\ ~ Joining(e)
    BY <1>2 DEF Take, Goto, CountExact, TypeInv, Has, Joining
  <2>2. Readers = {} /\ Joiners' = Joiners
    BY <1>1, <2>1 DEF Readers
  <2>3. Readers' = {} \/ Readers' = {} \cup {e}
    BY <1>1, <2>2
  <2>4. Cardinality({}) = 0 /\ Cardinality({} \cup {e}) = 1
    BY FS_EmptySet, Gain
  <2>5. rdcount' = Cardinality(Joiners')
    BY <2>1, <2>2, <2>4, CountInTerms, FiniteGroups DEF TypeInv
  <2>6. rdcount' + (IF Readers' # {} THEN 1 ELSE 0) = Cardinality(Readers') + Cardinality(Joiners')
    BY <2>2, <2>3, <2>4, <2>5, FiniteGroups DEF TypeInv
  <2> QED
    BY <2>1, <2>6, CountInTermsNext
<1>3. CASE Join(e)
  <2>1. /\ ~ Has(e) /\ ~ Has(e)' /\ ~ Joining(e) /\ Joining(e)'
        /\ rdcount' = rdcount + 1 /\ lock' = lock
    BY <1>3 DEF Join, Goto, TypeInv, Has, Releasing, Joining
  <2>2. Readers' = Readers /\ Joiners' = Joiners \cup {e} /\ e \notin Joiners
    BY <1>1, <2>1
  <2>3. Cardinality(Joiners') = Cardinality(Joiners) + 1
    BY <2>2, Gain, FiniteGroups
  <2> QED
    BY <1>0, <2>1, <2>2, <2>3, CountInTerms, CountInTermsNext, FiniteGroups DEF TypeInv
<1>4. CASE Undo(e)
  <2>1. /\ ~ Has(e) /\ ~ Has(e)' /\ Joining(e) /\ ~ Joining(e)'
        /\ rdcount' = rdcount - 1 /\ lock' = lock
    BY <1>4 DEF Undo, Goto, TypeInv, Has, Releasing, Joining
  <2>2. Readers' = Readers /\ Joiners' = Joiners \ {e} /\ e \in Joiners
    BY <1>1, <2>1
  <2>3. Cardinality(Joiners') = Cardinality(Joiners) - 1
    BY <2>2, Lose, FiniteGroups
  <2> QED
    BY <1>0, <2>1, <2>2, <2>3, CountInTerms, CountInTermsNext, FiniteGroups DEF TypeInv
<1>5. CASE JoinState(e)
  <2>1. /\ rdcount' = rdcount /\ lock' = lock /\ Joining(e) /\ ~ Has(e) /\ Reading(e)'
        /\ \/ state = "READ" /\ Has(e)' /\ ~ Joining(e)'
           \/ ~ Has(e)' /\ Joining(e)'
    BY <1>5 DEF JoinState, Goto, TypeInv, ReaderPcs, Reading, Has, Releasing, Joining
  <2>2. CASE Joining(e)'
    <3>1. ~ Has(e)' /\ Readers' = Readers /\ Joiners' = Joiners
      BY <1>1, <2>1, <2>2
    <3> QED
      BY <1>0, <2>1, <3>1, CountInTerms, CountInTermsNext
  <2>3. CASE ~ Joining(e)'
    <3>1. /\ Readers' = Readers \cup {e} /\ e \notin Readers
          /\ Joiners' = Joiners \ {e} /\ e \in Joiners
      BY <1>1, <2>1, <2>3
    <3>2. PICK f \in Engine : Has(f) /\ Reading(f)
      BY <2>1, <2>3 DEF StateInv
    <3>3. lock /\ f \in Readers
      BY <3>2, CountInTerms DEF Readers
    <3>4. /\ Cardinality(Readers') = Cardinality(Readers) + 1
          /\ Cardinality(Joiners') = Cardinality(Joiners) - 1
      BY <3>1, Gain, Lose, FiniteGroups
    <3>5. rdcount' + (IF Readers' # {} THEN 1 ELSE 0) = Cardinality(Readers') + Cardinality(Joiners')
      BY <2>1, <3>1, <3>3, <3>4, CountInTerms, FiniteGroups DEF TypeInv
    <3> QED
      BY <2>1, <2>3, <3>3, <3>5, CountInTermsNext
  <2> QED
    BY <2>2, <2>3
<1>6. CASE Leave(e)
  <2>1. /\ Has(e) /\ Reading(e) /\ ~ Has(e)' /\ ~ Joining(e) /\ ~ Joining(e)'
        /\ rdcount' = rdcount - 1 /\ lock' = lock
    BY <1>6 DEF Leave, Goto, TypeInv, ReaderPcs, Has, Releasing, Joining
  <2>2. PICK f \in Engine : f # e /\ Has(f) /\ Reading(f)
    BY <1>6, LeaveLeavesOne DEF Leave, Goto
  <2>3. Has(f)' /\ f \in Readers' /\ f \in Readers /\ lock
    BY <1>0, <2>2 DEF Readers, CountExact
  <2>4. Readers' = Readers \ {e} /\ e \in Readers /\ Joiners' = Joiners
    BY <1>1, <2>1
  <2>5. Cardinality(Readers') = Cardinality(Readers) - 1
    BY <2>4, Lose, FiniteGroups
  <2>6. rdcount' + (IF Readers' # {} THEN 1 ELSE 0) = Cardinality(Readers') + Cardinality(Joiners')
    BY <2>1, <2>3, <2>4, <2>5, CountInTerms, FiniteGroups DEF TypeInv
  <2> QED
    BY <2>1, <2>3, <2>6, CountInTermsNext
<1>7. CASE Free(e)
  <2>1. /\ Has(e) /\ ~ Has(e)' /\ ~ Joining(e) /\ ~ Joining(e)' /\ Alone(e)
        /\ rdcount' = rdcount /\ lock' = FALSE
    BY <1>7 DEF Free, Goto, TypeInv, Has, Releasing, Joining, Alone
  <2>2. \A f \in Engine : ~ Has(f)' /\ (e # f => ~ Has(f))
    BY <1>0, <2>1 DEF AloneInv
  <2>3. /\ Readers' = {} /\ Joiners' = Joiners
        /\ Readers = {} \/ Readers = {} \cup {e}
    BY <1>1, <2>1, <2>2 DEF Readers
  <2>4. Cardinality({}) = 0 /\ Cardinality({} \cup {e}) = 1
    BY FS_EmptySet, Gain
  <2>5. rdcount = Cardinality(Joiners)
    BY <2>3, <2>4, CountInTerms, FiniteGroups DEF TypeInv
  <2>6. rdcount' + (IF Readers' # {} THEN 1 ELSE 0) = Cardinality(Readers') + Cardinality(Joiners')
    BY <2>1, <2>3, <2>4, <2>5, FiniteGroups DEF TypeInv
  <2> QED
    BY <2>1, <2>2, <2>6, CountInTermsNext
<1>8. CASE ~ (Take(e) \/ Join(e) \/ Undo(e) \/ JoinState(e) \/ Leave(e) \/ Free(e))
  <2>1. /\ rdcount' = rdcount /\ lock' = lock /\ (Has(e)' <=> Has(e)) /\ (Joining(e)' <=> Joining(e))
        /\ Has(e) => (Reading(e)' <=> Reading(e))
    <3> USE DEF TypeInv, Goto, Failed, Has, Releasing, Joining, Reading
    <3>1. CASE Start(e) \/ Busy(e)
      BY <3>1 DEF Start, Busy
    <3>2. CASE SetState(e) \/ Peek(e) \/ TakeFspin(e) \/ Spin(e)
      BY <3>2 DEF SetState, Peek, TakeFspin, Spin
    <3>3. CASE JoinLock(e) \/ Joined(e)
      BY <3>3 DEF JoinLock, Joined
    <3>4. CASE Undone(e) \/ Unlock(e)
      BY <3>4 DEF Undone, Unlock
    <3>5. CASE LookFspin(e) \/ LookCount(e) \/ Unset(e) \/ AgainState(e)
      BY <3>5 DEF LookFspin, LookCount, Unset, AgainState
    <3>6. CASE SharedCount(e) \/ SharedSet(e) \/ Left(e)
      BY <3>6 DEF SharedCount, SharedSet, Left
    <3>7. CASE SharedUnset(e) \/ SharedLast(e) \/ Clear(e)
      BY <3>7 DEF SharedUnset, SharedLast, Clear
    <3> QED
      BY <1>8, <3>1, <3>2, <3>3, <3>4, <3>5, <3>6, <3>7 DEF Step
  <2>2. Readers' = Readers /\ Joiners' = Joiners
    BY <1>1, <2>1
  <2> QED
    BY <1>0, <2>1, <2>2, CountInTerms, CountInTermsNext
<1> QED
  BY <1>2, <1>3, <1>4, <1>5, <1>6, <1>7, <1>8

-----------------------------------------------------------------------------
(* Nothing changes when nobody moves.                                      *)
LEMMA StutterInv ==
  ASSUME IInv, UNCHANGED vars
  PROVE  IInv'
<1> USE DEF vars, IInv
<1>1. TypeInv'
  BY DEF TypeInv, Reading
<1>2. \A e \in Engine : /\ Has(e)' <=> Has(e)
                        /\ Reading(e)' <=> Reading(e)
                        /\ Writing(e)' <=> Writing(e)
                        /\ Joining(e)' <=> Joining(e)
                        /\ InSection(e)' <=> InSection(e)
                        /\ Alone(e)' <=> Alone(e)
                        /\ Looking(e)' <=> Looking(e)
                        /\ Restoring(e)' <=> Restoring(e)
  BY DEF Has, Releasing, Reading, Writing, Joining, InSection, Alone, Looking, Restoring
<1>3. SectionInv' /\ AloneInv' /\ LookInv' /\ FoundInv'
  BY <1>2 DEF SectionInv, AloneInv, LookInv, FoundInv
<1>4. StateInv'
  BY <1>2 DEF StateInv
<1>5. Readers' = Readers /\ Joiners' = Joiners
  BY <1>2 DEF Readers, Joiners
<1>6. CountExact'
  BY <1>2, <1>5, CountInTerms, CountInTermsNext
<1> QED
  BY <1>1, <1>3, <1>4, <1>6

(* The invariant is inductive.                                             *)
LEMMA StepInv ==
  ASSUME IInv, [Next]_vars
  PROVE  IInv'
<1>1. CASE UNCHANGED vars
  BY <1>1, StutterInv
<1>2. ASSUME NEW e \in Engine, Start(e) \/ Step(e)
      PROVE  IInv'
  <2>1. TypeInv'
    BY <1>2, StepType DEF IInv
  <2>2. SectionInv'
    BY <1>2, <2>1, StepSection DEF IInv
  <2>3. AloneInv'
    BY <1>2, <2>1, StepAlone
  <2>4. LookInv' /\ FoundInv'
    BY <1>2, <2>1, StepLook, StepFound
  <2>5. StateInv'
    BY <1>2, <2>1, <2>3, StepState
  <2>6. CountExact'
    BY <1>2, <2>1, <2>3, <2>5, StepCount
  <2> QED
    BY <2>1, <2>2, <2>3, <2>4, <2>5, <2>6 DEF IInv
<1> QED
  BY <1>1, <1>2 DEF Next

(* The words of the lock and the places of the engines always agree.       *)
THEOREM Invariance == Spec => []IInv
BY InitInv, StepInv, PTL DEF Spec

(* rws_rdcount is exact and rws_lock free only when nobody has the lock;   *)
(* the engine that releases it finds in rws_state how it has it.           *)
THEOREM WordsAreExact == Spec => []WordsExact
<1>1. ASSUME IInv
      PROVE  WordsExact
  <2> USE <1>1 DEF IInv
  <2>1. ASSUME NEW e \in Engine, pc[e] = "held"
        PROVE  Writing(e) <=> state = "WRITE"
    <3>1. ASSUME state = "WRITE", ~ Writing(e) PROVE FALSE
      <4>1. PICK f \in Engine : Writing(f) /\ pc[f] \in {"held", "clear"}
        BY <3>1 DEF StateInv
      <4>2. Alone(f) /\ Has(e)
        BY <2>1, <4>1 DEF Alone, Has, Releasing
      <4> QED
        BY <3>1, <4>1, <4>2 DEF AloneInv
    <3>2. Writing(e) => state = "WRITE"
      BY <2>1 DEF StateInv
    <3> QED
      BY <3>1, <3>2
  <2>2. ASSUME NEW e \in Engine, pc[e] = "held", state = "UNLOCKED"
        PROVE  \E f \in Engine : Restoring(f)
    BY <2>2 DEF StateInv
  <2> QED
    BY <2>1, <2>2 DEF WordsExact, StateTells, Restoring
<1> QED
  BY <1>1, Invariance, PTL

-----------------------------------------------------------------------------
(* Refinement of RWLockSpec.                                               *)

Writers == {e \in Engine : Has(e) /\ Writing(e)}

(* The actions of RWLockSpec in terms of the readers and the writers.      *)
LEMMA AbstractSteps ==
  /\ RWLock!Init <=> Readers = {} /\ Writers = {}
  /\ \A e \in Engine : Writers = {} /\ Readers' = Readers \cup {e} /\ Writers' = Writers => RWLock!Next
  /\ \A e \in Engine : Writers = {} /\ Readers = {} /\ Writers' = {e} /\ Readers' = Readers => RWLock!Next
  /\ \A e \in Engine : e \in Readers \cup Writers /\ Readers' = Readers \ {e} /\ Writers' = Writers \ {e}
                       => RWLock!Next
BY DEF Readers, Writers, RWLock!Init, RWLock!Next, RWLock!Read, RWLock!Write, RWLock!Unlock

(* Taking rws_lock, and joining a reader, get the lock; leaving it to the  *)
(* other readers, and clearing rws_lock, give it up; no other step does    *)
(* either.                                                                 *)
LEMMA StepRefines ==
  ASSUME IInv, IInv', NEW e \in Engine, Start(e) \/ Step(e)
  PROVE  RWLock!Next \/ (Readers' = Readers /\ Writers' = Writers)
<1> USE DEF IInv
<1>0. \A f \in Engine : e # f => /\ Has(f)' <=> Has(f)
                                 /\ Reading(f)' <=> Reading(f)
                                 /\ Writing(f)' <=> Writing(f)
  BY Others DEF Has, Releasing, Reading, Writing
<1>1. /\ Readers' \subseteq Engine /\ Readers \subseteq Engine /\ Writers' \subseteq Engine /\ Writers \subseteq Engine
      /\ e \in Readers' <=> (Has(e)' /\ Reading(e)')
      /\ e \in Readers <=> (Has(e) /\ Reading(e))
      /\ e \in Writers' <=> (Has(e)' /\ Writing(e)')
      /\ e \in Writers <=> (Has(e) /\ Writing(e))
      /\ \A f \in Engine : e # f => (f \in Readers' <=> f \in Readers) /\ (f \in Writers' <=> f \in Writers)
  BY <1>0 DEF Readers, Writers
<1>2. CASE Take(e)
  <2>1. /\ \A f \in Engine : ~ Has(f)
        /\ Has(e)' /\ \/ Reading(e)' /\ ~ Writing(e)'
                      \/ Writing(e)' /\ ~ Reading(e)'
    BY <1>2 DEF Take, Goto, CountExact, TypeInv, Has, Reading, Writing
  <2>2. Readers = {} /\ Writers = {}
    BY <2>1 DEF Readers, Writers
  <2>3. CASE Reading(e)'
    <3>1. Readers' = Readers \cup {e} /\ Writers' = Writers
      BY <1>1, <2>1, <2>2, <2>3
    <3> QED
      BY <2>2, <3>1, AbstractSteps
  <2>4. CASE Writing(e)'
    <3>1. Readers' = Readers /\ Writers' = {e}
      BY <1>1, <2>1, <2>2, <2>4
    <3> QED
      BY <2>2, <3>1, AbstractSteps
  <2> QED
    BY <2>1, <2>3, <2>4
<1>3. CASE JoinState(e) /\ Has(e)'
  <2>1. state = "READ" /\ ~ Has(e) /\ Reading(e)' /\ ~ Writing(e)'
    BY <1>3 DEF JoinState, Goto, TypeInv, ReaderPcs, Has, Releasing, Reading, Writing
  <2>2. PICK f \in Engine : Has(f) /\ Reading(f)
    BY <2>1 DEF StateInv
  <2>3. \A g \in Engine : ~ (Has(g) /\ Writing(g))
    BY <2>2 DEF AloneInv, Alone, Reading, Writing
  <2>4. Writers = {} /\ Readers' = Readers \cup {e} /\ Writers' = Writers
    BY <1>1, <1>3, <2>1, <2>3 DEF Writers
  <2> QED
    BY <2>4, AbstractSteps
<1>4. CASE Leave(e) \/ Free(e)
  <2>1. Has(e) /\ ~ Has(e)' /\ (Reading(e) \/ Writing(e))
    BY <1>4 DEF Leave, Free, Goto, TypeInv, Has, Releasing, Reading, Writing
  <2>2. e \in Readers \cup Writers /\ Readers' = Readers \ {e} /\ Writers' = Writers \ {e}
    BY <1>1, <2>1
  <2> QED
    BY <2>2, AbstractSteps
<1>5. CASE ~ (Take(e) \/ (JoinState(e) /\ Has(e)') \/ Leave(e) \/ Free(e))
  <2>1. /\ Has(e)' <=> Has(e)
        /\ Has(e) => (Reading(e)' <=> Reading(e)) /\ (Writing(e)' <=> Writing(e))
    <3> USE DEF TypeInv, Goto, Failed, Has, Releasing, Reading, Writing
    <3>1. CASE Start(e) \/ Busy(e)
      BY <3>1, <1>5 DEF Start, Busy
    <3>2. CASE SetState(e) \/ Peek(e) \/ TakeFspin(e) \/ Spin(e)
      BY <3>2, <1>5 DEF SetState, Peek, TakeFspin, Spin
    <3>3. CASE Join(e) \/ JoinLock(e) \/ JoinState(e) \/ Joined(e)
      BY <3>3, <1>5 DEF Join, JoinLock, JoinState, Joined
    <3>4. CASE Undo(e) \/ Undone(e) \/ Unlock(e)
      BY <3>4, <1>5 DEF Undo, Undone, Unlock
    <3>5. CASE LookFspin(e) \/ LookCount(e) \/ Unset(e) \/ AgainState(e)
      BY <3>5, <1>5 DEF LookFspin, LookCount, Unset, AgainState
    <3>6. CASE SharedCount(e) \/ SharedSet(e) \/ Left(e)
      BY <3>6, <1>5 DEF SharedCount, SharedSet, Left
    <3>7. CASE SharedUnset(e) \/ SharedLast(e) \/ Clear(e)
      BY <3>7, <1>5 DEF SharedUnset, SharedLast, Clear
    <3> QED
      BY <1>5, <3>1, <3>2, <3>3, <3>4, <3>5, <3>6, <3>7 DEF Step
  <2>2. Readers' = Readers /\ Writers' = Writers
    BY <1>1, <2>1
  <2> QED
    BY <2>2
<1> QED
  BY <1>2, <1>3, <1>4, <1>5

(* Every behaviour of the spin lock is one of RWLockSpec.                  *)
THEOREM Refinement == Spec => ImplementsRWLock
<1>1. Init => RWLock!Init
  <2> SUFFICES ASSUME Init PROVE Readers = {} /\ Writers = {}
    BY AbstractSteps
  <2> QED
    BY DEF Init, Readers, Writers, Has, Releasing
<1>2. ASSUME IInv, IInv', [Next]_vars
      PROVE  RWLock!Next \/ (Readers' = Readers /\ Writers' = Writers)
  <2>1. CASE UNCHANGED vars
    <3>1. \A e \in Engine : /\ Has(e)' <=> Has(e)
                            /\ Reading(e)' <=> Reading(e)
                            /\ Writing(e)' <=> Writing(e)
      BY <2>1 DEF vars, Has, Releasing, Reading, Writing
    <3> QED
      BY <3>1 DEF Readers, Writers
  <2>2. ASSUME NEW e \in Engine, Start(e) \/ Step(e)
        PROVE  RWLock!Next \/ (Readers' = Readers /\ Writers' = Writers)
    BY <1>2, <2>2, StepRefines
  <2> QED
    BY <1>2, <2>1, <2>2 DEF Next
<1>3. IInv /\ IInv' /\ [Next]_vars
        => [RWLock!Next]_<<{e \in Engine : Has(e) /\ Reading(e)}, {e \in Engine : Has(e) /\ Writing(e)}>>
  BY <1>2 DEF Readers, Writers
<1> QED
  BY <1>1, <1>3, Invariance, PTL DEF Spec, ImplementsRWLock, RWLock!Spec

=============================================================================

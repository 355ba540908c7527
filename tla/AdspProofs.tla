----------------------------- MODULE AdspProofs -----------------------------
(***************************************************************************)
(* Proofs about Adsp for every program of the instruction forms it models, *)
(* every priority assignment, every stack depth and any number of calls    *)
(* onto a core that has not finished. What the host and the program do to  *)
(* the three parts of the sequencer they share is separated:               *)
(*                                                                         *)
(*  - the interrupt control. Base says that nothing is ready. It holds     *)
(*    because every operation that could make an interrupt ready ends in   *)
(*    check_irqs, and because taking one leaves none (GenerateIrqKeeps).   *)
(*  - the loop registers against the loop stack (LoopInv).                 *)
(*  - the mask against the status stack (MaskInv).                         *)
(*                                                                         *)
(* Most operations touch none of them (Calm). The last two invariants are  *)
(* promises the core keeps with a firmware of some discipline; what it has *)
(* to keep to is a hypothesis of the theorem, and a part of a property of  *)
(* Adsp (InProgram of TypeOK, the others of StacksUnwind) that TLC checks  *)
(* of MCAdsp's firmware.                                                   *)
(***************************************************************************)
EXTENDS Adsp, WellFoundedInduction, TLAPS

(* A set of naturals has a least element.                                  *)
LEMMA Least ==
    ASSUME NEW T, T \subseteq Nat, T # {}
    PROVE  \E x \in T : \A y \in T : x <= y
  <1> DEFINE R == {p \in Nat \X Nat : p[1] < p[2]}
  <1>1. IsWellFoundedOn(R, Nat)
    BY NatLessThanWellFounded, Zenon DEF OpToRel
  <1>2. \A x, y \in T : y < x => <<y, x>> \in R
    OBVIOUS
  <1> HIDE DEF R
  <1>3. PICK x \in T : \A y \in T : <<y, x>> \notin R
    BY <1>1, WFMin, Zenon
  <1>4. \A y \in T : x <= y
    <2> SUFFICES ASSUME NEW y \in T PROVE x <= y
      OBVIOUS
    <2>1. ~(y < x)
      BY <1>2, <1>3
    <2> QED BY <2>1
  <1> QED BY <1>4

(* check_irqs has something to choose: among the interrupts that are ready *)
(* one has the highest priority.                                           *)
LEMMA MostUrgent ==
    ASSUME NEW S, S \subseteq Irqs, S # {}
    PROVE  \E i \in S : \A j \in S : Priority[i] <= Priority[j]
  <1> DEFINE T == {Priority[j] : j \in S}
  <1>1. T \subseteq Nat /\ T # {}
    BY AdspAssumption DEF Irqs
  <1>2. PICK x \in T : \A y \in T : x <= y
    <2> HIDE DEF T
    <2> QED BY <1>1, Least
  <1> QED BY <1>2

-----------------------------------------------------------------------------

(* A stack whose entries have no type of their own.                        *)
IsSeq(q) == \E S : q \in Seq(S)

(* A push leaves the bottom of a stack where it was.                       *)
LEMMA AppendFacts ==
    ASSUME NEW q, IsSeq(q), NEW e
    PROVE  /\ IsSeq(Append(q, e))
           /\ Append(q, e) # <<>>
           /\ q = <<>> => Append(q, e)[1] = e
           /\ q # <<>> => Append(q, e)[1] = q[1]
  <1>1. PICK S : q \in Seq(S)
    BY DEF IsSeq
  <1> DEFINE S2 == S \cup {e}
  <1>2. q \in Seq(S2) /\ e \in S2
    BY <1>1
  <1> HIDE DEF S2
  <1>3. Append(q, e) \in Seq(S2)
    BY <1>2
  <1>4. IsSeq(Append(q, e))
    BY <1>3 DEF IsSeq
  <1> QED BY <1>2, <1>4

(* A pop removes the top and nothing below it.                             *)
LEMMA DroppedType ==
    ASSUME NEW S, NEW q \in Seq(S), q # <<>>
    PROVE  /\ Dropped(q) \in Seq(S)
           /\ Len(Dropped(q)) = Len(q) - 1
           /\ Len(q) \in Nat \ {0}
           /\ \A k \in 1 .. Len(q) - 1 : Dropped(q)[k] = q[k]
  <1> DEFINE n == Len(q) - 1
  <1>1. Len(q) \in Nat \ {0}
    OBVIOUS
  <1>2. n \in Nat /\ n <= Len(q) /\ Dropped(q) = SubSeq(q, 1, n)
    BY <1>1 DEF Dropped
  <1>3. \A k \in 1 .. n : k \in 1 .. Len(q) /\ q[k] \in S
    BY <1>1
  <1> HIDE DEF n
  <1>4. /\ SubSeq(q, 1, n) \in Seq(S)
        /\ Len(SubSeq(q, 1, n)) = n
        /\ \A k \in 1 .. n : SubSeq(q, 1, n)[k] = q[k]
    BY <1>2, <1>3
  <1> QED BY <1>1, <1>2, <1>4 DEF n

(* The same for a stack whose entries have no common type.                 *)
LEMMA DroppedFacts ==
    ASSUME NEW q, IsSeq(q), q # <<>>
    PROVE  /\ IsSeq(Dropped(q))
           /\ Dropped(q) = <<>> => Len(q) = 1
           /\ Dropped(q) # <<>> => Dropped(q)[1] = q[1]
  <1>1. PICK S : q \in Seq(S)
    BY DEF IsSeq
  <1>2. /\ Dropped(q) \in Seq(S)
        /\ Len(Dropped(q)) = Len(q) - 1
        /\ Len(q) \in Nat \ {0}
        /\ \A k \in 1 .. Len(q) - 1 : Dropped(q)[k] = q[k]
    BY <1>1, DroppedType
  <1>3. IsSeq(Dropped(q))
    BY <1>2 DEF IsSeq
  <1>4. Dropped(q) = <<>> => Len(q) = 1
    BY <1>2
  <1>5. Dropped(q) # <<>> => Dropped(q)[1] = q[1]
    BY <1>2
  <1> QED BY <1>3, <1>4, <1>5

(* Unwinding a stack that is no deeper than the recorded depth changes     *)
(* nothing.                                                                *)
LEMMA CutFacts ==
    ASSUME NEW S, NEW q \in Seq(S), NEW n \in Nat
    PROVE  /\ Cut(q, n) \in Seq(S)
           /\ Len(q) <= n => Cut(q, n) = q
  BY DEF Cut

-----------------------------------------------------------------------------

(* What the loop stack holds.                                              *)
LoopEntry == [end : Int, cond : Conditions]

(* The fields the argument is about.                                       *)
Fields == {"imask", "irq_latch", "irq_state", "interrupts_enabled", "stats",
           "inject", "loop", "loop_condition", "loops"}

(* Their types.                                                            *)
Shaped(s) ==
    /\ Fields \subseteq DOMAIN s
    /\ s.loops \in Seq(LoopEntry) /\ s.loop_condition \in Conditions
    /\ s.irq_latch \subseteq Irqs /\ s.irq_state \subseteq Irqs
    /\ s.interrupts_enabled \in BOOLEAN
    /\ IsSeq(s.stats)
    /\ DOMAIN s.inject = {"valid", "pc", "cntr", "stat", "loop"}
    /\ s.inject.loop \in Nat /\ s.inject.stat \in Nat

(* No interrupt is requested, enabled and waiting.                         *)
Quiet(s) == s.interrupts_enabled => Requested(s) \cap s.imask = {}

(* LoopIsOnStack, of any core.                                             *)
LoopTop(s) ==
    LET top == IF s.loops = <<>> THEN NoLoopEntry ELSE s.loops[Len(s.loops)]
    IN  s.loop = top.end /\ s.loop_condition = top.cond

(* The mask that comes back: the one in force outside routines, the one at *)
(* the bottom of the status stack inside. Before the firmware has written  *)
(* IMASK there is none, and nothing is enabled.                            *)
MaskKept(s, up) ==
    IF up
    THEN IF s.stats = <<>> THEN s.imask = Irqs ELSE s.stats[1].imask = Irqs
    ELSE s.imask = {} /\ s.stats = <<>>

(* The interrupt control and the status stack are untouched.               *)
SameIrqs(s, t) ==
    /\ Fields \subseteq DOMAIN t
    /\ t.imask = s.imask /\ t.irq_latch = s.irq_latch
    /\ t.irq_state = s.irq_state
    /\ t.interrupts_enabled = s.interrupts_enabled
    /\ t.stats = s.stats /\ t.inject = s.inject

(* The loop registers and the loop stack are untouched.                    *)
SameLoops(s, t) ==
    /\ t.loop = s.loop /\ t.loop_condition = s.loop_condition
    /\ t.loops = s.loops

Calm(s, t) == SameIrqs(s, t) /\ SameLoops(s, t)

(* What leaves the interrupt control alone keeps what is said of it.       *)
LEMMA SameIrqsKeeps ==
    ASSUME NEW s, NEW t, SameIrqs(s, t), NEW up
    PROVE  /\ Quiet(s) => Quiet(t)
           /\ MaskKept(s, up) => MaskKept(t, up)
  BY DEF SameIrqs, Quiet, MaskKept, Requested

(* What also leaves the loop registers alone keeps the rest.               *)
LEMMA CalmKeeps ==
    ASSUME NEW s, NEW t, Calm(s, t), Shaped(s)
    PROVE  /\ Shaped(t)
           /\ LoopTop(s) => LoopTop(t)
  BY DEF Calm, SameIrqs, SameLoops, Shaped, LoopTop

(* pc_stack_push_val touches neither.                                      *)
LEMMA PushPcCalm ==
    ASSUME NEW s, Shaped(s), NEW v
    PROVE  Calm(s, pc_stack_push_val(s, v))
  BY DEF Shaped, Fields, Calm, SameIrqs, SameLoops, pc_stack_push_val

(* pc_stack_pop_val touches neither.                                       *)
LEMMA PopPcValCalm ==
    ASSUME NEW s, Shaped(s)
    PROVE  Calm(s, pc_stack_pop_val(s))
  BY DEF Shaped, Fields, Calm, SameIrqs, SameLoops, pc_stack_pop_val

(* pc_stack_pop touches neither.                                           *)
LEMMA PopPcCalm ==
    ASSUME NEW s, Shaped(s)
    PROVE  Calm(s, pc_stack_pop(s))
  BY DEF Shaped, Fields, Calm, SameIrqs, SameLoops, pc_stack_pop,
         pc_stack_pop_val

(* cntr_stack_push touches neither.                                        *)
LEMMA CntrPushCalm ==
    ASSUME NEW s, Shaped(s)
    PROVE  Calm(s, cntr_stack_push(s))
  BY DEF Shaped, Fields, Calm, SameIrqs, SameLoops, cntr_stack_push

(* A write of CNTR touches neither.                                        *)
LEMMA WrCntrCalm ==
    ASSUME NEW s, Shaped(s), NEW v
    PROVE  Calm(s, wr_cntr(s, v))
  <1> DEFINE t == IF s.cntr_valid THEN cntr_stack_push(s) ELSE s
  <1>1. Calm(s, t)
    BY CntrPushCalm DEF Calm, SameIrqs, SameLoops, Shaped
  <1>2. wr_cntr(s, v) = [t EXCEPT !.cntr = v, !.cntr_valid = TRUE]
    BY DEF wr_cntr
  <1> HIDE DEF t
  <1> QED BY <1>1, <1>2 DEF Calm, SameIrqs, SameLoops, Fields

(* Testing a condition touches neither, though CE decrements the counter   *)
(* and may pop it.                                                         *)
LEMMA ConditionCalm ==
    ASSUME NEW s, Shaped(s), NEW cond \in Conditions
    PROVE  /\ Calm(s, CONDITION(s, cond).s)
           /\ CONDITION(s, cond).ok \in BOOLEAN
  <1> DEFINE t == [s EXCEPT !.cntr = @ - 1]
  <1>1. Calm(s, s)
    BY DEF Calm, SameIrqs, SameLoops, Shaped
  <1>2. Calm(s, t)
    BY DEF Shaped, Fields, Calm, SameIrqs, SameLoops
  <1>3. Calm(s, cntr_stack_pop(t))
    <2> HIDE DEF t
    <2> QED BY <1>2 DEF Fields, Calm, SameIrqs, SameLoops, cntr_stack_pop
  <1> QED BY <1>1, <1>2, <1>3 DEF CONDITION, Conditions, Verdict

(* Switching register banks touches neither.                               *)
LEMMA UpdateMstatCalm ==
    ASSUME NEW s, Shaped(s), NEW bank
    PROVE  Calm(s, update_mstat(s, bank))
  BY DEF Shaped, Fields, Calm, SameIrqs, SameLoops, update_mstat

(* Two operations that touch neither, one after the other.                 *)
LEMMA CalmTrans ==
    ASSUME NEW s, NEW t, NEW u, Calm(s, t), Calm(t, u)
    PROVE  Calm(s, u)
  BY DEF Calm, SameIrqs, SameLoops

-----------------------------------------------------------------------------

(* loop_stack_push loads the loop registers with what it pushes, or drops  *)
(* both.                                                                   *)
LEMMA LoopPushKeeps ==
    ASSUME NEW s, Shaped(s), NEW end \in Int, NEW cond \in Conditions
    PROVE  LET t == loop_stack_push(s, end, cond)
           IN  /\ Shaped(t) /\ SameIrqs(s, t)
               /\ LoopTop(s) => LoopTop(t)
  <1> DEFINE t == loop_stack_push(s, end, cond)
             e == [end |-> end, cond |-> cond]
  <1>1. CASE Len(s.loops) < LOOP_STACK_DEPTH
    <2>1. SameIrqs(s, t)
      BY <1>1 DEF Shaped, Fields, SameIrqs, loop_stack_push
    <2>2. /\ t.loops = Append(s.loops, e)
          /\ t.loop = end /\ t.loop_condition = cond
      BY <1>1 DEF Shaped, Fields, loop_stack_push
    <2>3. e \in LoopEntry
      BY DEF LoopEntry
    <2>4. /\ t.loops \in Seq(LoopEntry) /\ t.loops # <<>>
          /\ t.loops[Len(t.loops)] = e
      <3> s.loops \in Seq(LoopEntry)
        BY DEF Shaped
      <3> HIDE DEF e, t
      <3> QED BY <2>2, <2>3
    <2>5. LoopTop(t)
      BY <2>2, <2>4 DEF LoopTop
    <2>6. Shaped(t)
      <3> HIDE DEF t
      <3> QED BY <2>1, <2>2, <2>4 DEF Shaped, SameIrqs
    <2> QED BY <2>1, <2>5, <2>6
  <1>2. CASE ~(Len(s.loops) < LOOP_STACK_DEPTH)
    <2>1. Calm(s, t)
      BY <1>2 DEF Shaped, Fields, Calm, SameIrqs, SameLoops, loop_stack_push
    <2> QED BY <2>1, CalmKeeps DEF Calm
  <1> QED BY <1>1, <1>2

(* loop_stack_pop reloads the loop registers from the enclosing loop.      *)
LEMMA LoopPopKeeps ==
    ASSUME NEW s, Shaped(s)
    PROVE  LET t == loop_stack_pop(s)
           IN  t = s \/ (Shaped(t) /\ SameIrqs(s, t) /\ LoopTop(t))
  <1> DEFINE t == loop_stack_pop(s)
             outer == IF Len(s.loops) > 1 THEN s.loops[Len(s.loops) - 1]
                      ELSE NoLoopEntry
  <1>1. CASE s.loops = <<>>
    BY <1>1 DEF loop_stack_pop
  <1>2. CASE s.loops # <<>>
    <2>1. SameIrqs(s, t)
      BY <1>2 DEF Shaped, Fields, SameIrqs, loop_stack_pop
    <2>2. /\ t.loops = Dropped(s.loops)
          /\ t.loop = outer.end /\ t.loop_condition = outer.cond
      BY <1>2 DEF Shaped, Fields, loop_stack_pop
    <2>3. /\ Dropped(s.loops) \in Seq(LoopEntry)
          /\ Len(Dropped(s.loops)) = Len(s.loops) - 1
          /\ Len(s.loops) \in Nat \ {0}
          /\ \A k \in 1 .. Len(s.loops) - 1 : Dropped(s.loops)[k] = s.loops[k]
      BY <1>2, DroppedType DEF Shaped
    <2>4. NoLoopEntry \in LoopEntry
      BY DEF NoLoopEntry, LoopEntry, NoLoop, Conditions
    <2>5. outer \in LoopEntry
      BY <2>3, <2>4 DEF Shaped
    <2>6. outer = IF t.loops = <<>> THEN NoLoopEntry ELSE t.loops[Len(t.loops)]
      <3> HIDE DEF t
      <3> QED BY <2>2, <2>3
    <2> HIDE DEF t, outer
    <2>7. LoopTop(t)
      BY <2>2, <2>6 DEF LoopTop
    <2>8. Shaped(t)
      BY <2>1, <2>2, <2>3, <2>5 DEF Shaped, SameIrqs, LoopEntry
    <2> QED BY <2>1, <2>7, <2>8 DEF t
  <1> QED BY <1>1, <1>2

(* SameIrqs composes.                                                      *)
LEMMA SameIrqsTrans ==
    ASSUME NEW s, NEW t, NEW u, SameIrqs(s, t), SameIrqs(t, u)
    PROVE  SameIrqs(s, u)
  BY DEF SameIrqs

(* Moving on, at the end of a loop or not, keeps the loop registers in     *)
(* agreement with the stack.                                               *)
LEMMA AdvanceKeeps ==
    ASSUME NEW s, Shaped(s)
    PROVE  LET t == Advance(s)
           IN  /\ Shaped(t) /\ SameIrqs(s, t)
               /\ LoopTop(s) => LoopTop(t)
  <1> DEFINE v == CONDITION(s, s.loop_condition)
             l == loop_stack_pop(v.s)
             out == pc_stack_pop_val(l)
  <1>1. Calm(s, v.s) /\ v.ok \in BOOLEAN
    BY ConditionCalm DEF Shaped
  <1>2. CASE s.pc # s.loop
    <2>1. Advance(s) = [s EXCEPT !.pc = @ + 1]
      BY <1>2 DEF Advance
    <2>2. Calm(s, Advance(s))
      BY <2>1 DEF Shaped, Fields, Calm, SameIrqs, SameLoops
    <2> QED BY <2>2, CalmKeeps DEF Calm
  <1>3. CASE s.pc = s.loop /\ v.ok
    <2>1. Advance(s) = [v.s EXCEPT !.pc = pc_stack_top(v.s)]
      BY <1>3 DEF Advance
    <2> HIDE DEF v
    <2>2. Calm(s, Advance(s))
      BY <1>1, <2>1 DEF Fields, Calm, SameIrqs, SameLoops
    <2> QED BY <2>2, CalmKeeps DEF Calm
  <1>4. CASE s.pc = s.loop /\ ~v.ok
    <2>1. Advance(s) = [out EXCEPT !.pc = @ + 1]
      BY <1>4 DEF Advance
    <2> HIDE DEF v
    <2>2. Shaped(v.s) /\ (LoopTop(s) => LoopTop(v.s))
      BY <1>1, CalmKeeps
    <2>3. Shaped(l) /\ SameIrqs(v.s, l) /\ (LoopTop(s) => LoopTop(l))
      BY <2>2, LoopPopKeeps DEF Shaped, SameIrqs
    <2> HIDE DEF l
    <2>4. Calm(l, out)
      BY <2>3, PopPcValCalm
    <2> HIDE DEF out
    <2>5. Calm(l, Advance(s))
      BY <2>1, <2>4 DEF Fields, Calm, SameIrqs, SameLoops
    <2>6. Shaped(Advance(s)) /\ (LoopTop(s) => LoopTop(Advance(s)))
      BY <2>3, <2>5, CalmKeeps
    <2>7. SameIrqs(s, Advance(s))
      BY <1>1, <2>3, <2>5 DEF Calm, SameIrqs
    <2> QED BY <2>6, <2>7
  <1> HIDE DEF v
  <1> QED BY <1>1, <1>2, <1>3, <1>4
-----------------------------------------------------------------------------

(* What an operation on the core keeps.                                    *)
Keeps(s, t) ==
    /\ Shaped(t) /\ Quiet(t)
    /\ LoopTop(s) => LoopTop(t)
    /\ \A up \in BOOLEAN : MaskKept(s, up) => MaskKept(t, up)

(* An operation that touches neither keeps all four properties.            *)
LEMMA CalmIsKept ==
    ASSUME NEW s, NEW t, Shaped(s), Quiet(s), Calm(s, t)
    PROVE  Keeps(s, t)
  BY CalmKeeps, SameIrqsKeeps DEF Keeps, Calm

(* Taking the most urgent interrupt leaves none ready: what MaskFor still  *)
(* enables is more urgent than what was taken, and was not requested. The  *)
(* mask that is narrowed is on the status stack, or, when that is full,    *)
(* the first one still is.                                                 *)
LEMMA GenerateIrqKeeps ==
    ASSUME NEW s, Shaped(s), s.interrupts_enabled,
           NEW i \in Requested(s) \cap s.imask,
           \A j \in Requested(s) \cap s.imask : Priority[i] <= Priority[j]
    PROVE  Keeps(s, generate_irq(s, i))
  <1> DEFINE p == pc_stack_push_val(s, s.pc)
             e == [bank |-> p.bank, imask |-> p.imask, astat |-> p.astat]
             q == stat_stack_push(p)
             t == generate_irq(s, i)
  <1>1. Calm(s, p)
    BY PushPcCalm
  <1> HIDE DEF p
  <1>2. /\ Fields \subseteq DOMAIN q
        /\ q.irq_latch = s.irq_latch /\ q.irq_state = s.irq_state
        /\ q.interrupts_enabled = s.interrupts_enabled
        /\ q.inject = s.inject /\ SameLoops(s, q)
        /\ q.stats = IF Len(s.stats) < STAT_STACK_DEPTH
                     THEN Append(s.stats, e) ELSE s.stats
    BY <1>1 DEF stat_stack_push, Calm, SameIrqs, SameLoops, Fields
  <1>3. e.imask = s.imask
    BY <1>1 DEF Calm, SameIrqs
  <1> HIDE DEF e
  <1>4. t = [q EXCEPT !.irq_latch = @ \ {i}, !.pc = Vector(i), !.idle = FALSE,
                      !.imask = MaskFor(s, i)]
    BY DEF generate_irq, p, q
  <1> HIDE DEF q, t
  <1>5. /\ Fields \subseteq DOMAIN t
        /\ t.irq_latch = s.irq_latch \ {i} /\ t.irq_state = s.irq_state
        /\ t.interrupts_enabled = s.interrupts_enabled
        /\ t.inject = s.inject /\ SameLoops(s, t)
        /\ t.stats = q.stats /\ t.imask = MaskFor(s, i)
    BY <1>2, <1>4 DEF SameLoops, Fields
  <1>6. IsSeq(t.stats)
    <2>1. IsSeq(s.stats)
      BY DEF Shaped
    <2>2. IsSeq(Append(s.stats, e))
      BY <2>1, AppendFacts
    <2> QED BY <1>2, <1>5, <2>1, <2>2
  <1>7. Shaped(t)
    BY <1>5, <1>6 DEF Shaped, SameLoops
  <1>8. LoopTop(s) => LoopTop(t)
    BY <1>5 DEF LoopTop, SameLoops
  <1>9. Quiet(t)
    <2> SUFFICES ASSUME NEW j \in Requested(t), j \in t.imask
                 PROVE  FALSE
      BY DEF Quiet
    <2>1. j \in s.imask /\ Priority[j] < Priority[i]
      BY <1>5, Zenon DEF MaskFor
    <2>2. j \in Requested(s)
      BY <1>5 DEF Requested
    <2>3. Priority[i] <= Priority[j]
      BY <2>1, <2>2
    <2>4. i \in Irqs /\ j \in Irqs
      BY <2>2 DEF Requested, Shaped
    <2>5. Priority[i] \in Nat /\ Priority[j] \in Nat
      BY <2>4, AdspAssumption DEF Irqs
    <2> QED BY <2>1, <2>3, <2>5
  <1>10. ASSUME NEW up \in BOOLEAN, MaskKept(s, up)
         PROVE  MaskKept(t, up)
    <2>1. up
      BY <1>10 DEF MaskKept
    <2>2. CASE Len(s.stats) < STAT_STACK_DEPTH
      <3>1. /\ t.stats # <<>>
            /\ s.stats = <<>> => t.stats[1] = e
            /\ s.stats # <<>> => t.stats[1] = s.stats[1]
        BY <1>2, <1>5, <2>2, AppendFacts DEF Shaped
      <3> QED BY <1>3, <1>10, <2>1, <3>1 DEF MaskKept
    <2>3. CASE ~(Len(s.stats) < STAT_STACK_DEPTH)
      <3>1. s.stats # <<>>
        BY <2>3, AdspAssumption
      <3>2. t.stats = s.stats
        BY <1>2, <1>5, <2>3
      <3> QED BY <1>10, <2>1, <3>1, <3>2 DEF MaskKept
    <2> QED BY <2>2, <2>3
  <1> QED BY <1>7, <1>8, <1>9, <1>10 DEF Keeps, t

(* After check_irqs nothing is ready, whatever was before.                 *)
LEMMA CheckIrqsKeeps ==
    ASSUME NEW s, Shaped(s)
    PROVE  Keeps(s, check_irqs(s))
  <1> DEFINE ready == IF s.interrupts_enabled THEN Requested(s) \cap s.imask
                      ELSE {}
             i == CHOOSE k \in ready :
                     \A j \in ready : Priority[k] <= Priority[j]
  <1>1. CASE ready = {}
    <2>1. check_irqs(s) = s
      BY <1>1 DEF check_irqs
    <2>2. Quiet(s)
      BY <1>1 DEF Quiet
    <2> QED BY <2>1, <2>2 DEF Keeps
  <1>2. CASE ready # {}
    <2>1. s.interrupts_enabled /\ ready = Requested(s) \cap s.imask
      BY <1>2
    <2>2. ready \subseteq Irqs
      BY <2>1 DEF Requested, Shaped
    <2>3. check_irqs(s) = generate_irq(s, i)
      BY <1>2 DEF check_irqs
    <2> HIDE DEF ready
    <2>4. \E k \in ready : \A j \in ready : Priority[k] <= Priority[j]
      BY <1>2, <2>2, MostUrgent
    <2>5. i \in ready /\ \A j \in ready : Priority[i] <= Priority[j]
      BY <2>4
    <2> HIDE DEF i
    <2> QED BY <2>1, <2>3, <2>5, GenerateIrqKeeps
  <1> QED BY <1>1, <1>2

(* When nothing is ready check_irqs does nothing.                          *)
LEMMA QuietIsUnmoved ==
    ASSUME NEW s, Quiet(s)
    PROVE  check_irqs(s) = s
  BY DEF Quiet, check_irqs

(* A return from interrupt looks at the interrupts under the mask it       *)
(* restores, and the last one restores the first mask.                     *)
LEMMA StatPopKeeps ==
    ASSUME NEW s, Shaped(s), Quiet(s)
    PROVE  Keeps(s, stat_stack_pop(s))
  <1>1. CASE s.stats = <<>>
    <2>1. stat_stack_pop(s) = [s EXCEPT !.sstat = @ \cup {"STATUS_EMPTY"}]
      BY <1>1 DEF stat_stack_pop
    <2>2. Calm(s, stat_stack_pop(s))
      BY <2>1 DEF Shaped, Fields, Calm, SameIrqs, SameLoops
    <2> QED BY <2>2, CalmIsKept
  <1>2. CASE s.stats # <<>>
    <2> DEFINE top == s.stats[Len(s.stats)]
               u == update_mstat(s, top.bank)
               t == [u EXCEPT !.stats = Dropped(@), !.imask = top.imask,
                              !.astat = top.astat,
                              !.sstat = @ \cup Emptied(s.stats, "STATUS_EMPTY")]
    <2>1. stat_stack_pop(s) = check_irqs(t)
      BY <1>2 DEF stat_stack_pop
    <2>2. Calm(s, u)
      BY UpdateMstatCalm
    <2> HIDE DEF u
    <2>3. /\ Fields \subseteq DOMAIN t
          /\ t.irq_latch = s.irq_latch /\ t.irq_state = s.irq_state
          /\ t.interrupts_enabled = s.interrupts_enabled
          /\ t.inject = s.inject /\ SameLoops(s, t)
          /\ t.stats = Dropped(s.stats) /\ t.imask = top.imask
      BY <2>2 DEF Calm, SameIrqs, SameLoops, Fields
    <2> HIDE DEF t
    <2>4. /\ IsSeq(Dropped(s.stats))
          /\ Dropped(s.stats) = <<>> => Len(s.stats) = 1
          /\ Dropped(s.stats) # <<>> => Dropped(s.stats)[1] = s.stats[1]
      BY <1>2, DroppedFacts DEF Shaped
    <2>5. Shaped(t)
      BY <2>3, <2>4 DEF Shaped, SameLoops
    <2>6. LoopTop(s) => LoopTop(t)
      BY <2>3 DEF LoopTop, SameLoops
    <2>7. ASSUME NEW up \in BOOLEAN, MaskKept(s, up)
          PROVE  MaskKept(t, up)
      BY <1>2, <2>3, <2>4, <2>7 DEF MaskKept
    <2>8. Keeps(t, check_irqs(t))
      BY <2>5, CheckIrqsKeeps
    <2> QED BY <2>1, <2>6, <2>7, <2>8 DEF Keeps
  <1> QED BY <1>1, <1>2

(* PUSH STS stacks the mask in force, or nothing when the stack is full.   *)
(* On a core that has written no mask it would stack the wrong one.        *)
LEMMA StatPushKeeps ==
    ASSUME NEW s, Shaped(s), Quiet(s)
    PROVE  LET t == stat_stack_push(s)
           IN  /\ Shaped(t) /\ Quiet(t)
               /\ LoopTop(s) => LoopTop(t)
               /\ \A up \in BOOLEAN :
                     MaskKept(s, up) /\ (up \/ t.stats = <<>>)
                     => MaskKept(t, up)
  <1> DEFINE e == [bank |-> s.bank, imask |-> s.imask, astat |-> s.astat]
             t == stat_stack_push(s)
  <1>1. /\ Fields \subseteq DOMAIN t
        /\ t.imask = s.imask
        /\ t.irq_latch = s.irq_latch /\ t.irq_state = s.irq_state
        /\ t.interrupts_enabled = s.interrupts_enabled
        /\ t.inject = s.inject /\ SameLoops(s, t)
        /\ t.stats = IF Len(s.stats) < STAT_STACK_DEPTH
                     THEN Append(s.stats, e) ELSE s.stats
    BY DEF stat_stack_push, Shaped, SameLoops, Fields
  <1>2. e.imask = s.imask
    OBVIOUS
  <1> HIDE DEF e, t
  <1>3. IsSeq(t.stats)
    <2>1. IsSeq(s.stats)
      BY DEF Shaped
    <2>2. IsSeq(Append(s.stats, e))
      BY <2>1, AppendFacts
    <2> QED BY <1>1, <2>1, <2>2
  <1>4. Shaped(t)
    BY <1>1, <1>3 DEF Shaped, SameLoops
  <1>5. LoopTop(s) => LoopTop(t)
    BY <1>1 DEF LoopTop, SameLoops
  <1>6. Quiet(t)
    BY <1>1 DEF Quiet, Requested
  <1>7. ASSUME NEW up \in BOOLEAN, MaskKept(s, up), up \/ t.stats = <<>>
        PROVE  MaskKept(t, up)
    <2>1. CASE ~up
      BY <1>1, <1>7, <2>1 DEF MaskKept
    <2>2. CASE up /\ Len(s.stats) < STAT_STACK_DEPTH
      <3>1. /\ t.stats # <<>>
            /\ s.stats = <<>> => t.stats[1] = e
            /\ s.stats # <<>> => t.stats[1] = s.stats[1]
        <4>1. IsSeq(s.stats)
          BY DEF Shaped
        <4>2. t.stats = Append(s.stats, e)
          BY <1>1, <2>2
        <4> QED BY <4>1, <4>2, AppendFacts
      <3> QED BY <1>2, <1>7, <2>2, <3>1 DEF MaskKept
    <2>3. CASE up /\ ~(Len(s.stats) < STAT_STACK_DEPTH)
      <3>1. s.stats # <<>>
        BY <2>3, AdspAssumption
      <3>2. t.stats = s.stats
        BY <1>1, <2>3
      <3> QED BY <1>7, <2>3, <3>1, <3>2 DEF MaskKept
    <2> QED BY <2>1, <2>2, <2>3
  <1> QED BY <1>4, <1>5, <1>6, <1>7 DEF t
-----------------------------------------------------------------------------

(* JUMP touches neither the interrupt control nor the loops.               *)
LEMMA JumpCalm ==
    ASSUME NEW s, Shaped(s), NEW i, i.cond \in Conditions
    PROVE  Calm(s, Jump(s, i))
  <1> DEFINE v == CONDITION(s, i.cond)
  <1>1. Calm(s, v.s)
    BY ConditionCalm
  <1>2. Jump(s, i) = IF v.ok THEN [v.s EXCEPT !.pc = i.to] ELSE v.s
    BY DEF Jump
  <1> HIDE DEF v
  <1> QED BY <1>1, <1>2 DEF Calm, SameIrqs, SameLoops, Fields

(* CALL touches neither.                                                   *)
LEMMA CallCalm ==
    ASSUME NEW s, Shaped(s), NEW i, i.cond \in Conditions
    PROVE  Calm(s, Call(s, i))
  <1> DEFINE v == CONDITION(s, i.cond)
             p == pc_stack_push_val(v.s, v.s.pc)
  <1>1. Calm(s, v.s)
    BY ConditionCalm
  <1>2. Call(s, i) = IF v.ok THEN [p EXCEPT !.pc = i.to] ELSE v.s
    BY DEF Call
  <1> HIDE DEF v
  <1>3. Calm(s, p)
    BY <1>1, CalmKeeps, PushPcCalm, CalmTrans
  <1> HIDE DEF p
  <1> QED BY <1>1, <1>2, <1>3 DEF Calm, SameIrqs, SameLoops, Fields

(* RTS and RTI.                                                            *)
LEMMA ReturnKeeps ==
    ASSUME NEW s, Shaped(s), Quiet(s), NEW i, i.cond \in Conditions,
           i.rti \in BOOLEAN
    PROVE  Keeps(s, Return(s, i))
  <1> DEFINE v == CONDITION(s, i.cond)
             back == pc_stack_pop(v.s)
  <1>1. Calm(s, v.s) /\ v.ok \in BOOLEAN
    BY ConditionCalm
  <1>2. /\ ~v.ok => Return(s, i) = v.s
        /\ v.ok /\ i.rti => Return(s, i) = stat_stack_pop(back)
        /\ v.ok /\ ~i.rti => Return(s, i) = back
    BY <1>1 DEF Return
  <1> HIDE DEF v
  <1>3. Keeps(s, v.s)
    BY <1>1, CalmIsKept
  <1>4. Calm(s, back)
    BY <1>1, <1>3, PopPcCalm, CalmTrans DEF Keeps
  <1> HIDE DEF back
  <1>5. Keeps(s, back)
    BY <1>4, CalmIsKept
  <1>6. Keeps(s, stat_stack_pop(back))
    BY <1>5, StatPopKeeps DEF Keeps
  <1> QED BY <1>1, <1>2, <1>3, <1>5, <1>6

(* DO UNTIL.                                                               *)
LEMMA DoUntilKeeps ==
    ASSUME NEW s, Shaped(s), Quiet(s), NEW i, i.cond \in Conditions,
           i.end \in Int
    PROVE  Keeps(s, DoUntil(s, i))
  <1> DEFINE l == loop_stack_push(s, i.end, i.cond)
  <1>1. /\ Shaped(l) /\ SameIrqs(s, l)
        /\ LoopTop(s) => LoopTop(l)
    BY LoopPushKeeps
  <1>2. Keeps(s, l)
    BY <1>1, SameIrqsKeeps DEF Keeps
  <1>3. DoUntil(s, i) = pc_stack_push_val(l, l.pc)
    BY DEF DoUntil
  <1> HIDE DEF l
  <1>4. Keeps(l, DoUntil(s, i))
    BY <1>2, <1>3, PushPcCalm, CalmIsKept DEF Keeps
  <1> QED BY <1>2, <1>4 DEF Keeps

(* ENA INTS and DIS INTS: enabling looks at the interrupts.                *)
LEMMA IntsKeeps ==
    ASSUME NEW s, Shaped(s), Quiet(s), NEW i, i.on \in BOOLEAN
    PROVE  Keeps(s, Ints(s, i))
  <1> DEFINE e == [s EXCEPT !.interrupts_enabled = i.on]
  <1>1. /\ Fields \subseteq DOMAIN e
        /\ e.imask = s.imask /\ e.irq_latch = s.irq_latch
        /\ e.irq_state = s.irq_state /\ e.interrupts_enabled = i.on
        /\ e.stats = s.stats /\ e.inject = s.inject /\ SameLoops(s, e)
    BY DEF Shaped, Fields, SameLoops
  <1>2. Ints(s, i) = IF i.on THEN check_irqs(e) ELSE e
    BY DEF Ints
  <1> HIDE DEF e
  <1>3. Shaped(e)
    BY <1>1 DEF Shaped, SameLoops
  <1>4. LoopTop(s) => LoopTop(e)
    BY <1>1 DEF LoopTop, SameLoops
  <1>5. \A up \in BOOLEAN : MaskKept(s, up) => MaskKept(e, up)
    BY <1>1 DEF MaskKept
  <1>6. CASE i.on
    <2>1. Keeps(e, check_irqs(e))
      BY <1>3, CheckIrqsKeeps
    <2> QED BY <1>2, <1>4, <1>5, <1>6, <2>1 DEF Keeps
  <1>7. CASE ~i.on
    <2>1. Quiet(e)
      BY <1>1, <1>7 DEF Quiet
    <2> QED BY <1>2, <1>3, <1>4, <1>5, <1>7, <2>1 DEF Keeps
  <1> QED BY <1>6, <1>7

(* A write of IMASK looks at the interrupts. From a write of the full mask *)
(* on, the mask to come back to is the full one.                           *)
LEMMA WrImaskKeeps ==
    ASSUME NEW s, Shaped(s), NEW v
    PROVE  LET t == wr_imask(s, v)
           IN  /\ Shaped(t) /\ Quiet(t)
               /\ LoopTop(s) => LoopTop(t)
               /\ v = Irqs => \A up \in BOOLEAN :
                                 MaskKept(s, up) => MaskKept(t, TRUE)
  <1> DEFINE e == [s EXCEPT !.imask = v]
  <1>1. /\ Fields \subseteq DOMAIN e
        /\ e.imask = v /\ e.irq_latch = s.irq_latch
        /\ e.irq_state = s.irq_state
        /\ e.interrupts_enabled = s.interrupts_enabled
        /\ e.stats = s.stats /\ e.inject = s.inject /\ SameLoops(s, e)
    BY DEF Shaped, Fields, SameLoops
  <1>2. wr_imask(s, v) = check_irqs(e)
    BY DEF wr_imask
  <1> HIDE DEF e
  <1>3. Shaped(e)
    BY <1>1 DEF Shaped, SameLoops
  <1>4. LoopTop(s) => LoopTop(e)
    BY <1>1 DEF LoopTop, SameLoops
  <1>5. ASSUME v = Irqs, NEW up \in BOOLEAN, MaskKept(s, up)
        PROVE  MaskKept(e, TRUE)
    BY <1>1, <1>5 DEF MaskKept
  <1>6. Keeps(e, check_irqs(e))
    BY <1>3, CheckIrqsKeeps
  <1> QED BY <1>2, <1>4, <1>5, <1>6 DEF Keeps

(* A write of ICNTL.                                                       *)
LEMMA WrIcntlKeeps ==
    ASSUME NEW s, Shaped(s), Quiet(s), NEW v
    PROVE  Keeps(s, wr_icntl(s, v))
  <1> DEFINE e == [s EXCEPT !.nesting = v]
  <1>1. Calm(s, e)
    BY DEF Shaped, Fields, Calm, SameIrqs, SameLoops
  <1>2. wr_icntl(s, v) = check_irqs(e)
    BY DEF wr_icntl
  <1> HIDE DEF e
  <1>3. Keeps(s, e)
    BY <1>1, CalmIsKept
  <1> QED BY <1>2, <1>3, QuietIsUnmoved DEF Keeps

(* Requests that are added or withdrawn are looked at: by a write of IFC,  *)
(* adsp2181_set_irq and the sample clock.                                  *)
LEMMA RequestKeeps ==
    ASSUME NEW s, Shaped(s), NEW latch, NEW lines,
           latch \subseteq Irqs, lines \subseteq Irqs,
           NEW e, Fields \subseteq DOMAIN e,
           e.imask = s.imask, e.irq_latch = latch, e.irq_state = lines,
           e.interrupts_enabled = s.interrupts_enabled,
           e.stats = s.stats, e.inject = s.inject, SameLoops(s, e)
    PROVE  Keeps(s, check_irqs(e))
  <1>1. Shaped(e)
    BY DEF Shaped, SameLoops
  <1>2. LoopTop(s) => LoopTop(e)
    BY DEF LoopTop, SameLoops
  <1>3. \A up \in BOOLEAN : MaskKept(s, up) => MaskKept(e, up)
    BY DEF MaskKept
  <1>4. Keeps(e, check_irqs(e))
    BY <1>1, CheckIrqsKeeps
  <1> QED BY <1>2, <1>3, <1>4 DEF Keeps

(* The requests and the lines of a core replaced.                          *)
LEMMA RequestedFields ==
    ASSUME NEW s, Shaped(s), NEW latch, NEW lines,
           latch \subseteq Irqs, lines \subseteq Irqs
    PROVE  Keeps(s, check_irqs([s EXCEPT !.irq_latch = latch,
                                         !.irq_state = lines]))
  <1> DEFINE e == [s EXCEPT !.irq_latch = latch, !.irq_state = lines]
  <1>1. /\ Fields \subseteq DOMAIN e
        /\ e.imask = s.imask /\ e.irq_latch = latch /\ e.irq_state = lines
        /\ e.interrupts_enabled = s.interrupts_enabled
        /\ e.stats = s.stats /\ e.inject = s.inject /\ SameLoops(s, e)
    BY DEF Shaped, Fields, SameLoops
  <1> HIDE DEF e
  <1>2. Keeps(s, check_irqs(e))
    BY <1>1, RequestKeeps
  <1> QED BY <1>2 DEF e

(* A write of IFC.                                                         *)
LEMMA WrIfcKeeps ==
    ASSUME NEW s, Shaped(s), NEW i, i.force \subseteq Irqs
    PROVE  Keeps(s, wr_ifc(s, i))
  <1> DEFINE latch == (s.irq_latch \ i.clear) \cup i.force
             e == [s EXCEPT !.irq_latch = latch]
  <1>1. latch \subseteq Irqs /\ s.irq_state \subseteq Irqs
    BY DEF Shaped
  <1>2. wr_ifc(s, i) = check_irqs(e)
    BY DEF wr_ifc
  <1> HIDE DEF latch
  <1>3. /\ Fields \subseteq DOMAIN e
        /\ e.imask = s.imask /\ e.irq_latch = latch
        /\ e.irq_state = s.irq_state
        /\ e.interrupts_enabled = s.interrupts_enabled
        /\ e.stats = s.stats /\ e.inject = s.inject /\ SameLoops(s, e)
    BY DEF Shaped, Fields, SameLoops
  <1> HIDE DEF e
  <1> QED BY <1>1, <1>2, <1>3, RequestKeeps

(* The stack control instruction.                                          *)
LEMMA StackControlKeeps ==
    ASSUME NEW s, Shaped(s), Quiet(s), NEW i,
           {i.pc, i.loop, i.cntr} \subseteq BOOLEAN,
           i.sts \in {"none", "push", "pop"}
    PROVE  LET t == StackControl(s, i)
           IN  /\ Shaped(t) /\ Quiet(t)
               /\ LoopTop(s) => LoopTop(t)
               /\ \A up \in BOOLEAN :
                     MaskKept(s, up) /\ (up \/ t.stats = <<>>)
                     => MaskKept(t, up)
  <1> DEFINE p == IF i.pc THEN pc_stack_pop_val(s) ELSE s
             l == IF i.loop THEN loop_stack_pop(p) ELSE p
             n == IF i.cntr THEN cntr_stack_pop(l) ELSE l
             t == StackControl(s, i)
  <1>1. /\ i.sts = "none" => t = n
        /\ i.sts = "push" => t = stat_stack_push(n)
        /\ i.sts = "pop" => t = stat_stack_pop(n)
    BY DEF StackControl
  <1>2. Calm(s, p)
    BY PopPcValCalm DEF Calm, SameIrqs, SameLoops, Shaped
  <1> HIDE DEF p
  <1>3. Keeps(s, p)
    BY <1>2, CalmIsKept
  <1>4. Keeps(s, l)
    <2>1. l = p \/ (Shaped(l) /\ SameIrqs(p, l) /\ LoopTop(l))
      BY <1>3, LoopPopKeeps DEF Keeps
    <2> HIDE DEF l
    <2>2. CASE l = p
      BY <1>3, <2>2
    <2>3. CASE Shaped(l) /\ SameIrqs(p, l) /\ LoopTop(l)
      BY <1>3, <2>3, SameIrqsKeeps DEF Keeps
    <2> QED BY <2>1, <2>2, <2>3
  <1> HIDE DEF l
  <1>5. Calm(l, n)
    BY <1>4 DEF Keeps, Shaped, Fields, Calm, SameIrqs, SameLoops,
                cntr_stack_pop
  <1> HIDE DEF n
  <1>6. Keeps(l, n)
    BY <1>4, <1>5, CalmIsKept DEF Keeps
  <1>7. Keeps(s, n)
    BY <1>4, <1>6 DEF Keeps
  <1> HIDE DEF t
  <1>8. CASE i.sts = "none"
    BY <1>1, <1>7, <1>8 DEF Keeps, t
  <1>9. CASE i.sts = "push"
    <2>1. /\ Shaped(t) /\ Quiet(t)
          /\ LoopTop(n) => LoopTop(t)
          /\ \A up \in BOOLEAN :
                MaskKept(n, up) /\ (up \/ t.stats = <<>>) => MaskKept(t, up)
      BY <1>1, <1>7, <1>9, StatPushKeeps DEF Keeps
    <2> QED BY <1>7, <2>1 DEF Keeps, t
  <1>10. CASE i.sts = "pop"
    <2>1. Keeps(n, t)
      BY <1>1, <1>7, <1>10, StatPopKeeps DEF Keeps
    <2> QED BY <1>7, <2>1 DEF Keeps, t
  <1> QED BY <1>8, <1>9, <1>10

(* The ALU instructions touch neither.                                     *)
LEMMA AluCalm ==
    ASSUME NEW s, Shaped(s), NEW i
    PROVE  Calm(s, alu_op_ar(s, i))
  <1> DEFINE x == s.core[i.x]
             y == s.core[i.y] + (IF i.f = "X+Y+C" THEN s.astat.c ELSE 0)
  <1>1. \A r : Calm(s, CALC_NZ(s, r))
    BY DEF CALC_NZ, Shaped, Fields, Calm, SameIrqs, SameLoops
  <1>2. Calm(s, Decrement(s, y))
    <2> HIDE DEF y
    <2> DEFINE n == CALC_NZ(s, y - 1)
    <2>1. Calm(s, n)
      BY <1>1
    <2>2. Decrement(s, y) = [n EXCEPT
                 !.core.ar = Trunc(y - 1),
                 !.astat.v = IF y = 2^(W - 1) THEN 1 ELSE 0,
                 !.astat.c = 1 - Bit(y - 1, W)]
      BY DEF Decrement
    <2> HIDE DEF n
    <2> QED BY <2>1, <2>2 DEF Fields, Calm, SameIrqs, SameLoops
  <1>3. Calm(s, [CALC_NZVC(s, x, y, x + y) EXCEPT !.core.ar = Trunc(x + y)])
    <2> HIDE DEF x, y
    <2> DEFINE n == CALC_NZ(s, x + y)
    <2>1. Calm(s, n)
      BY <1>1
    <2>2. CALC_NZVC(s, x, y, x + y) = [n EXCEPT
               !.astat.v = (Msb(x) + Msb(y) + Msb(x + y) + Bit(x + y, W)) % 2,
               !.astat.c = Bit(x + y, W)]
      BY DEF CALC_NZVC
    <2> HIDE DEF n
    <2> QED BY <2>1, <2>2 DEF Fields, Calm, SameIrqs, SameLoops
  <1> QED BY <1>2, <1>3 DEF alu_op_ar

(* DIVS and DIVQ touch neither.                                            *)
LEMMA DivideCalm ==
    ASSUME NEW s, Shaped(s), NEW i
    PROVE  Calm(s, DIVS(s, i)) /\ Calm(s, DIVQ(s, i))
  BY DEF DIVS, DIVQ, Shaped, Fields, Calm, SameIrqs, SameLoops
-----------------------------------------------------------------------------

(* What an instruction keeps: a write of IMASK boots the core.             *)
Stepped(s, t, i) ==
    /\ Shaped(t) /\ Quiet(t)
    /\ LoopTop(s) => LoopTop(t)
    /\ WritesFullMask =>
          \A up \in BOOLEAN :
             /\ MaskKept(s, up)
             /\ up \/ i.op = "imask" \/ t.stats = <<>>
             => MaskKept(t, up \/ i.op = "imask")

(* An instruction other than a write of IMASK.                             *)
LEMMA KeepsIsStepped ==
    ASSUME NEW s, NEW t, NEW i, Keeps(s, t), i.op # "imask"
    PROVE  Stepped(s, t, i)
  BY DEF Keeps, Stepped

(* One step per instruction.                                               *)
LEMMA ExecSteps ==
    ASSUME NEW s, Shaped(s), Quiet(s), NEW a \in DOMAIN Program
    PROVE  Stepped(s, Exec(s, Program[a]), Program[a])
  <1> DEFINE i == Program[a]
             t == Exec(s, i)
  <1>0. /\ i.op \in Opcodes
        /\ i.op \in {"jump", "call", "return", "do"} => i.cond \in Conditions
        /\ i.op = "do" => i.end \in Int
        /\ i.op = "return" => i.rti \in BOOLEAN
        /\ i.op = "ints" => i.on \in BOOLEAN
        /\ i.op = "stack" => /\ {i.pc, i.loop, i.cntr} \subseteq BOOLEAN
                             /\ i.sts \in {"none", "push", "pop"}
        /\ i.op = "ifc" => i.force \subseteq Irqs
        /\ i.op = "imask" /\ WritesFullMask => i.val = Irqs
    BY ProgramAssumption DEF WritesFullMask, Irqs
  <1> HIDE DEF i
  <1>1. CASE i.op = "idle"
    <2>1. t = [s EXCEPT !.idle = TRUE]
      BY <1>1 DEF Exec
    <2>2. Calm(s, t)
      BY <2>1 DEF Shaped, Fields, Calm, SameIrqs, SameLoops
    <2> QED BY <1>1, <2>2, CalmIsKept, KeepsIsStepped DEF i
  <1>2. CASE i.op = "jump"
    <2>1. t = Jump(s, i)
      BY <1>2 DEF Exec
    <2>2. Calm(s, t)
      BY <1>0, <1>2, <2>1, JumpCalm
    <2> QED BY <1>2, <2>2, CalmIsKept, KeepsIsStepped DEF i
  <1>3. CASE i.op = "call"
    <2>1. t = Call(s, i)
      BY <1>3 DEF Exec
    <2>2. Calm(s, t)
      BY <1>0, <1>3, <2>1, CallCalm
    <2> QED BY <1>3, <2>2, CalmIsKept, KeepsIsStepped DEF i
  <1>4. CASE i.op = "return"
    <2>1. t = Return(s, i)
      BY <1>4 DEF Exec
    <2>2. Keeps(s, t)
      BY <1>0, <1>4, <2>1, ReturnKeeps
    <2> QED BY <1>4, <2>2, KeepsIsStepped DEF i
  <1>5. CASE i.op = "do"
    <2>1. t = DoUntil(s, i)
      BY <1>5 DEF Exec
    <2>2. Keeps(s, t)
      BY <1>0, <1>5, <2>1, DoUntilKeeps
    <2> QED BY <1>5, <2>2, KeepsIsStepped DEF i
  <1>6. CASE i.op = "ints"
    <2>1. t = Ints(s, i)
      BY <1>6 DEF Exec
    <2>2. Keeps(s, t)
      BY <1>0, <1>6, <2>1, IntsKeeps
    <2> QED BY <1>6, <2>2, KeepsIsStepped DEF i
  <1>7. CASE i.op = "bank"
    <2>1. t = update_mstat(s, i.bank)
      BY <1>7 DEF Exec, ModeControl
    <2>2. Calm(s, t)
      BY <2>1, UpdateMstatCalm
    <2> QED BY <1>7, <2>2, CalmIsKept, KeepsIsStepped DEF i
  <1>8. CASE i.op = "imask"
    <2>1. t = wr_imask(s, i.val)
      BY <1>8 DEF Exec
    <2>2. /\ Shaped(t) /\ Quiet(t)
          /\ LoopTop(s) => LoopTop(t)
          /\ i.val = Irqs => \A up \in BOOLEAN :
                                MaskKept(s, up) => MaskKept(t, TRUE)
      BY <2>1, WrImaskKeeps
    <2> HIDE DEF t
    <2>3. Stepped(s, t, i)
      BY <1>0, <1>8, <2>2 DEF Stepped
    <2> QED BY <2>3 DEF i, t
  <1>9. CASE i.op = "icntl"
    <2>1. t = wr_icntl(s, i.nesting)
      BY <1>9 DEF Exec
    <2>2. Keeps(s, t)
      BY <2>1, WrIcntlKeeps
    <2> QED BY <1>9, <2>2, KeepsIsStepped DEF i
  <1>10. CASE i.op = "cntr"
    <2>1. t = wr_cntr(s, i.val)
      BY <1>10 DEF Exec
    <2>2. Calm(s, t)
      BY <2>1, WrCntrCalm
    <2> QED BY <1>10, <2>2, CalmIsKept, KeepsIsStepped DEF i
  <1>11. CASE i.op = "read"
    <2>1. t = [s EXCEPT !.core[i.dst] = dm[i.dst]]
      BY <1>11 DEF Exec
    <2>2. Calm(s, t)
      BY <2>1 DEF Shaped, Fields, Calm, SameIrqs, SameLoops
    <2> QED BY <1>11, <2>2, CalmIsKept, KeepsIsStepped DEF i
  <1>12. CASE i.op = "move"
    <2>1. t = [s EXCEPT !.core[i.dst] = s.core[i.src]]
      BY <1>12 DEF Exec
    <2>2. Calm(s, t)
      BY <2>1 DEF Shaped, Fields, Calm, SameIrqs, SameLoops
    <2> QED BY <1>12, <2>2, CalmIsKept, KeepsIsStepped DEF i
  <1>13. CASE i.op = "alu"
    <2>1. t = alu_op_ar(s, i)
      BY <1>13 DEF Exec
    <2>2. Calm(s, t)
      BY <2>1, AluCalm
    <2> QED BY <1>13, <2>2, CalmIsKept, KeepsIsStepped DEF i
  <1>14. CASE i.op = "divs"
    <2>1. t = DIVS(s, i)
      BY <1>14 DEF Exec
    <2>2. Calm(s, t)
      BY <2>1, DivideCalm
    <2> QED BY <1>14, <2>2, CalmIsKept, KeepsIsStepped DEF i
  <1>15. CASE i.op = "divq"
    <2>1. t = DIVQ(s, i)
      BY <1>15 DEF Exec
    <2>2. Calm(s, t)
      BY <2>1, DivideCalm
    <2> QED BY <1>15, <2>2, CalmIsKept, KeepsIsStepped DEF i
  <1>16. CASE i.op = "stack"
    <2>1. t = StackControl(s, i)
      BY <1>16 DEF Exec
    <2>2. /\ Shaped(t) /\ Quiet(t)
          /\ LoopTop(s) => LoopTop(t)
          /\ \A up \in BOOLEAN :
                MaskKept(s, up) /\ (up \/ t.stats = <<>>) => MaskKept(t, up)
      BY <1>0, <1>16, <2>1, StackControlKeeps
    <2> HIDE DEF t
    <2>3. Stepped(s, t, i)
      BY <1>16, <2>2 DEF Stepped
    <2> QED BY <2>3 DEF i, t
  <1>17. CASE i.op = "ifc"
    <2>1. t = wr_ifc(s, i)
      BY <1>17 DEF Exec
    <2>2. Keeps(s, t)
      BY <1>0, <1>17, <2>1, WrIfcKeeps
    <2> QED BY <1>17, <2>2, KeepsIsStepped DEF i
  <1> QED BY <1>0, <1>1, <1>2, <1>3, <1>4, <1>5, <1>6, <1>7, <1>8, <1>9,
             <1>10, <1>11, <1>12, <1>13, <1>14, <1>15, <1>16, <1>17
          DEF Opcodes

(* Unwinding an abandoned call keeps the interrupt control; it keeps loops *)
(* and masks when the call was abandoned outside of both.                  *)
LEMMA DiscardKeeps ==
    ASSUME NEW s, Shaped(s), Quiet(s)
    PROVE  LET t == discard_stale_synthetic_returns(s)
           IN  /\ Shaped(t) /\ Quiet(t)
               /\ t = s \/ (s.idle /\ s.inject.valid)
               /\ Len(s.loops) <= s.inject.loop /\ LoopTop(s) => LoopTop(t)
               /\ Len(s.stats) <= s.inject.stat =>
                     \A up \in BOOLEAN : MaskKept(s, up) => MaskKept(t, up)
  <1> DEFINE t == discard_stale_synthetic_returns(s)
             over == /\ s.idle
                     /\ s.inject.valid
                     /\ Len(s.pcs) > s.inject.pc
                     /\ s.pcs[s.inject.pc + 1] = KernelIdle
  <1>1. CASE ~over
    <2>1. t = s
      BY <1>1 DEF discard_stale_synthetic_returns
    <2> QED BY <2>1
  <1>2. CASE over
    <2>1. /\ Fields \subseteq DOMAIN t
          /\ t.imask = s.imask /\ t.irq_latch = s.irq_latch
          /\ t.irq_state = s.irq_state
          /\ t.interrupts_enabled = s.interrupts_enabled
          /\ t.inject = s.inject
          /\ t.loop = s.loop /\ t.loop_condition = s.loop_condition
          /\ t.stats = Cut(s.stats, s.inject.stat)
          /\ t.loops = Cut(s.loops, s.inject.loop)
      BY <1>2 DEF discard_stale_synthetic_returns, Shaped, Fields
    <2> HIDE DEF t
    <2>2. /\ t.loops \in Seq(LoopEntry)
          /\ Len(s.loops) <= s.inject.loop => t.loops = s.loops
      BY <2>1, CutFacts DEF Shaped
    <2>3. PICK S : s.stats \in Seq(S)
      BY DEF Shaped, IsSeq
    <2>4. /\ t.stats \in Seq(S)
          /\ Len(s.stats) <= s.inject.stat => t.stats = s.stats
      BY <2>1, <2>3, CutFacts DEF Shaped
    <2>5. Shaped(t)
      BY <2>1, <2>2, <2>4 DEF Shaped, IsSeq
    <2>6. Quiet(t)
      BY <2>1 DEF Quiet, Requested
    <2>7. Len(s.loops) <= s.inject.loop /\ LoopTop(s) => LoopTop(t)
      BY <2>1, <2>2 DEF LoopTop
    <2>8. Len(s.stats) <= s.inject.stat =>
             \A up \in BOOLEAN : MaskKept(s, up) => MaskKept(t, up)
      BY <2>1, <2>4 DEF MaskKept
    <2> QED BY <1>2, <2>5, <2>6, <2>7, <2>8 DEF t
  <1> QED BY <1>1, <1>2

(* Entering a routine touches neither.                                     *)
LEMMA CallInjectedCalm ==
    ASSUME NEW s, Shaped(s), NEW entry
    PROVE  Calm(s, CallInjected(s, entry))
  <1> DEFINE p == pc_stack_push_val(s, KernelIdle)
  <1>1. Calm(s, p)
    BY PushPcCalm
  <1>2. CallInjected(s, entry) = [p EXCEPT !.pc = entry, !.idle = FALSE]
    BY DEF CallInjected
  <1> HIDE DEF p
  <1> QED BY <1>1, <1>2 DEF Calm, SameIrqs, SameLoops, Fields

(* After a reset everything holds, with nothing booted.                    *)
LEMMA ResetOK ==
    ASSUME NEW s, Fields \subseteq DOMAIN s,
           DOMAIN s.inject = {"valid", "pc", "cntr", "stat", "loop"},
           s.inject.loop \in Nat, s.inject.stat \in Nat
    PROVE  LET t == adsp2181_reset(s)
           IN  Shaped(t) /\ Quiet(t) /\ LoopTop(t) /\ MaskKept(t, FALSE)
  <1> DEFINE u == update_mstat(s, 0)
             t == adsp2181_reset(s)
  <1>1. Fields \subseteq DOMAIN u /\ u.inject = s.inject
    BY DEF update_mstat, Fields
  <1>2. t = [u EXCEPT
        !.pc = 0, !.idle = FALSE, !.cntr_valid = FALSE,
        !.loop = NoLoop, !.loop_condition = "EQ",
        !.sstat = {"PC_EMPTY", "COUNT_EMPTY", "STATUS_EMPTY", "LOOP_EMPTY"},
        !.pcs = <<>>, !.cntrs = <<>>, !.stats = <<>>, !.loops = <<>>,
        !.inject.valid = FALSE, !.imask = {}, !.nesting = FALSE,
        !.interrupts_enabled = TRUE, !.irq_state = {}, !.irq_latch = {}]
    BY DEF adsp2181_reset
  <1> HIDE DEF u, t
  <1>3. /\ Fields \subseteq DOMAIN t
        /\ t.loop = NoLoop /\ t.loop_condition = "EQ" /\ t.loops = <<>>
        /\ t.stats = <<>> /\ t.imask = {} /\ t.interrupts_enabled = TRUE
        /\ t.irq_state = {} /\ t.irq_latch = {}
        /\ t.inject = [s.inject EXCEPT !.valid = FALSE]
    BY <1>1, <1>2 DEF Fields
  <1>4. IsSeq(<<>>)
    <2>1. <<>> \in Seq({})
      OBVIOUS
    <2> QED BY <2>1 DEF IsSeq
  <1>5. Shaped(t)
    <2>1. t.loops \in Seq(LoopEntry) /\ t.loop_condition \in Conditions
      BY <1>3 DEF Conditions
    <2>2. /\ DOMAIN t.inject = {"valid", "pc", "cntr", "stat", "loop"}
          /\ t.inject.loop \in Nat /\ t.inject.stat \in Nat
      BY <1>3
    <2>3. t.irq_latch \subseteq Irqs /\ t.irq_state \subseteq Irqs
      BY <1>3
    <2>4. IsSeq(t.stats) /\ t.interrupts_enabled \in BOOLEAN
      BY <1>3, <1>4
    <2> QED BY <1>3, <2>1, <2>2, <2>3, <2>4 DEF Shaped
  <1>6. LoopTop(t)
    BY <1>3 DEF LoopTop, NoLoopEntry
  <1>7. Quiet(t) /\ MaskKept(t, FALSE)
    BY <1>3 DEF Quiet, MaskKept
  <1> QED BY <1>5, <1>6, <1>7 DEF t
-----------------------------------------------------------------------------

(* The invariant of NoneLeftWaiting.                                       *)
Base ==
    /\ Shaped(c) /\ Quiet(c) /\ booted \in BOOLEAN
    /\ phase = "inject" => Shaped(saved)

(* Added to it for LoopsUnwind: the core that is put back after an         *)
(* injection has its loops in order too.                                   *)
LoopInv == LoopTop(c) /\ (phase = "inject" => LoopTop(saved))

(* Added to it for MaskUnwinds.                                            *)
MaskInv == MaskKept(c, booted)

(* What every action does for the three invariants.                        *)
Preserved ==
    /\ Base'
    /\ YieldsOutsideLoops /\ LoopInv => LoopInv'
    /\ /\ WritesFullMask /\ YieldsOutsideRoutines /\ ContinuationUninterrupted
       /\ BootsUnstacked' /\ MaskInv
       => MaskInv'

(* An instruction. The check_irqs at the start of a run finds nothing to   *)
(* do.                                                                     *)
LEMMA StepPreserves ==
    ASSUME Base, InProgram, Step
    PROVE  Preserved
  <1> DEFINE i == Program[c.pc]
             s == Advance(c)
  <1>1. PICK fresh \in BOOLEAN :
            LET f == IF fresh THEN check_irqs(c) ELSE c
            IN  /\ c' = Exec(Advance(f), Program[f.pc])
                /\ booted' = (booted \/ Program[f.pc].op = "imask")
                /\ phase' = "inject" <=> phase = "inject"
                /\ saved' = saved
    BY DEF Step
  <1>2. check_irqs(c) = c
    BY QuietIsUnmoved DEF Base
  <1>3. /\ c' = Exec(s, i)
        /\ booted' = (booted \/ i.op = "imask")
        /\ phase' = "inject" <=> phase = "inject"
        /\ saved' = saved
    BY <1>1, <1>2
  <1>4. /\ Shaped(s) /\ SameIrqs(c, s)
        /\ LoopTop(c) => LoopTop(s)
    BY AdvanceKeeps DEF Base
  <1>5. /\ Quiet(s)
        /\ \A up : MaskKept(c, up) => MaskKept(s, up)
    BY <1>4, SameIrqsKeeps DEF Base
  <1> HIDE DEF s
  <1>6. Stepped(s, Exec(s, i), i)
    BY <1>4, <1>5, ExecSteps DEF InProgram
  <1>7. Stepped(s, c', i)
    BY <1>3, <1>6
  <1> HIDE DEF i
  <1>8. booted' \in BOOLEAN
    BY <1>3
  <1>9. Base'
    BY <1>3, <1>7, <1>8 DEF Base, Stepped
  <1>10. LoopInv => LoopInv'
    BY <1>3, <1>4, <1>7 DEF LoopInv, Stepped
  <1>11. WritesFullMask /\ BootsUnstacked' /\ MaskInv => MaskInv'
    <2> SUFFICES ASSUME WritesFullMask, BootsUnstacked', MaskInv
                 PROVE  MaskInv'
      OBVIOUS
    <2>1. MaskKept(s, booted)
      BY <1>5 DEF MaskInv
    <2>2. booted \in BOOLEAN
      BY DEF Base
    <2>3. booted \/ i.op = "imask" \/ c'.stats = <<>>
      BY <1>3 DEF BootsUnstacked
    <2>4. MaskKept(c', booted \/ i.op = "imask")
      BY <1>7, <2>1, <2>2, <2>3 DEF Stepped
    <2> QED BY <1>3, <2>4 DEF MaskInv
  <1> QED BY <1>9, <1>10, <1>11 DEF Preserved

(* A step of the host that keeps the four properties and ends outside an   *)
(* injection.                                                              *)
LEMMA KeepsPreserves ==
    ASSUME Base, phase' # "inject", booted' = booted, Keeps(c, c')
    PROVE  Preserved
  <1>1. Base'
    BY DEF Base, Keeps
  <1>2. LoopInv => LoopInv'
    BY DEF LoopInv, Keeps
  <1>3. MaskInv => MaskInv'
    BY DEF Base, MaskInv, Keeps
  <1> QED BY <1>1, <1>2, <1>3 DEF Preserved

(* A call injected into an idling core, from adsp2181_call, which notes    *)
(* the depths of the stacks, or from the sample clock, which does not.     *)
LEMMA InjectedCallPreserves ==
    ASSUME Base, phase # "inject", phase' = "host", booted' = booted,
           NEW s, s = discard_stale_synthetic_returns(c),
           NEW u, u = s \/ \E r : u = [s EXCEPT !.inject = r], Shaped(u),
           NEW entry, c' = CallInjected(u, entry)
    PROVE  Preserved
  <1>1. /\ Shaped(s) /\ Quiet(s)
        /\ s = c \/ (c.idle /\ c.inject.valid)
        /\ Len(c.loops) <= c.inject.loop /\ LoopTop(c) => LoopTop(s)
        /\ Len(c.stats) <= c.inject.stat =>
              \A up \in BOOLEAN : MaskKept(c, up) => MaskKept(s, up)
    BY DiscardKeeps DEF Base
  <1>2. /\ u.imask = s.imask /\ u.irq_latch = s.irq_latch
        /\ u.irq_state = s.irq_state
        /\ u.interrupts_enabled = s.interrupts_enabled
        /\ u.stats = s.stats /\ SameLoops(s, u)
    BY <1>1 DEF Shaped, Fields, SameLoops
  <1>3. /\ Quiet(u)
        /\ LoopTop(s) => LoopTop(u)
        /\ \A up : MaskKept(s, up) => MaskKept(u, up)
    BY <1>1, <1>2 DEF Quiet, Requested, LoopTop, SameLoops, MaskKept
  <1>4. Keeps(u, c')
    BY <1>3, CallInjectedCalm, CalmIsKept
  <1>5. Base'
    BY <1>4 DEF Base, Keeps
  <1>6. YieldsOutsideLoops /\ LoopInv => LoopInv'
    BY <1>1, <1>3, <1>4 DEF YieldsOutsideLoops, LoopInv, Keeps
  <1>7. YieldsOutsideRoutines /\ MaskInv => MaskInv'
    BY <1>1, <1>3, <1>4 DEF YieldsOutsideRoutines, MaskInv, Keeps, Base
  <1> QED BY <1>5, <1>6, <1>7 DEF Preserved

(* adsp2181_call.                                                          *)
LEMMA HostCallPreserves ==
    ASSUME Base, NEW entry, HostCall(entry)
    PROVE  Preserved
  <1> DEFINE s == discard_stale_synthetic_returns(c)
             r == [valid |-> TRUE, pc |-> Len(s.pcs), cntr |-> Len(s.cntrs),
                   stat |-> Len(s.stats), loop |-> Len(s.loops)]
             u == [s EXCEPT !.inject = r]
  <1>1. Shaped(s)
    BY DiscardKeeps DEF Base
  <1>2. /\ phase = "host" /\ phase' = "host" /\ booted' = booted
        /\ c' = CallInjected(u, entry)
    BY DEF HostCall
  <1>3. Len(s.stats) \in Nat /\ Len(s.loops) \in Nat
    <2>1. PICK S : s.stats \in Seq(S)
      BY <1>1 DEF Shaped, IsSeq
    <2> QED BY <1>1, <2>1 DEF Shaped
  <1>4. Shaped(u)
    <2> HIDE DEF s
    <2>1. /\ Fields \subseteq DOMAIN u /\ u.inject = r
          /\ u.imask = s.imask /\ u.irq_latch = s.irq_latch
          /\ u.irq_state = s.irq_state
          /\ u.interrupts_enabled = s.interrupts_enabled
          /\ u.stats = s.stats /\ SameLoops(s, u)
      BY <1>1 DEF Shaped, Fields, SameLoops
    <2>2. /\ DOMAIN r = {"valid", "pc", "cntr", "stat", "loop"}
          /\ r.loop \in Nat /\ r.stat \in Nat
      BY <1>3
    <2> HIDE DEF u, r
    <2> QED BY <1>1, <2>1, <2>2 DEF Shaped, SameLoops
  <1> QED BY <1>2, <1>4, InjectedCallPreserves

(* The continuation of a frame that has run to its end.                    *)
LEMMA FrameContinuesPreserves ==
    ASSUME Base, FrameContinues
    PROVE  Preserved
  <1>1. Shaped(discard_stale_synthetic_returns(c))
    BY DiscardKeeps DEF Base
  <1>2. /\ phase # "inject" /\ phase' = "host" /\ booted' = booted
        /\ c' = CallInjected(discard_stale_synthetic_returns(c), Continuation)
    BY DEF FrameContinues
  <1> QED BY <1>1, <1>2, InjectedCallPreserves

(* adsp2181_set_irq.                                                       *)
LEMMA SetIrqPreserves ==
    ASSUME Base, NEW i \in Lines, NEW asserted \in BOOLEAN, SetIrq(i, asserted)
    PROVE  Preserved
  <1> DEFINE latch == IF asserted /\ i \notin c.irq_state
                      THEN c.irq_latch \cup {i} ELSE c.irq_latch
             lines == IF asserted THEN c.irq_state \cup {i}
                      ELSE c.irq_state \ {i}
  <1>1. /\ phase' = "host" /\ booted' = booted
        /\ c' = check_irqs([c EXCEPT !.irq_latch = latch,
                                     !.irq_state = lines])
    BY DEF SetIrq, set_irq
  <1>2. latch \subseteq Irqs /\ lines \subseteq Irqs
    BY AdspAssumption DEF Base, Shaped, Irqs
  <1> HIDE DEF latch, lines
  <1>3. Keeps(c, c')
    BY <1>1, <1>2, RequestedFields DEF Base
  <1> QED BY <1>1, <1>3, KeepsPreserves

(* The SPORT0 edge: the line falls again after the interrupts have been    *)
(* looked at, which requests nothing new.                                  *)
LEMMA ModemSamplePreserves ==
    ASSUME Base, ModemSample
    PROVE  Preserved
  <1> DEFINE latch == c.irq_latch \cup {SampleIrq}
             lines == c.irq_state \cup {SampleIrq}
             k == check_irqs([c EXCEPT !.irq_latch = latch,
                                       !.irq_state = lines])
  <1>1. /\ phase' \in {"frame", "masked"} /\ booted' = booted
        /\ c' = [k EXCEPT !.irq_state = @ \ {SampleIrq}]
    BY DEF ModemSample
  <1>2. latch \subseteq Irqs /\ lines \subseteq Irqs
    BY AdspAssumption DEF Base, Shaped, Irqs
  <1>3. Keeps(c, k)
    <2> HIDE DEF latch, lines
    <2> QED BY <1>2, RequestedFields DEF Base
  <1> HIDE DEF k
  <1>4. /\ Fields \subseteq DOMAIN c'
        /\ c'.imask = k.imask /\ c'.irq_latch = k.irq_latch
        /\ c'.irq_state = k.irq_state \ {SampleIrq}
        /\ c'.interrupts_enabled = k.interrupts_enabled
        /\ c'.stats = k.stats /\ c'.inject = k.inject /\ SameLoops(k, c')
    BY <1>1, <1>3 DEF Keeps, Shaped, Fields, SameLoops
  <1>5. Shaped(c')
    BY <1>3, <1>4 DEF Keeps, Shaped, SameLoops
  <1>6. Quiet(c')
    BY <1>3, <1>4 DEF Keeps, Quiet, Requested
  <1>7. LoopTop(k) => LoopTop(c')
    BY <1>4 DEF LoopTop, SameLoops
  <1>8. \A up \in BOOLEAN : MaskKept(k, up) => MaskKept(c', up)
    BY <1>4 DEF MaskKept
  <1>9. Keeps(c, c')
    BY <1>3, <1>5, <1>6, <1>7, <1>8 DEF Keeps
  <1>10. phase' # "inject"
    BY <1>1
  <1> QED BY <1>1, <1>9, <1>10, KeepsPreserves

(* The core is saved as it is.                                             *)
LEMMA InjectPreserves ==
    ASSUME Base, Inject
    PROVE  Preserved
  <1> DEFINE p == pc_stack_push_val(c, KernelIdle)
  <1>1. /\ saved' = c /\ booted' = booted
        /\ c' = [p EXCEPT !.pc = Continuation]
    BY DEF Inject
  <1>2. Calm(c, p)
    BY PushPcCalm DEF Base
  <1> HIDE DEF p
  <1>3. Calm(c, c')
    BY <1>1, <1>2 DEF Calm, SameIrqs, SameLoops, Fields
  <1>4. Keeps(c, c')
    BY <1>3, CalmIsKept DEF Base
  <1>5. Base'
    BY <1>1, <1>4 DEF Base, Keeps
  <1>6. LoopInv => LoopInv'
    BY <1>1, <1>4 DEF LoopInv, Keeps
  <1>7. MaskInv => MaskInv'
    BY <1>1, <1>4 DEF Base, MaskInv, Keeps
  <1> QED BY <1>5, <1>6, <1>7 DEF Preserved

(* The loops come back from the saved core; the interrupt control stays as *)
(* the continuation left it.                                               *)
LEMMA InjectEndsPreserves ==
    ASSUME Base, InjectEnds
    PROVE  Preserved
  <1>1. /\ phase = "inject" /\ phase' = "host" /\ booted' = booted
        /\ c' = Restored(c)
    BY DEF InjectEnds
  <1>2. Shaped(saved) /\ Shaped(c)
    BY <1>1 DEF Base
  <1>3. /\ Fields \subseteq DOMAIN c'
        /\ c'.imask = c.imask /\ c'.irq_latch = c.irq_latch
        /\ c'.irq_state = c.irq_state
        /\ c'.interrupts_enabled = c.interrupts_enabled
        /\ c'.stats = saved.stats /\ c'.inject = saved.inject
        /\ SameLoops(saved, c')
    BY <1>1, <1>2 DEF Restored, Shaped, Fields, SameLoops
  <1>4. Shaped(c')
    BY <1>2, <1>3 DEF Shaped, SameLoops
  <1>5. Quiet(c')
    BY <1>3 DEF Base, Quiet, Requested
  <1>6. Base'
    BY <1>1, <1>4, <1>5 DEF Base
  <1>7. LoopInv => LoopInv'
    BY <1>1, <1>3 DEF LoopInv, LoopTop, SameLoops
  <1>8. ContinuationUninterrupted /\ MaskInv => MaskInv'
    BY <1>1, <1>3 DEF ContinuationUninterrupted, MaskInv, MaskKept
  <1> QED BY <1>6, <1>7, <1>8 DEF Preserved

(* adsp2181_reset.                                                         *)
LEMMA ResetPreserves ==
    ASSUME Base, Reset
    PROVE  Preserved
  <1>1. /\ phase' = "host" /\ booted' = FALSE /\ c' = adsp2181_reset(c)
    BY DEF Reset
  <1>2. Shaped(c') /\ Quiet(c') /\ LoopTop(c') /\ MaskKept(c', FALSE)
    BY <1>1, ResetOK DEF Base, Shaped
  <1> QED BY <1>1, <1>2 DEF Preserved, Base, LoopInv, MaskInv

(* One step per action.                                                    *)
LEMMA NextPreserves ==
    ASSUME Base, InProgram, [Next]_vars
    PROVE  Preserved
  <1>1. CASE Step
    BY <1>1, StepPreserves
  <1>2. ASSUME NEW entry \in driver, HostCall(entry)
        PROVE  Preserved
    BY <1>2, HostCallPreserves
  <1>3. ASSUME NEW i \in Lines, NEW asserted \in BOOLEAN, SetIrq(i, asserted)
        PROVE  Preserved
    BY <1>3, SetIrqPreserves
  <1>4. CASE ModemSample
    BY <1>4, ModemSamplePreserves
  <1>5. CASE FrameContinues
    BY <1>5, FrameContinuesPreserves
  <1>6. CASE FrameEnds
    <2>1. c' = c /\ phase' = "host" /\ booted' = booted
      BY <1>6 DEF FrameEnds
    <2>2. Keeps(c, c')
      BY <2>1 DEF Keeps, Base
    <2> QED BY <2>1, <2>2, KeepsPreserves
  <1>7. CASE Inject
    BY <1>7, InjectPreserves
  <1>8. CASE InjectEnds
    BY <1>8, InjectEndsPreserves
  <1>9. CASE Reset
    BY <1>9, ResetPreserves
  <1>10. CASE UNCHANGED vars
    BY <1>10 DEF vars, Preserved, Base, LoopInv, MaskInv
  <1> QED BY <1>1, <1>2, <1>3, <1>4, <1>5, <1>6, <1>7, <1>8, <1>9, <1>10
          DEF Next

(* adsp2181_create.                                                        *)
LEMMA InitOK ==
    ASSUME Init
    PROVE  Base /\ LoopInv /\ MaskInv
  <1> DEFINE z ==
             [pc |-> 0, idle |-> FALSE, loop |-> NoLoop, loop_condition |-> "EQ",
              cntr |-> 0, cntr_valid |-> FALSE,
              astat |-> [z |-> 0, n |-> 0, v |-> 0, c |-> 0, q |-> 0],
              bank |-> 0, core |-> ZeroBank, alt |-> ZeroBank,
              pcs |-> <<>>, bottom |-> 0, cntrs |-> <<>>, loops |-> <<>>,
              stats |-> <<>>, sstat |-> {}, imask |-> {}, nesting |-> FALSE,
              interrupts_enabled |-> TRUE, irq_latch |-> {}, irq_state |-> {},
              inject |-> NotInjected]
  <1>1. c = adsp2181_reset(z) /\ phase = "host" /\ booted = FALSE
    BY DEF Init
  <1>2. Fields \subseteq DOMAIN z /\ z.inject = NotInjected
    BY DEF Fields
  <1>3. /\ DOMAIN NotInjected = {"valid", "pc", "cntr", "stat", "loop"}
        /\ NotInjected.loop \in Nat /\ NotInjected.stat \in Nat
    BY DEF NotInjected
  <1> HIDE DEF z
  <1>4. Shaped(c) /\ Quiet(c) /\ LoopTop(c) /\ MaskKept(c, FALSE)
    BY <1>1, <1>2, <1>3, ResetOK
  <1> QED BY <1>1, <1>4 DEF Base, LoopInv, MaskInv

-----------------------------------------------------------------------------

(* NoneOverlooked, for every firmware, priority assignment, choice of      *)
(* level-sensitive and latched interrupts, and word size: an interrupt     *)
(* that is requested and enabled is taken at once, by whatever enabled it  *)
(* (RTI, POP STS, IMASK, ICNTL, IFC, ENA INTS, adsp2181_set_irq, the       *)
(* sample clock, the core put back after an injection). The check at the   *)
(* start of a run of execute() is never the one that takes it.             *)
THEOREM NoneLeftWaiting ==
    Spec /\ []InProgram => []NoneOverlooked
  <1>1. Init => Base
    BY InitOK
  <1>2. Base /\ InProgram /\ [Next]_vars => Base'
    BY NextPreserves DEF Preserved
  <1>3. Base => NoneOverlooked
    BY QuietIsUnmoved DEF Base, NoneOverlooked
  <1> QED BY <1>1, <1>2, <1>3, PTL DEF Spec

(* LoopIsOnStack, for every firmware that yields outside its loops: loop   *)
(* and loop_condition are those of the innermost DO loop through           *)
(* interrupts, injections, POP LOOP, calls onto unfinished work, abandoned *)
(* calls, resets and pushes dropped on a full stack. Run adsp_discard      *)
(* shows that the hypothesis is needed: discard_stale_synthetic_returns    *)
(* lowers the stack and not the registers.                                 *)
THEOREM LoopsUnwind ==
    Spec /\ []InProgram /\ []YieldsOutsideLoops => []LoopIsOnStack
  <1>1. Init => Base /\ LoopInv
    BY InitOK
  <1>2. Base /\ LoopInv /\ InProgram /\ YieldsOutsideLoops /\ [Next]_vars
        => (Base /\ LoopInv)'
    BY NextPreserves DEF Preserved
  <1>3. LoopInv => LoopIsOnStack
    BY DEF LoopInv, LoopTop, LoopIsOnStack
  <1> QED BY <1>1, <1>2, <1>3, PTL DEF Spec

(* MaskComesBack, for every firmware that writes one mask, before it uses  *)
(* the status stack, yields outside interrupt routines and has a           *)
(* continuation no interrupt cuts into: outside interrupt routines the     *)
(* mask is the one that was written, at any depth of nesting and even when *)
(* the status stack overflowed.                                            *)
THEOREM MaskUnwinds ==
    ASSUME WritesFullMask
    PROVE  /\ Spec
           /\ []InProgram
           /\ []YieldsOutsideRoutines
           /\ []ContinuationUninterrupted
           /\ []BootsUnstacked
           => []MaskComesBack
  <1>1. Init => Base /\ MaskInv
    BY InitOK
  <1>2. /\ Base /\ MaskInv
        /\ InProgram /\ YieldsOutsideRoutines /\ ContinuationUninterrupted
        /\ BootsUnstacked' /\ [Next]_vars
        => (Base /\ MaskInv)'
    BY NextPreserves DEF Preserved
  <1>3. MaskInv => MaskComesBack
    BY DEF MaskInv, MaskKept, MaskComesBack
  <1> QED BY <1>1, <1>2, <1>3, PTL DEF Spec
=============================================================================

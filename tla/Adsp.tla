-------------------------------- MODULE Adsp --------------------------------
(***************************************************************************)
(* The ADSP-2181 core of tools/adsp2181emu: the program sequencer (four    *)
(* hardware stacks, zero-overhead loops, prioritised interrupts, two       *)
(* register banks), the ALU and divide instructions that carry flags from  *)
(* one instruction to the next, and the host's side of it: calls injected  *)
(* into an idling kernel (adsp2181_call), interrupt lines, and the sample  *)
(* clock that runs a continuation on top of a frame that did not finish    *)
(* (adsp2181_modem_sample).                                                *)
(*                                                                         *)
(* A step is one turn of the loop of execute(); the cycle allowance is     *)
(* abstracted: the host may stop the core after any instruction. Program   *)
(* memory is the constant Program, an instruction being a record whose     *)
(* fields are what the core decodes from the opcode. Words have W bits,    *)
(* 16 in the core.                                                         *)
(***************************************************************************)
EXTENDS Integers, Sequences, FiniteSets

CONSTANTS
    W,             \* bits of a word (16)
    Program,       \* program memory: address -> decoded instruction
    KernelIdle,    \* the resident IDLE, the return address of injected calls
    Drivers,       \* for each driver, the task entry points it calls
    Continuation,  \* entry point adsp2181_modem_sample runs every sample
    Operands,      \* for each driver, what data memory may hold
    Priority,      \* interrupt -> its priority, 0 the highest
    Level,         \* the level-sensitive interrupts; the others are latched
    SampleIrq,     \* the interrupt of the sample clock (SPORT0_RX)
    Lines,         \* the interrupts a driver raises with adsp2181_set_irq
    PC_STACK_DEPTH, CNTR_STACK_DEPTH, STAT_STACK_DEPTH, LOOP_STACK_DEPTH,
    MaxFaults      \* bound on resets and on runs that end on their budget, not
                   \* on IDLE, together

ASSUME AdspAssumption ==
    /\ W \in Nat \ {0}
    /\ {PC_STACK_DEPTH, CNTR_STACK_DEPTH,
        STAT_STACK_DEPTH, LOOP_STACK_DEPTH} \subseteq Nat \ {0}
    /\ {0, KernelIdle, Continuation} \cup UNION Drivers \subseteq DOMAIN Program
    /\ Priority \in [DOMAIN Priority -> Nat]
    /\ SampleIrq \in DOMAIN Priority \ Level
    /\ Lines \subseteq DOMAIN Priority
    /\ MaxFaults \in Nat

Conditions == {"T", "AC", "EQ", "CE"}
Opcodes == {"idle", "jump", "call", "return", "do", "stack", "ints", "bank",
            "imask", "icntl", "ifc", "cntr", "read", "move", "alu", "divs",
            "divq"}

(* Program memory holds instructions of the forms modelled here.           *)
ASSUME ProgramAssumption ==
    \A a \in DOMAIN Program :
        LET i == Program[a] IN
        /\ i.op \in Opcodes
        /\ i.op \in {"jump", "call", "return", "do"} => i.cond \in Conditions
        /\ i.op = "do" => i.end \in Int
        /\ i.op = "return" => i.rti \in BOOLEAN
        /\ i.op = "ints" => i.on \in BOOLEAN
        /\ i.op = "stack" => /\ {i.pc, i.loop, i.cntr} \subseteq BOOLEAN
                             /\ i.sts \in {"none", "push", "pop"}
        /\ i.op = "ifc" => i.force \subseteq DOMAIN Priority

VARIABLES
    c,       \* adsp2100_state
    dm,      \* data memory: the operand words of the tasks
    driver,  \* the entry points this card's driver calls
    phase,   \* "host", or where adsp2181_modem_sample is: "frame", "masked"
             \* (a frame that an idling core was given and did not take up),
             \* "inject"
    saved,   \* the state adsp2181_modem_sample keeps while it injects
    task,    \* history: entry of the last call, once the core was given it
    booted,  \* history: the program has written IMASK since the last reset
    truncated, \* runs since the last reset that ended on their budget and were
               \* followed by a call (the driver's truncated_frames)
    resets

vars == <<c, dm, driver, phase, saved, task, booted, truncated, resets>>

Irqs == DOMAIN Priority
Word == 0 .. 2^W - 1
NoLoop == -1            \* 0xffff, an address no instruction has
NothingSaved == [nothing |-> TRUE]

(***************************************************************************)
(* Stacks. A push on a full stack is dropped and noted in SSTAT.           *)
(***************************************************************************)

pc_stack_top(s) == IF s.pcs = <<>> THEN s.bottom ELSE s.pcs[Len(s.pcs)]

pc_stack_push_val(s, v) ==
    IF Len(s.pcs) < PC_STACK_DEPTH
    THEN [s EXCEPT !.pcs = Append(@, v), !.sstat = @ \ {"PC_EMPTY"},
                   !.bottom = IF s.pcs = <<>> THEN v ELSE @]
    ELSE [s EXCEPT !.sstat = @ \cup {"PC_OVER"}]

(* The EMPTY bit a pop sets: the entry taken was the last, or there was    *)
(* none.                                                                   *)
Emptied(stack, bit) == IF Len(stack) <= 1 THEN {bit} ELSE {}

Dropped(stack) == SubSeq(stack, 1, Len(stack) - 1)

pc_stack_pop_val(s) ==
    [s EXCEPT !.pcs = Dropped(@),
              !.sstat = @ \cup Emptied(s.pcs, "PC_EMPTY")]

pc_stack_pop(s) ==
    [pc_stack_pop_val(s) EXCEPT
        !.pc = IF s.pcs = <<>> THEN @ ELSE s.pcs[Len(s.pcs)]]

cntr_stack_push(s) ==
    IF Len(s.cntrs) < CNTR_STACK_DEPTH
    THEN [s EXCEPT !.cntrs = Append(@, s.cntr), !.sstat = @ \ {"COUNT_EMPTY"}]
    ELSE [s EXCEPT !.sstat = @ \cup {"COUNT_OVER"}]

cntr_stack_pop(s) ==
    [s EXCEPT !.cntrs = Dropped(@),
              !.sstat = @ \cup Emptied(s.cntrs, "COUNT_EMPTY"),
              !.cntr = IF s.cntrs = <<>> THEN @ ELSE s.cntrs[Len(s.cntrs)],
              !.cntr_valid = s.cntrs # <<>>]

wr_cntr(s, v) ==
    [(IF s.cntr_valid THEN cntr_stack_push(s) ELSE s) EXCEPT
        !.cntr = v, !.cntr_valid = TRUE]

loop_stack_push(s, end, cond) ==
    IF Len(s.loops) < LOOP_STACK_DEPTH
    THEN [s EXCEPT !.loops = Append(@, [end |-> end, cond |-> cond]),
                   !.loop = end, !.loop_condition = cond,
                   !.sstat = @ \ {"LOOP_EMPTY"}]
    ELSE [s EXCEPT !.sstat = @ \cup {"LOOP_OVER"}]

NoLoopEntry == [end |-> NoLoop, cond |-> "EQ"]

(* Mutant: the loop register is cleared, the enclosing loop forgotten. *)
loop_stack_pop_forgets(s) ==
    [s EXCEPT !.loops = Dropped(@), !.loop = NoLoop, !.loop_condition = "EQ",
              !.sstat = @ \cup Emptied(s.loops, "LOOP_EMPTY")]

loop_stack_pop(s) ==
    LET outer == IF Len(s.loops) > 1 THEN s.loops[Len(s.loops) - 1]
                 ELSE NoLoopEntry
    IN  IF s.loops = <<>> THEN s
        ELSE [s EXCEPT !.loops = Dropped(@),
                       !.loop = outer.end, !.loop_condition = outer.cond,
                       !.sstat = @ \cup Emptied(s.loops, "LOOP_EMPTY")]

stat_stack_push(s) ==
    IF Len(s.stats) < STAT_STACK_DEPTH
    THEN [s EXCEPT !.stats = Append(@, [bank |-> s.bank, imask |-> s.imask,
                                        astat |-> s.astat]),
                   !.sstat = @ \ {"STATUS_EMPTY"}]
    ELSE [s EXCEPT !.sstat = @ \cup {"STATUS_OVER"}]

(***************************************************************************)
(* MSTAT and the interrupt controller                                      *)
(***************************************************************************)

update_mstat(s, bank) ==
    IF bank = s.bank THEN s
    ELSE [s EXCEPT !.bank = bank, !.core = s.alt, !.alt = s.core]

Vector(i) == 4 + 4 * Priority[i]

(* What a taken interrupt leaves enabled: with nesting, what is above it.  *)
MaskFor(s, i) ==
    IF s.nesting THEN {j \in s.imask : Priority[j] < Priority[i]} ELSE {}

(* Mutant: the status is pushed after the mask has been narrowed. *)
generate_irq_late_push(s, i) ==
    [stat_stack_push([pc_stack_push_val(s, s.pc) EXCEPT
                        !.imask = MaskFor(s, i)]) EXCEPT
        !.irq_latch = @ \ {i}, !.pc = Vector(i), !.idle = FALSE]

generate_irq(s, i) ==
    [stat_stack_push(pc_stack_push_val(s, s.pc)) EXCEPT
        !.irq_latch = @ \ {i}, !.pc = Vector(i), !.idle = FALSE,
        !.imask = MaskFor(s, i)]

Requested(s) == (s.irq_state \cap Level) \cup (s.irq_latch \ Level)

check_irqs(s) ==
    LET ready == IF s.interrupts_enabled THEN Requested(s) \cap s.imask ELSE {}
    IN  IF ready = {} THEN s
        ELSE generate_irq(s, CHOOSE i \in ready :
                                \A j \in ready : Priority[i] <= Priority[j])

(* Mutant: the arithmetic flags are not brought back. *)
stat_stack_pop_keeps_astat(s) ==
    IF s.stats = <<>> THEN s
    ELSE LET top == s.stats[Len(s.stats)]
         IN  check_irqs([update_mstat(s, top.bank) EXCEPT
                            !.stats = Dropped(@), !.imask = top.imask,
                            !.sstat = @ \cup Emptied(s.stats, "STATUS_EMPTY")])

stat_stack_pop(s) ==
    IF s.stats = <<>> THEN [s EXCEPT !.sstat = @ \cup {"STATUS_EMPTY"}]
    ELSE LET top == s.stats[Len(s.stats)]
         IN  check_irqs([update_mstat(s, top.bank) EXCEPT
                            !.stats = Dropped(@), !.imask = top.imask,
                            !.astat = top.astat,
                            !.sstat = @ \cup Emptied(s.stats, "STATUS_EMPTY")])

(***************************************************************************)
(* Conditions. CE decrements the counter and pops it when it expires, so a *)
(* test yields its verdict and the state it leaves.                        *)
(***************************************************************************)

Verdict(ok, s) == [ok |-> ok, s |-> s]

CONDITION(s, cond) ==
    CASE cond = "T"  -> Verdict(TRUE, s)
      [] cond = "AC" -> Verdict(s.astat.c = 1, s)
      [] cond = "EQ" -> Verdict(s.astat.z = 1, s)
      [] cond = "CE" -> IF s.cntr > 1
                        THEN Verdict(TRUE, [s EXCEPT !.cntr = @ - 1])
                        ELSE Verdict(FALSE,
                                 cntr_stack_pop([s EXCEPT !.cntr = @ - 1]))

(***************************************************************************)
(* Arithmetic. \div and % round to minus infinity, so they read the bits   *)
(* of a two's complement result as the core's shifts and masks do.         *)
(***************************************************************************)

Bit(n, k) == (n \div 2^k) % 2
Msb(n) == Bit(n, W - 1)
Trunc(n) == n % 2^W
Signed(n) == IF Msb(n) = 1 THEN n - 2^W ELSE n

CALC_NZ(s, r) ==
    [s EXCEPT !.astat = [@ EXCEPT !.z = IF Trunc(r) = 0 THEN 1 ELSE 0,
                                  !.n = Msb(r), !.v = 0, !.c = 0]]

CALC_NZVC(s, x, y, r) ==
    [CALC_NZ(s, r) EXCEPT
        !.astat.v = (Msb(x) + Msb(y) + Msb(r) + Bit(r, W)) % 2,
        !.astat.c = Bit(r, W)]

(* Mutant: the result is stored without its mask to a word. *)
DecrementUnmasked(s, y) ==
    [CALC_NZ(s, y - 1) EXCEPT
        !.core.ar = y - 1,
        !.astat.v = IF y = 2^(W - 1) THEN 1 ELSE 0,
        !.astat.c = 1 - Bit(y - 1, W)]

(* Mutant: the carry of Y - 1 as MAME had it, set only by Y = 0. *)
DecrementMame(s, y) ==
    [CALC_NZ(s, y - 1) EXCEPT
        !.core.ar = Trunc(y - 1),
        !.astat.v = IF y = 2^(W - 1) THEN 1 ELSE 0,
        !.astat.c = IF y = 0 THEN 1 ELSE 0]

Decrement(s, y) ==
    [CALC_NZ(s, y - 1) EXCEPT
        !.core.ar = Trunc(y - 1),
        !.astat.v = IF y = 2^(W - 1) THEN 1 ELSE 0,
        !.astat.c = 1 - Bit(y - 1, W)]

(* alu_op_ar: the sums and the decrement, result in AR. The second operand *)
(* of X + Y + C takes the carry in before the flags are computed.          *)
alu_op_ar(s, i) ==
    LET x == s.core[i.x]
        y == s.core[i.y] + (IF i.f = "X+Y+C" THEN s.astat.c ELSE 0)
    IN  IF i.f = "Y-1" THEN Decrement(s, y)
        ELSE [CALC_NZVC(s, x, y, x + y) EXCEPT !.core.ar = Trunc(x + y)]

(* DIVS AY1, X: the sign of the quotient, and the first shift.             *)
DIVS(s, i) ==
    LET x == s.core[i.x]
        y == s.core.ay1
        sign == (Msb(x) + Msb(y)) % 2
    IN  [s EXCEPT !.astat.q = sign,
                  !.core.af = Trunc(2 * y + Msb(s.core.ay0)),
                  !.core.ay0 = Trunc(2 * @ + sign)]

(* DIVQ X: one quotient bit, adding or subtracting as Q says.              *)
DIVQ(s, i) ==
    LET x == s.core[i.x]
        r == s.core.af + (IF s.astat.q = 1 THEN x ELSE -x)
        q == (Msb(r) + Msb(x)) % 2
    IN  [s EXCEPT !.astat.q = q,
                  !.core.af = Trunc(2 * r + Msb(s.core.ay0)),
                  !.core.ay0 = Trunc(2 * @ + (1 - q))]

(***************************************************************************)
(* execute(): advance, then the instruction                                *)
(***************************************************************************)

(* The program counter moves on, or, on the last instruction of a loop,    *)
(* the loop's condition decides whether it starts again.                   *)
Advance(s) ==
    LET v == CONDITION(s, s.loop_condition)
        out == pc_stack_pop_val(loop_stack_pop(v.s))
    IN  CASE s.pc # s.loop -> [s EXCEPT !.pc = @ + 1]
          [] s.pc = s.loop /\ v.ok -> [v.s EXCEPT !.pc = pc_stack_top(v.s)]
          [] s.pc = s.loop /\ ~v.ok -> [out EXCEPT !.pc = @ + 1]

Jump(s, i) == LET v == CONDITION(s, i.cond)
              IN  IF v.ok THEN [v.s EXCEPT !.pc = i.to] ELSE v.s

Call(s, i) == LET v == CONDITION(s, i.cond)
              IN  IF v.ok
                  THEN [pc_stack_push_val(v.s, v.s.pc) EXCEPT !.pc = i.to]
                  ELSE v.s

Return(s, i) == LET v == CONDITION(s, i.cond)
                    back == pc_stack_pop(v.s)
                IN  CASE ~v.ok -> v.s
                      [] v.ok /\ i.rti -> stat_stack_pop(back)
                      [] v.ok /\ ~i.rti -> back

DoUntil(s, i) ==
    LET l == loop_stack_push(s, i.end, i.cond)
    IN  pc_stack_push_val(l, l.pc)

(* Stack control: POP PC, POP LOOP, POP CNTR, PUSH STS and POP STS, in any *)
(* combination, in this order.                                             *)
StackControl(s, i) ==
    LET p == IF i.pc THEN pc_stack_pop_val(s) ELSE s
        l == IF i.loop THEN loop_stack_pop(p) ELSE p
        n == IF i.cntr THEN cntr_stack_pop(l) ELSE l
    IN  CASE i.sts = "none" -> n
          [] i.sts = "push" -> stat_stack_push(n)
          [] i.sts = "pop" -> stat_stack_pop(n)

(* Mutant: ENA INTS enables the interrupts and does not look at them. *)
IntsUnchecked(s, i) == [s EXCEPT !.interrupts_enabled = i.on]

Ints(s, i) == LET e == [s EXCEPT !.interrupts_enabled = i.on]
              IN  IF i.on THEN check_irqs(e) ELSE e

(* ENA and DIS SEC_REG.                                                    *)
ModeControl(s, i) == update_mstat(s, i.bank)

wr_imask(s, v) == check_irqs([s EXCEPT !.imask = v])
wr_icntl(s, nesting) == check_irqs([s EXCEPT !.nesting = nesting])

(* IFC clears latched requests, then forces some.                          *)
wr_ifc(s, i) ==
    check_irqs([s EXCEPT !.irq_latch = (@ \ i.clear) \cup i.force])

Exec(s, i) ==
    CASE i.op = "idle" -> [s EXCEPT !.idle = TRUE]
      [] i.op = "jump" -> Jump(s, i)
      [] i.op = "call" -> Call(s, i)
      [] i.op = "return" -> Return(s, i)
      [] i.op = "do" -> DoUntil(s, i)
      [] i.op = "stack" -> StackControl(s, i)
      [] i.op = "ints" -> Ints(s, i)
      [] i.op = "bank" -> ModeControl(s, i)
      [] i.op = "imask" -> wr_imask(s, i.val)
      [] i.op = "icntl" -> wr_icntl(s, i.nesting)
      [] i.op = "ifc" -> wr_ifc(s, i)
      [] i.op = "cntr" -> wr_cntr(s, i.val)
      [] i.op = "read" -> [s EXCEPT !.core[i.dst] = dm[i.dst]]
      [] i.op = "move" -> [s EXCEPT !.core[i.dst] = s.core[i.src]]
      [] i.op = "alu" -> alu_op_ar(s, i)
      [] i.op = "divs" -> DIVS(s, i)
      [] i.op = "divq" -> DIVQ(s, i)

(* One turn of execute()'s loop, in a run of the host's, of the sample     *)
(* frame or of the injected continuation. Only the first turn of a run     *)
(* looks at the interrupts. IDLE ends a run; the flag it sets is not looked*)
(* at, so a new run goes past the IDLE with the flag still set, until an   *)
(* interrupt or a call clears it.                                          *)
Step ==
    /\ phase \in {"host", "masked"} \/ ~c.idle
    /\ \E fresh \in BOOLEAN :
        LET s == IF fresh THEN check_irqs(c) ELSE c
            i == Program[s.pc]
        IN  /\ c' = Exec(Advance(s), i)
            /\ phase' = IF phase = "masked" /\ (i.op = "idle" \/ ~c'.idle)
                        THEN "frame" ELSE phase
            /\ booted' = (booted \/ i.op = "imask")
            /\ UNCHANGED <<dm, driver, saved, task, truncated, resets>>

(***************************************************************************)
(* The host                                                                *)
(***************************************************************************)

(* Mutant: what an abandoned call left on the stacks stays there. *)
discard_nothing(s) == s

Cut(stack, depth) == SubSeq(stack, 1, IF Len(stack) > depth THEN depth
                                      ELSE Len(stack))

discard_stale_synthetic_returns(s) ==
    IF /\ s.idle
       /\ s.inject.valid
       /\ Len(s.pcs) > s.inject.pc
       /\ s.pcs[s.inject.pc + 1] = KernelIdle
    THEN [s EXCEPT !.pcs = Cut(@, s.inject.pc),
                   !.cntrs = Cut(@, s.inject.cntr),
                   !.stats = Cut(@, s.inject.stat),
                   !.loops = Cut(@, s.inject.loop),
                   !.sstat = (@ \ {"PC_OVER"})
                             \cup IF s.inject.pc = 0 THEN {"PC_EMPTY"} ELSE {}]
    ELSE s

NotInjected == [valid |-> FALSE, pc |-> 0, cntr |-> 0, stat |-> 0, loop |-> 0]

(* Enter a routine with the kernel's IDLE as its return address.           *)
CallInjected(s, entry) ==
    [pc_stack_push_val(s, KernelIdle) EXCEPT !.pc = entry, !.idle = FALSE]

(* adsp2181_call: a driver calls a task, whether or not its last run ended *)
(* in IDLE. When it ended on its budget the core is still inside a task,   *)
(* and the call goes on top of it.                                         *)
HostCall(entry) ==
    LET s == discard_stale_synthetic_returns(c)
    IN  /\ phase = "host"
        /\ ~c.idle => truncated + resets < MaxFaults
        /\ c' = CallInjected(
                  [s EXCEPT !.inject = [valid |-> TRUE,
                       pc |-> Len(s.pcs), cntr |-> Len(s.cntrs),
                       stat |-> Len(s.stats), loop |-> Len(s.loops)]], entry)
        /\ task' = entry
        /\ truncated' = IF c.idle THEN truncated ELSE truncated + 1
        /\ UNCHANGED <<dm, driver, phase, saved, booted, resets>>

(* adsp2181_set_irq: a rising edge is latched, the line keeps its level.   *)
set_irq(s, i, asserted) ==
    check_irqs(
        [s EXCEPT !.irq_latch = IF asserted /\ i \notin s.irq_state
                                THEN @ \cup {i} ELSE @,
                  !.irq_state = IF asserted THEN @ \cup {i} ELSE @ \ {i}])

SetIrq(i, asserted) ==
    /\ phase = "host"
    /\ asserted # (i \in c.irq_state)
    /\ c' = set_irq(c, i, asserted)
    /\ UNCHANGED <<dm, driver, phase, saved, task, booted, truncated, resets>>

(* adsp2181_modem_sample begins with a SPORT0 frame: one edge, one run,    *)
(* which goes past an IDLE whose SPORT0 interrupt is masked.               *)
ModemSample ==
    /\ phase = "host" /\ booted
    /\ c' = [check_irqs([c EXCEPT !.irq_latch = @ \cup {SampleIrq},
                                  !.irq_state = @ \cup {SampleIrq}])
                EXCEPT !.irq_state = @ \ {SampleIrq}]
    /\ phase' = IF c'.idle THEN "masked" ELSE "frame"
    /\ UNCHANGED <<dm, driver, saved, task, booted, truncated, resets>>

(* The frame has run: the core idles, and the continuation is called.      *)
FrameContinues ==
    /\ phase \in {"frame", "masked"} /\ c.idle
    /\ c' = CallInjected(discard_stale_synthetic_returns(c), Continuation)
    /\ phase' = "host" /\ task' = Continuation
    /\ UNCHANGED <<dm, driver, saved, booted, truncated, resets>>

(* The frame's allowance ran out and continue_non_idle is not set.         *)
FrameEnds ==
    /\ phase = "frame" /\ ~c.idle
    /\ phase' = "host"
    /\ UNCHANGED <<c, dm, driver, saved, task, booted, truncated, resets>>

(* The allowance ran out: the continuation runs on top of the foreground.  *)
Inject ==
    /\ phase = "frame" /\ ~c.idle
    /\ saved' = c
    /\ c' = [pc_stack_push_val(c, KernelIdle) EXCEPT !.pc = Continuation]
    /\ phase' = "inject"
    /\ UNCHANGED <<dm, driver, task, booted, truncated, resets>>

(* Mutant: the flags are left as the continuation computed them. *)
RestoredWithoutFlags(s) ==
    [saved EXCEPT !.imask = s.imask, !.nesting = s.nesting,
                  !.interrupts_enabled = s.interrupts_enabled,
                  !.irq_latch = s.irq_latch, !.irq_state = s.irq_state,
                  !.idle = FALSE, !.astat = s.astat]

(* What is put back after the continuation: all but the interrupt control. *)
Restored(s) ==
    [saved EXCEPT !.imask = s.imask, !.nesting = s.nesting,
                  !.interrupts_enabled = s.interrupts_enabled,
                  !.irq_latch = s.irq_latch, !.irq_state = s.irq_state,
                  !.idle = FALSE]

InjectEnds ==
    /\ phase = "inject"
    /\ c' = Restored(c)
    /\ saved' = NothingSaved
    /\ phase' = "host"
    /\ UNCHANGED <<dm, driver, task, booted, truncated, resets>>

(* adsp2181_reset: registers, counter and arithmetic flags keep their      *)
(* values, in the bank MSTAT = 0 selects.                                  *)
adsp2181_reset(s) ==
    [update_mstat(s, 0) EXCEPT
        !.pc = 0, !.idle = FALSE, !.cntr_valid = FALSE,
        !.loop = NoLoop, !.loop_condition = "EQ",
        !.sstat = {"PC_EMPTY", "COUNT_EMPTY", "STATUS_EMPTY", "LOOP_EMPTY"},
        !.pcs = <<>>, !.cntrs = <<>>, !.stats = <<>>, !.loops = <<>>,
        !.inject.valid = FALSE, !.imask = {}, !.nesting = FALSE,
        !.interrupts_enabled = TRUE, !.irq_state = {}, !.irq_latch = {}]

Reset ==
    /\ phase = "host" /\ truncated + resets < MaxFaults
    /\ c' = adsp2181_reset(c)
    /\ resets' = resets + 1 /\ booted' = FALSE /\ task' = 0 /\ truncated' = 0
    /\ UNCHANGED <<dm, driver, phase, saved>>

(***************************************************************************)
(* Specification                                                           *)
(***************************************************************************)

Registers == {"ax0", "ax1", "ay0", "ay1", "af", "ar", "sr"}
ZeroBank == [r \in Registers |-> 0]

(* adsp2181_create: cleared memory, then a reset.                          *)
Init ==
    /\ c = adsp2181_reset(
             [pc |-> 0, idle |-> FALSE, loop |-> NoLoop, loop_condition |-> "EQ",
              cntr |-> 0, cntr_valid |-> FALSE,
              astat |-> [z |-> 0, n |-> 0, v |-> 0, c |-> 0, q |-> 0],
              bank |-> 0, core |-> ZeroBank, alt |-> ZeroBank,
              pcs |-> <<>>, bottom |-> 0, cntrs |-> <<>>, loops |-> <<>>,
              stats |-> <<>>, sstat |-> {}, imask |-> {}, nesting |-> FALSE,
              interrupts_enabled |-> TRUE, irq_latch |-> {}, irq_state |-> {},
              inject |-> NotInjected])
    /\ driver \in Drivers /\ dm \in Operands[driver]
    /\ phase = "host" /\ saved = NothingSaved
    /\ task = 0 /\ booted = FALSE /\ truncated = 0 /\ resets = 0

Next ==
    \/ Step
    \/ \E entry \in driver : HostCall(entry)
    \/ \E i \in Lines, asserted \in BOOLEAN : SetIrq(i, asserted)
    \/ ModemSample
    \/ FrameContinues
    \/ FrameEnds
    \/ Inject
    \/ InjectEnds
    \/ Reset

Spec == Init /\ [][Next]_vars

(***************************************************************************)
(* Properties                                                              *)
(***************************************************************************)

StackBits == {"PC_EMPTY", "COUNT_EMPTY", "STATUS_EMPTY", "LOOP_EMPTY"}
OverBits == {"PC_OVER", "COUNT_OVER", "STATUS_OVER", "LOOP_OVER"}
Banks == [Registers -> Word]

(* The core stays within its program.                                      *)
InProgram == c.pc \in DOMAIN Program

(* The state keeps its shape; no program address outside the program is    *)
(* ever reached, by a fall-through, a loop or a return.                    *)
TypeOK ==
    /\ InProgram
    /\ c.core \in Banks /\ c.alt \in Banks /\ c.bank \in {0, 1}
    /\ c.sstat \subseteq StackBits \cup OverBits
    /\ c.imask \subseteq Irqs
    /\ c.irq_latch \subseteq Irqs /\ c.irq_state \subseteq Irqs
    /\ phase \in {"host", "frame", "masked", "inject"}
    /\ phase = "inject" <=> saved # NothingSaved
    /\ task \in driver \cup {0, Continuation}
    /\ truncated \in 0 .. MaxFaults /\ resets \in 0 .. MaxFaults

(* The loop the sequencer is in is the one on top of the loop stack, and   *)
(* there is none when the stack is empty: the end address it compares with *)
(* the program counter belongs to a DO that has not finished.              *)
LoopIsOnStack ==
    LET top == IF c.loops = <<>> THEN NoLoopEntry ELSE c.loops[Len(c.loops)]
    IN  c.loop = top.end /\ c.loop_condition = top.cond

(* A firmware that leaves its DO loops before it yields: when the core     *)
(* idles, no loop is open that was not when the host last called it.       *)
YieldsOutsideLoops ==
    phase # "inject" /\ c.idle /\ c.inject.valid
    => Len(c.loops) <= c.inject.loop

(* A firmware that returns from its interrupt routines before it yields.   *)
YieldsOutsideRoutines ==
    phase # "inject" /\ c.idle /\ c.inject.valid
    => Len(c.stats) <= c.inject.stat

(* The continuation injected into an unfinished frame neither enters nor   *)
(* leaves an interrupt routine.                                            *)
ContinuationUninterrupted == phase = "inject" => c.stats = saved.stats

(* A firmware that writes its mask before it uses the status stack.        *)
BootsUnstacked == ~booted => c.stats = <<>>

(* The only mask the firmware writes is the one of all its interrupts.     *)
WritesFullMask ==
    \A a \in DOMAIN Program : Program[a].op = "imask" => Program[a].val = Irqs

(* The stacks unwind. No push is dropped: interrupts, injected calls,      *)
(* continuations and tasks that yield without returning leave no stack to  *)
(* fill up, and the remains of one run that ended on its budget still fit, *)
(* with any number of calls made on top of them. A core that idles again   *)
(* has left every loop and every routine entered since it was called, on   *)
(* top of unfinished work or not, and an injected continuation meets none. *)
StacksUnwind ==
    /\ truncated <= 1 => c.sstat \cap OverBits = {}
    /\ YieldsOutsideLoops /\ YieldsOutsideRoutines
    /\ ContinuationUninterrupted
    /\ truncated = 0 => BootsUnstacked

(* Outside interrupt routines the mask is the one the program wrote: every *)
(* narrowing of it by a taken interrupt, nested or not, has been undone.   *)
MaskComesBack ==
    booted /\ c.stats = <<>> => c.imask = Irqs

(* A requested interrupt that is enabled is never left waiting: whatever   *)
(* enables it (a return, IMASK, ICNTL, ENA INTS) takes it at once.         *)
NoneOverlooked == check_irqs(c) = c
=============================================================================

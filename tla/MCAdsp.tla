------------------------------- MODULE MCAdsp -------------------------------
(***************************************************************************)
(* A firmware for the core: a kernel that sleeps in IDLE, three tasks in   *)
(* the forms the firmware uses, two interrupt routines and a continuation. *)
(***************************************************************************)
EXTENDS Adsp, TLC

Jmp(k) == [op |-> "jump", to |-> k, cond |-> "T"]
JumpIf(cond, k) == [op |-> "jump", to |-> k, cond |-> cond]
CallTo(k) == [op |-> "call", to |-> k, cond |-> "T"]
Rts == [op |-> "return", rti |-> FALSE, cond |-> "T"]
Rti == [op |-> "return", rti |-> TRUE, cond |-> "T"]
Do(end) == [op |-> "do", end |-> end, cond |-> "CE"]
Cntr(n) == [op |-> "cntr", val |-> n]
Stack(out, sts) ==
    [op |-> "stack", pc |-> out, loop |-> out, cntr |-> out, sts |-> sts]
Bank(b) == [op |-> "bank", bank |-> b]
Interrupts(on) == [op |-> "ints", on |-> on]
Read(r) == [op |-> "read", dst |-> r]
Move(r, q) == [op |-> "move", dst |-> r, src |-> q]
Alu(f, x, y) == [op |-> "alu", f |-> f, x |-> x, y |-> y]

IrqPriority == [IRQL1 |-> 1, SPORT0_RX |-> 4]
Sport0Handler == Vector("SPORT0_RX")
LineHandler == Vector("IRQL1")

DivideTask == 40
AddTask == 50
CountTask == 60
SampleCode == 70

(* PM 0..3 boot; 30 is the kernel's IDLE; vectors at 4 + 4 * priority.     *)
Kernel ==
    (0 :> [op |-> "icntl", nesting |-> TRUE])
    @@ (1 :> [op |-> "ifc", clear |-> DOMAIN IrqPriority, force |-> {}])
    @@ (2 :> [op |-> "imask", val |-> DOMAIN IrqPriority])
    @@ (3 :> Jmp(30))
    @@ (30 :> [op |-> "idle"]) @@ (31 :> Jmp(30))
    @@ (LineHandler :> Rti)
    @@ (Sport0Handler :> Bank(1)) @@ (Sport0Handler + 1 :> Cntr(1))
    @@ (Sport0Handler + 2 :> Do(Sport0Handler + 4))
    @@ (Sport0Handler + 3 :> [op |-> "divs", x |-> "ax0"])
    @@ (Sport0Handler + 4 :> Alu("Y-1", "ax0", "ay0"))
    @@ (Sport0Handler + 5 :> Rti)
    @@ (SampleCode :> Cntr(2)) @@ (SampleCode + 1 :> Do(SampleCode + 4))
    @@ (SampleCode + 2 :> Alu("Y-1", "ax0", "ay1"))
    @@ (SampleCode + 3 :> Jmp(SampleCode + 5))
    @@ (SampleCode + 4 :> Move("sr", "ar"))
    @@ (SampleCode + 5 :> Stack(TRUE, "none"))
    @@ (SampleCode + 6 :> Rts)

(* A signed division of AY1:AY0 by AX0, the countdown IF AC JUMP of V8.ANA *)
(* and a double-word sum that yields by jumping to the kernel's IDLE, with *)
(* its return address and a nested one still on the stack.                 *)
Tasks ==
    (DivideTask :> Read("ax0")) @@ (DivideTask + 1 :> Read("ay0"))
    @@ (DivideTask + 2 :> Read("ay1"))
    @@ (DivideTask + 3 :> [op |-> "divs", x |-> "ax0"])
    @@ (DivideTask + 4 :> Cntr(W - 1)) @@ (DivideTask + 5 :> Do(DivideTask + 6))
    @@ (DivideTask + 6 :> [op |-> "divq", x |-> "ax0"])
    @@ (DivideTask + 7 :> Rts)
    @@ (AddTask :> Read("ax0")) @@ (AddTask + 1 :> Read("ay0"))
    @@ (AddTask + 2 :> Read("ax1")) @@ (AddTask + 3 :> Read("ay1"))
    @@ (AddTask + 4 :> Alu("X+Y", "ax0", "ay0"))
    @@ (AddTask + 5 :> Move("sr", "ar"))
    @@ (AddTask + 6 :> Alu("X+Y+C", "ax1", "ay1"))
    @@ (AddTask + 7 :> CallTo(AddTask + 8))
    @@ (AddTask + 8 :> Jmp(30))
    @@ (CountTask :> Interrupts(FALSE)) @@ (CountTask + 1 :> Read("ay0"))
    @@ (CountTask + 2 :> Interrupts(TRUE))
    @@ (CountTask + 3 :> Alu("Y-1", "ax0", "ay0"))
    @@ (CountTask + 4 :> Stack(FALSE, "push"))
    @@ (CountTask + 5 :> Move("ay0", "ar"))
    @@ (CountTask + 6 :> Stack(FALSE, "pop"))
    @@ (CountTask + 7 :> JumpIf("AC", CountTask + 3))
    @@ (CountTask + 8 :> Rts)

Firmware == Kernel @@ Tasks

(* The same firmware, with a division that yields out of its DO loop.      *)
YieldingFirmware ==
    [Firmware EXCEPT ![DivideTask + 6] = Jmp(30)]

ASSUME OneMaskWritten == WritesFullMask

OneTask == {{DivideTask}, {AddTask}, {CountTask}}

(* Data memory: the two double words X = AX1:AX0 and Y = AY1:AY0.          *)
Memory(x1, x0, y1, y0) ==
    [ax1 |-> x1, ax0 |-> x0, ay1 |-> y1, ay0 |-> y0]

(* With W = 3: -17 / 6, the sum 57 + 7 whose carry meets an upper word of  *)
(* all ones, and a countdown from zero.                                    *)
TaskOperands ==
    ({DivideTask} :> {Memory(7, 3, 5, 7)})
    @@ ({AddTask} :> {Memory(7, 1, 0, 7)})
    @@ ({CountTask} :> {Memory(6, 2, 1, 0)})

X == dm.ax1 * 2^W + dm.ax0
Y == dm.ay1 * 2^W + dm.ay0
SignedY == IF Y < 2^(2 * W - 1) THEN Y ELSE Y - 2^(2 * W)

(* A task has run to its end: the kernel it returned to idles.             *)
Finished(entry) == phase = "host" /\ c.idle /\ task = entry

(* The division of a double word by a positive word, within the range of   *)
(* the quotient, leaves the quotient in AY0, rounded down, however many    *)
(* interrupts and injected continuations ran between its DIVQs: the Q flag,*)
(* the counter, the loop and the registers all survive them.               *)
QuotientExact ==
    Finished(DivideTask) /\ Signed(dm.ax0) > 0
    /\ SignedY \div (2 * dm.ax0) \in -2^(W - 1) .. 2^(W - 1) - 1
    => Signed(c.core.ay0) = SignedY \div (2 * dm.ax0)

(* A double-word sum is exact: the carry computed by X + Y reaches the     *)
(* X + Y + C three instructions later through every interrupt between.     *)
SumExact ==
    Finished(AddTask) => c.core.ar * 2^W + c.core.sr = (X + Y) % 2^(2 * W)

(* The countdown AR = AY0 - 1; IF AC JUMP stops when it passes zero, and   *)
(* not before: it leaves all ones and no carry.                            *)
CountdownExact ==
    Finished(CountTask) => c.core.ar = 2^W - 1 /\ c.astat.c = 0
=============================================================================

---------------------------- MODULE FakeRegisters ----------------------------
(***************************************************************************)
(* The emulation of privileged instructions on aarch64                     *)
(* (loader/fake_ins_aarch64.c): an instruction that the host's processor   *)
(* refuses raises SIGILL; the handler decodes it, works on the system      *)
(* registers that the context keeps in memory, and steps over it.          *)
(*                                                                         *)
(* An instruction is a record of what its bits say: op, the system         *)
(* register sys, the general register rt and the immediate imm.            *)
(***************************************************************************)
EXTENDS Naturals, FiniteSets

CONSTANTS
  General,      \* the numbers of general registers that occur; 31 is XZR
  Values,       \* values of registers, 0 among them
  Instructions  \* the instructions that a program meets

VARIABLES
  fake,      \* the context's registers, or NotMade before the first instruction
  general,   \* uc_mcontext.regs; behind register 30 lies the stack pointer
  pc,        \* how far the program counter is behind the instruction: 0 or 4
  crashed,   \* an instruction was left to the crash handler
  asked      \* history: what the program last asked a register to be

fakeVars == <<fake, general, pc, crashed, asked>>

Bits(v) == {i \in 0..3 : (v \div 2 ^ i) % 2 = 1}
Number(bits) == (IF 0 \in bits THEN 1 ELSE 0) + (IF 1 \in bits THEN 2 ELSE 0)
                  + (IF 2 \in bits THEN 4 ELSE 0) + (IF 3 \in bits THEN 8 ELSE 0)

\* sys_reg_maps: what each system register may be used for
WriteOnly == {"pmovsclr_el0", "pmcntenclr_el0", "pmcntenset_el0"}
ReadOnly == {"par_el1", "currentel"}
Both == {"pmccfiltr_el0", "pmuserenr_el0", "pmccntr_el0", "pmcr_el0", "daif", "tpidr_el1", "vbar_el1",
         "mair_el1", "pmintenclr_el1", "sp_el0", "tcr_el1", "ttbr1_el1", "ttbr0_el1", "cpacr_el1",
         "sctlr_el1"}
Registers == WriteOnly \cup ReadOnly \cup Both

\* The registers are made with the first instruction; the program is at EL1 then.
Fresh == [r \in Registers |-> IF r = "currentel" THEN 4 ELSE 0]
NotMade == << >>
Current == IF fake = NotMade THEN Fresh ELSE fake

FakeInit ==
  /\ fake = NotMade /\ pc = 0 /\ crashed = FALSE
  /\ general \in [General -> Values]
  /\ asked = [r \in Registers |-> Fresh[r]]

\* An instruction in a loaded image that was decoded: the program goes on behind it.
Handled(registers) == fake' = registers /\ pc' = 4 /\ crashed' = FALSE

Crash == fake' = Current /\ crashed' = TRUE /\ UNCHANGED <<general, pc, asked>>

\* decode8: the interrupt masks, kept in the lowest bits
MaskInterrupts(ins) ==
  LET Masked(now) ==
        Number(IF ins.op = "daifset" THEN Bits(now) \cup Bits(ins.imm) ELSE Bits(now) \ Bits(ins.imm))
  IN /\ ins.op \in {"daifset", "daifclr"}
     /\ Handled([Current EXCEPT !["daif"] = Masked(@)])
     /\ asked' = [asked EXCEPT !["daif"] = Masked(@)]
     /\ UNCHANGED general

\* Faulty variant of MoveToSystem: the permissions are not looked at.
MoveToAny(ins) ==
  /\ ins.op = "msr"
  /\ IF ins.sys \notin Registers THEN Crash
     ELSE /\ Handled([Current EXCEPT ![ins.sys] = general[ins.rt]])
          /\ asked' = [asked EXCEPT ![ins.sys] = IF ins.sys \in ReadOnly THEN @ ELSE general[ins.rt]]
          /\ UNCHANGED general

\* decode_sysreg, msr: of XZR the value behind the array of registers is taken.
MoveToSystem(ins) ==
  /\ ins.op = "msr"
  /\ IF ins.sys \notin WriteOnly \cup Both THEN Crash
     ELSE /\ Handled([Current EXCEPT ![ins.sys] = general[ins.rt]])
          /\ asked' = [asked EXCEPT ![ins.sys] = general[ins.rt]]
          /\ UNCHANGED general

\* decode_sysreg, mrs
MoveFromSystem(ins) ==
  /\ ins.op = "mrs"
  /\ IF ins.sys \notin ReadOnly \cup Both THEN Crash
     ELSE /\ Handled(Current)
          /\ general' = [general EXCEPT ![ins.rt] = Current[ins.sys]]
          /\ UNCHANGED asked

\* decodeall: caches and translations need nothing; an address is its own physical
\* address, told in par_el1.
Maintain(ins) ==
  /\ ins.op \in {"tlbi", "dc", "at"}
  /\ IF ins.op # "tlbi" /\ ins.rt = 31 THEN Crash
     ELSE LET par == IF ins.op = "at" THEN general[ins.rt] ELSE Current["par_el1"]
          IN /\ Handled([Current EXCEPT !["par_el1"] = par])
             /\ asked' = [asked EXCEPT !["par_el1"] = par]
             /\ UNCHANGED general

Other(ins) == ins.op = "other" /\ Crash

Execute(ins) ==
  /\ ~crashed
  /\ \/ MaskInterrupts(ins) \/ MoveToSystem(ins) \/ MoveFromSystem(ins)
     \/ Maintain(ins) \/ Other(ins)

FakeNext == \E ins \in Instructions : Execute(ins)

FakeSpec == FakeInit /\ [][FakeNext]_fakeVars

-----------------------------------------------------------------------------

\* A register reads as what the program last made it, through whatever instruction,
\* and nothing it may not write changes: the level stays the one it was told first.
\* The program goes on only behind an instruction that had its effect.
RegistersKept ==
  /\ fake # NotMade => fake = asked
  /\ asked["currentel"] = 4
  /\ fake # NotMade /\ ~crashed => pc = 4
=============================================================================

----------------------------- MODULE UserStack -----------------------------
(***************************************************************************)
(* What exec puts on the new program's stack (process/loader/stack.rs) and *)
(* in its registers, and the random generator that fills the sixteen bytes *)
(* of AT_RANDOM and serves getrandom and /dev/urandom.                     *)
(*                                                                         *)
(* A string is its length.  The memory written is a set of cells: the      *)
(* strings, their terminating zeroes, and words of eight bytes.            *)
(***************************************************************************)
EXTENDS Integers, Sequences, FiniteSets

CONSTANTS
    Strings,        \* the argument and environment lists: sequences of lengths
    Headers,        \* the program headers: sequences of [load, vaddr]
    Bases,          \* where the interpreter is loaded; 0 without one
    StackTop,       \* USER_STACK_TOP
    PhOffset,       \* ph_offset, ph_entry_size and entry_point of the ELF header
    PhEntrySize,
    EntryPoint,
    TableSize,      \* N, the words the generator twists at a time: 624
    Reads           \* the lengths getrandom is called with

ASSUME StackAssumption ==
    StackTop % 16 = 0 /\ TableSize \in Nat /\ TableSize >= 5

VARIABLES
    stack,          \* the stack of the program exec started last
    regs,           \* its registers
    wanted,         \* the lists exec was called with
    mti,            \* RandomGenerator::mti
    out_of_table    \* genrand_u32 has indexed past mt and panicked

stackVars == <<stack, regs, wanted, mti, out_of_table>>

NoStack == [cells |-> {}, argc |-> 0, argv |-> 0, envp |-> 0, auxv |-> 0]

StackInit ==
    /\ stack = NoStack
    /\ regs = [sp |-> 0, a0 |-> 0, a1 |-> 0, a2 |-> 0, a3 |-> 0]
    /\ wanted = [args |-> <<>>, envs |-> <<>>, auxv |-> <<>>]
    /\ mti = TableSize + 1
    /\ out_of_table = FALSE

-----------------------------------------------------------------------------

WordAt(a, v) == [at |-> a, size |-> 8, val |-> v]

Align16(a) == a - (a % 16)

\* Mutant: no room for the terminating zero.
PushedTight(top, lens) ==
    LET addr[i \in 0 .. Len(lens)] ==
            IF i = 0 THEN top ELSE addr[i - 1] - lens[i]
    IN  addr

\* Where the strings of a list end up, each below the one before; addr[0] is
\* where they start from.
Pushed(top, lens) ==
    LET addr[i \in 0 .. Len(lens)] ==
            IF i = 0 THEN top ELSE addr[i - 1] - 1 - lens[i]
    IN  addr

StringCells(kind, addr, lens) ==
    UNION {{[at |-> addr[i], size |-> lens[i], val |-> <<kind, i>>],
            [at |-> addr[i] + lens[i], size |-> 1, val |-> 0]} :
           i \in 1 .. Len(lens)}

\* The pointers of a list and the NULL after them, below sp.
Vector(sp, addr, n) ==
    [at |-> sp - 8 - 8 * n,
     cells |-> {WordAt(sp - 8, 0)}
               \cup {WordAt(sp - 8 - 8 * n + 8 * (i - 1), addr[i]) : i \in 1 .. n}]

\* init_auxv: the address of the first loadable segment leads to AT_PHDR.
ElfHead(headers) ==
    LET loads == {i \in 1 .. Len(headers) : headers[i].load}
    IN  IF loads = {} THEN 0
        ELSE headers[CHOOSE i \in loads : \A j \in loads : i <= j].vaddr

\* The keys of the auxiliary vector.
AT == [NULL |-> 0, IGNORE |-> 1, PHDR |-> 3, PHENT |-> 4, PHNUM |-> 5,
       PAGESZ |-> 6, BASE |-> 7, FLAGS |-> 8, ENTRY |-> 9, UID |-> 11,
       GID |-> 13, EGID |-> 14, PLATFORM |-> 15, HWCAP |-> 16, CLKTCK |-> 17,
       SECURE |-> 23, RANDOM |-> 25, EXECFN |-> 31]

InitAuxv(headers) ==
    <<<<AT.IGNORE, 0>>,
      <<AT.PHDR, ElfHead(headers) + PhOffset>>,
      <<AT.PHENT, PhEntrySize>>,
      <<AT.PHNUM, Len(headers)>>,
      <<AT.PAGESZ, 4096>>,
      <<AT.FLAGS, 0>>,
      <<AT.ENTRY, EntryPoint>>,
      <<AT.UID, 0>>, <<AT.GID, 0>>, <<AT.EGID, 0>>,
      <<AT.HWCAP, 0>>, <<AT.CLKTCK, 100>>, <<AT.SECURE, 0>>>>

\* load_elf, set_auxv_at_base.
LoadAuxv(headers, dl) == Append(InitAuxv(headers), <<AT.BASE, dl>>)

AuxvCells(a, auxv) ==
    UNION {{WordAt(a + 16 * (i - 1), auxv[i][1]),
            WordAt(a + 16 * (i - 1) + 8, auxv[i][2])} : i \in 1 .. Len(auxv)}

\* build_stack: the environment strings, the arguments, the platform string,
\* the random bytes, then auxv, envp, argv and argc.
BuildStack(args, envs, auxv0) ==
    LET ea == Pushed(StackTop, envs)
        aa == Pushed(Align16(ea[Len(envs)]), args)
        platform == Align16(aa[Len(args)]) - 8
        random == platform - 16
        execfn == IF args = <<>> THEN 0 ELSE aa[1]
        auxv == auxv0 \o <<<<AT.PLATFORM, platform>>, <<AT.RANDOM, random>>,
                           <<AT.EXECFN, execfn>>, <<AT.NULL, 0>>>>
        auxv_0 == Align16(random) - 16 * Len(auxv)
        envp == Vector(auxv_0, ea, Len(envs))
        argv == Vector(envp.at, aa, Len(args))
        argc_0 == argv.at - 8
    IN  [cells |-> StringCells("env", ea, envs) \cup StringCells("arg", aa, args)
                   \cup {[at |-> platform, size |-> 8, val |-> "riscv64"],
                         [at |-> random, size |-> 16, val |-> "random"],
                         WordAt(argc_0, Len(args))}
                   \cup AuxvCells(auxv_0, auxv) \cup envp.cells \cup argv.cells,
         argc |-> argc_0, argv |-> argv.at, envp |-> envp.at, auxv |-> auxv_0]

-----------------------------------------------------------------------------

\* genrand_u32: a new table when the index has reached its size, then the index
\* moves on before it is used.
NextIndex(i) == (IF i >= TableSize THEN 0 ELSE i) + 1

InTable(i) == NextIndex(i) < TableSize

\* The index after n draws; the draw that leaves the table panics.
IndexAfter(n) ==
    LET at[k \in 0 .. n] ==
            IF k = 0 THEN [i |-> mti, ok |-> TRUE]
            ELSE IF at[k - 1].ok /\ InTable(at[k - 1].i)
            THEN [i |-> NextIndex(at[k - 1].i), ok |-> TRUE]
            ELSE [i |-> at[k - 1].i, ok |-> FALSE]
    IN  at[n]

Draw(n) ==
    /\ mti' = IndexAfter(n).i
    /\ out_of_table' = ~IndexAfter(n).ok

\* write_to_buf for sys_getrandom: one draw for every four bytes.
WriteToBuf(len) ==
    /\ ~out_of_table
    /\ Draw((len + 3) \div 4)
    /\ UNCHANGED <<stack, regs, wanted>>

\* from_exec: the stack is built and the registers set from its layout; the
\* program starts with sp at the top, above everything that was built, and the
\* trap handler then stores the result of the call, 0, in a0.
FromExec(args, envs, headers, dl) ==
    /\ ~out_of_table
    /\ Draw(4)
    /\ IF IndexAfter(4).ok
       THEN LET built == BuildStack(args, envs, LoadAuxv(headers, dl))
            IN  /\ stack' = built
                /\ regs' = [sp |-> StackTop, a0 |-> 0, a1 |-> built.argv,
                            a2 |-> built.envp, a3 |-> built.auxv]
                /\ wanted' = [args |-> args, envs |-> envs,
                              auxv |-> LoadAuxv(headers, dl)]
       ELSE UNCHANGED <<stack, regs, wanted>>

StackNext ==
    \/ \E args, envs \in Strings, headers \in Headers, dl \in Bases :
         FromExec(args, envs, headers, dl)
    \/ \E len \in Reads : WriteToBuf(len)

StackSpec == StackInit /\ [][StackNext]_stackVars

-----------------------------------------------------------------------------

StackTypeOK ==
    /\ \A c \in stack.cells : c.size \in Nat /\ c.at \in Nat
    /\ mti \in 1 .. TableSize + 1
    /\ out_of_table \in BOOLEAN

\* A word as the program reads it.
Peek(a) == {c.val : c \in {d \in stack.cells : d.at = a /\ d.size = 8}}

\* A pointer leads to the string, its bytes and then a zero, and nothing else
\* was written there.
PointsTo(p, kind, i, len) ==
    LET string == [at |-> p, size |-> len, val |-> <<kind, i>>]
        zero == [at |-> p + len, size |-> 1, val |-> 0]
    IN  /\ {string, zero} \subseteq stack.cells
        /\ \A c \in stack.cells \ {string, zero} :
              c.at + c.size <= p \/ p + len < c.at

VectorReads(a, kind, lens) ==
    /\ Peek(a + 8 * Len(lens)) = {0}
    /\ \A i \in 1 .. Len(lens) :
         \E p \in Peek(a + 8 * (i - 1)) :
            Peek(a + 8 * (i - 1)) = {p} /\ PointsTo(p, kind, i, lens[i])

\* Read as the ABI says, upwards from argc, the stack gives back what exec was
\* called with: the count, that many arguments and a NULL, the environment and
\* a NULL right after it, and the auxiliary vector right after that, ended by
\* its first AT_NULL; no part of it overwrites another.  The registers a1 to a3 point to the three vectors (build_stack and
\* TrapContext::exec_trap_cx).
StackReadable ==
    stack.cells # {} =>
        LET n == Len(wanted.args)
            m == Len(wanted.envs)
            k == Len(wanted.auxv)
        IN  /\ Peek(stack.argc) = {n}
            /\ regs.a1 = stack.argc + 8
            /\ regs.a2 = regs.a1 + 8 * (n + 1)
            /\ regs.a3 = regs.a2 + 8 * (m + 1)
            /\ VectorReads(regs.a1, "arg", wanted.args)
            /\ VectorReads(regs.a2, "env", wanted.envs)
            /\ \A i \in 1 .. k :
                 /\ Peek(regs.a3 + 16 * (i - 1)) = {wanted.auxv[i][1]}
                 /\ Peek(regs.a3 + 16 * (i - 1) + 8) = {wanted.auxv[i][2]}
            /\ \A i \in 1 .. k + 4 :
                 (Peek(regs.a3 + 16 * (i - 1)) = {AT.NULL}) = (i = k + 4)

=============================================================================

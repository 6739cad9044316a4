---------------------------- MODULE GuestMachine ----------------------------
(***************************************************************************)
(* What a guest program and its user may rely on: the program is a series  *)
(* of instructions, each with at most one effect, and a stop that is       *)
(* final.  There is no memo, no debugger and no half-done instruction.     *)
(***************************************************************************)
EXTENDS Integers, Sequences

CONSTANTS
    Words,    \* the number of addresses, and of values of a register
    Reg,
    Value     \* what the write call may emit

Addr == 0 .. Words - 1

VARIABLES running, pc, regs, mem, output

gmvars == << running, pc, regs, mem, output >>

Init ==
    /\ running = TRUE
    /\ pc \in Addr /\ regs = [ r \in Reg |-> 0 ]
    /\ DOMAIN mem \subseteq Addr
    /\ output = << >>

OnlyRegister(r) == \A q \in Reg \ {r} : regs'[q] = regs[q]

(* Bytes outside from .. from + n - 1 keep their value.                    *)
OnlyBytes(from, n) ==
    /\ DOMAIN mem' = DOMAIN mem
    /\ \A x \in DOMAIN mem : mem'[x] # mem[x] => from =< x /\ x < from + n

Onwards == (pc + 4) % Words

(* A result in one register other than x0, a jump, or both.                *)
Compute ==
    /\ \E r \in Reg \ {0} : OnlyRegister(r)
    /\ pc' \in Addr
    /\ UNCHANGED << mem, output >>

(* A store, to at most four bytes that start in memory.                    *)
Store ==
    /\ \E from \in DOMAIN mem : OnlyBytes(from, 4)
    /\ pc' = Onwards /\ UNCHANGED << regs, output >>

(* The write call: a2 values more.                                         *)
Write ==
    /\ Len(output') = Len(output) + regs[12]
    /\ \A i \in DOMAIN output' :
          output'[i] \in IF i =< Len(output) THEN {output[i]} ELSE Value
    /\ pc' = Onwards /\ UNCHANGED << regs, mem >>

(* The read call: its count in a0, and no byte outside that count.         *)
Read ==
    /\ OnlyRegister(10)
    /\ OnlyBytes(regs[11], regs'[10])
    /\ pc' = Onwards /\ UNCHANGED output

Instruction == running /\ UNCHANGED running /\ (Compute \/ Store \/ Write \/ Read)

Stop ==
    /\ running /\ running' = FALSE
    /\ \E r \in Reg \ {0} : OnlyRegister(r)
    /\ UNCHANGED << mem, output >>

Next == Instruction \/ Stop

Spec == Init /\ [][Next]_gmvars
=============================================================================

---------------------------- MODULE AddressSpace ----------------------------
(***************************************************************************)
(* What the address map promises to the rest of the emulator: a fixed set  *)
(* of regions no two of which share an address, and a function from an     *)
(* address to the one region that holds it.  No table order, no memo, no   *)
(* wrapping sums.                                                          *)
(***************************************************************************)
EXTENDS Integers

CONSTANT Addr

VARIABLES regions, answer

asvars == << regions, answer >>

Holds(r, a) == r.start_addr =< a /\ a < r.start_addr + r.size

Apart(r, s) == r.start_addr + r.size =< s.start_addr
               \/ s.start_addr + s.size =< r.start_addr

NoAnswer == [addr |-> 0, found |-> {}]

Init == regions = {} /\ answer = NoAnswer

(* The regions are laid out once, apart from each other and inside Addr. *)
Populate ==
    /\ regions = {} /\ regions' # {}
    /\ \A r \in regions' : {r.start_addr, r.start_addr + r.size - 1} \subseteq Addr
    /\ \A r, s \in regions' : r # s => Apart(r, s)
    /\ UNCHANGED answer

(* The answer names the region that holds the address, or none. *)
Found(a) ==
    \E r \in regions : Holds(r, a) /\ answer' = [addr |-> a, found |-> {r}]

Missing(a) ==
    /\ \A r \in regions : ~Holds(r, a)
    /\ answer' = [addr |-> a, found |-> {}]

Resolve(a) ==
    /\ regions # {}
    /\ Found(a) \/ Missing(a)
    /\ UNCHANGED regions

Next == Populate \/ \E a \in Addr : Resolve(a)

Spec == Init /\ [][Next]_asvars
=============================================================================

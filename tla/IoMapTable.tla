----------------------------- MODULE IoMapTable -----------------------------
(***************************************************************************)
(* The hart's address map at work: rv32i_hart_init builds the table from   *)
(* an accepted command line, then the loader, the executor and the         *)
(* debugger's panels look addresses up, in any order, through the one      *)
(* memoised pointer they all share.  rv32i_mem_contiguous recurses; here   *)
(* each of its calls is a step, and its result accumulates on the way in.  *)
(***************************************************************************)
EXTENDS IoMaps

CONSTANTS
    Cmdlines,     \* the command lines the emulator is started with
    Asked         \* the addresses it asks about

ASSUME CmdlinesAssumption == \A c \in Cmdlines : Accepted(c)

ASSUME AskedAssumption == Asked \subseteq Addr

VARIABLES
    cmd,      \* the command line
    phase,    \* "init", then "run", or "overlap" or "nomap" (exit)
    iomaps,   \* cpu->iomaps[0 .. iomap_amnt - 1]
    memo,     \* cpu->memoized_iomap, an index into iomaps
    answer,   \* what the last rv32i_mem_getiomap_byaddr was asked and returned
    walk      \* the call of rv32i_mem_contiguous in progress or just returned

vars == << cmd, phase, iomaps, memo, answer, walk >>

FreshWalk(start, end) ==
    [state |-> "idle", start |-> start, end |-> end, at |-> start, bytes |-> 0]

NoWalk == FreshWalk(0, 0)

Init ==
    /\ cmd \in Cmdlines
    /\ phase = "init"
    /\ iomaps = << >> /\ memo = NULL
    /\ answer = [addr |-> 0, found |-> {}]
    /\ walk = NoWalk

(* rv32i_hart_init and its three ways out *)
InitOverlap ==
    /\ phase = "init" /\ CheckOverlap(cmd.choosen_iomaps)
    /\ phase' = "overlap"
    /\ UNCHANGED << cmd, iomaps, memo, answer, walk >>

InitTable ==
    /\ phase = "init" /\ ~CheckOverlap(cmd.choosen_iomaps)
    /\ iomaps' = TableOf(cmd)
    /\ LET map == GetIomapByAddrNonMemoised(iomaps', InitialAddr(cmd))
       IN  /\ phase' = IF map = NULL THEN "nomap" ELSE "run"
           /\ memo'  = map
    /\ UNCHANGED << cmd, answer, walk >>

HartInit == InitOverlap \/ InitTable

Walking == walk.state = "walking"

(* rv32i_mem_getiomap_byaddr *)
Resolve(a) ==
    LET map == GetIomapByAddr(iomaps, memo, a)
    IN  /\ answer' = [addr  |-> a,
                      found |-> IF map = NULL THEN {} ELSE {iomaps[map]}]
        /\ memo' = MemoAfter(iomaps, memo, a)

(* rv32i_mem_trueaddr, and everything that reads or writes through it *)
Lookup(a) ==
    /\ phase = "run" /\ ~Walking
    /\ Resolve(a)
    /\ walk' = NoWalk
    /\ UNCHANGED << cmd, phase, iomaps >>

(* One call of rv32i_mem_contiguous: it returns 0, or it counts its map and *)
(* either returns or goes on behind the map.                                *)
ContiguousCall(w) ==
    LET map  == GetIomapByAddr(iomaps, memo, w.at)
        size == iomaps[map].size
    IN  \/ /\ w.end < w.at
           /\ walk' = [w EXCEPT !.state = "done"]
           /\ UNCHANGED << memo, answer >>
        \/ /\ w.end >= w.at /\ map = NULL
           /\ walk' = [w EXCEPT !.state = "done"]
           /\ Resolve(w.at)
        \/ /\ w.end >= w.at /\ map # NULL /\ size >= w.end - w.at
           /\ walk' = [w EXCEPT !.state = "done", !.bytes = Low32(@ + size)]
           /\ Resolve(w.at)
        \/ /\ w.end >= w.at /\ map # NULL /\ size < w.end - w.at
           /\ walk' = [w EXCEPT !.state = "walking", !.bytes = Low32(@ + size),
                                !.at = Low32(@ + size)]
           /\ Resolve(w.at)

CallContiguous(start, end) ==
    /\ phase = "run" /\ ~Walking
    /\ ContiguousCall(FreshWalk(start, end))
    /\ UNCHANGED << cmd, phase, iomaps >>

Recurse ==
    /\ phase = "run" /\ Walking
    /\ ContiguousCall(walk)
    /\ UNCHANGED << cmd, phase, iomaps >>

(* The process may exit, or run a program that asks nothing more. *)
Next == \/ HartInit
        \/ \E a \in Asked : Lookup(a)
        \/ \E start, end \in Asked : CallContiguous(start, end)
        \/ Recurse

Spec == Init /\ [][Next]_vars /\ WF_vars(Recurse)

-----------------------------------------------------------------------------
Walk == [state : {"idle", "walking", "done"},
         start : Addr, end : Addr, at : Addr, bytes : Addr]

TypeOK ==
    /\ cmd \in Cmdlines
    /\ phase \in {"init", "run", "overlap", "nomap"}
    /\ iomaps \in Seq(IoMap)
    /\ memo \in 0 .. Len(iomaps)
    /\ phase = "run" => memo # NULL
    /\ answer \in [addr : Addr, found : SUBSET IoMap]
    /\ walk \in Walk

(* The shortcut of the memoised lookup is invisible: with whatever map the  *)
(* calls so far left in memoized_iomap, every address resolves to the map   *)
(* the plain scan of the table finds.                                       *)
MemoTransparent ==
    phase = "run" =>
        \A a \in Addr : GetIomapByAddr(iomaps, memo, a)
                        = GetIomapByAddrNonMemoised(iomaps, a)

(* The test on the options (sums in size_t) protects the table (sums in     *)
(* uint32_t): whatever passed it yields maps of which no two cover the same *)
(* address, and that cover all the bytes of their buffer.                   *)
Separate ==
    phase = "run" =>
        /\ \A i, j \in DOMAIN iomaps : \A a \in Addr :
              Covers(iomaps[i], a) /\ Covers(iomaps[j], a) => i = j
        /\ \A i \in DOMAIN iomaps : \A a \in Addr :
              Covers(iomaps[i], a) <=> a \in Region(iomaps[i])

(* rv32i_mem_contiguous asked from the start of a map tells exactly whether *)
(* the bytes up to end are all backed, holes and missing maps included.     *)
StartsAMap(a) == \E i \in DOMAIN iomaps : iomaps[i].start_addr = a /\ iomaps[i].size > 0

ContiguousExact ==
    walk.state = "done" /\ walk.start =< walk.end /\ StartsAMap(walk.start)
    => (walk.bytes >= walk.end - walk.start <=> Backed(iomaps, walk.start, walk.end))

(* Asked from anywhere it errs on one side only: it never reports less than *)
(* what is there, so no program that fits is refused.                       *)
ContiguousNeverShort ==
    (walk.state = "done" /\ walk.start =< walk.end)
    => walk.bytes >= BackedRun(iomaps, walk.start, walk.end)

(* The recursion of rv32i_mem_contiguous ends: each call moves past a map   *)
(* and no sum wraps back to one it has already left.                        *)
ContiguousReturns == Walking ~> ~Walking

(* The regions a table stands for; a map of no bytes stands for none. *)
Regions ==
    IF phase = "run"
    THEN { m \in { iomaps[i] : i \in DOMAIN iomaps } : m.size > 0 }
    ELSE {}

AddressSpaceSpec == INSTANCE AddressSpace WITH regions <- Regions

(* The lookups, memo and all, implement a fixed map from addresses to      *)
(* disjoint regions: nothing a running program or its debugger does moves, *)
(* resizes or unmaps a region, and each answer is the region that holds    *)
(* the address.                                                            *)
ImplementsAddressSpace == AddressSpaceSpec!Spec
=============================================================================

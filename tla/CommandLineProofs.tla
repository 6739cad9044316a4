-------------------------- MODULE CommandLineProofs --------------------------
(***************************************************************************)
(* Whatever numbers are typed, with whatever options, in whatever order    *)
(* and for every width of a machine word: a command line that gets through *)
(* the parser is one the address map can be built from.                    *)
(***************************************************************************)
EXTENDS CommandLine, MapLemmas, TLAPS

(* Division of any number, as a word is cut from it.                       *)
LEMMA IntDivMod ==
    ASSUME NEW a \in Int, NEW w \in Nat, 0 < w
    PROVE  /\ a \div w \in Int /\ a % w \in 0 .. w - 1
           /\ a = w * (a \div w) + (a % w)
    OBVIOUS

(* Whole pages cut to a word of whole pages are whole pages.               *)
LEMMA RemainderPages ==
    ASSUME NEW k \in Int, NEW q \in Nat, 0 < q
    PROVE  /\ (k * PAGE) % (q * PAGE) \in 0 .. q * PAGE - 1
           /\ Multiple((k * PAGE) % (q * PAGE), PAGE)
<1> DEFINE w == q * PAGE
           d == (k * PAGE) \div w
           s == (k * PAGE) % w
<1>1. PAGE \in Nat /\ 0 < PAGE
  BY WidthAssumption
<1>2. w \in Nat /\ 0 < w /\ k * PAGE \in Int
  BY <1>1
<1>3. d \in Int /\ s \in 0 .. w - 1 /\ k * PAGE = w * d + s
  BY <1>2, IntDivMod
<1>4. s = (k - q * d) * PAGE
  BY <1>1, <1>2, <1>3
<1>5. k - q * d \in 0 .. s
  <2>1. k - q * d \in Int
    BY <1>3
  <2>2. ASSUME NEW x \in Int, 0 =< x * PAGE PROVE x \in 0 .. x * PAGE
    BY <2>2, <1>1
  <2> QED
    BY <1>3, <1>4, <2>1, <2>2
<1> QED
  BY <1>3, <1>4, <1>5 DEF Multiple

(* Both widths are whole pages.                                            *)
LEMMA WidthPages ==
    /\ \E q \in Nat : 0 < q /\ WORD = q * PAGE
    /\ \E q \in Nat : 0 < q /\ SIZET = q * PAGE
<1>1. PAGE \in Nat /\ 0 < PAGE /\ HALF \in Nat /\ 0 < HALF /\ SIZET \in Nat /\ WORD =< SIZET
  BY WidthAssumption DEF WORD
<1> DEFINE h == HALF \div PAGE
           m == SIZET \div WORD
<1>2. HALF = PAGE * h /\ h \in Int
  BY <1>1, IntDivMod, WidthAssumption
<1>3. h \in Nat /\ 0 < h
  <2>1. ASSUME h =< 0 PROVE PAGE * h =< 0
    BY <2>1, <1>1, <1>2
  <2> QED
    BY <1>1, <1>2, <2>1
<1>4. SIZET = WORD * m /\ m \in Int
  BY <1>1, IntDivMod, WidthAssumption DEF WORD
<1>5. m \in Nat /\ 0 < m
  <2>1. ASSUME m =< 0 PROVE WORD * m =< 0
    BY <2>1, <1>1, <1>4 DEF WORD
  <2> QED
    BY <1>1, <1>4, <2>1 DEF WORD
<1>6. WORD = (2 * h) * PAGE /\ 2 * h \in Nat /\ 0 < 2 * h
  BY <1>1, <1>2, <1>3 DEF WORD
<1>7. SIZET = ((2 * h) * m) * PAGE /\ (2 * h) * m \in Nat /\ 0 < (2 * h) * m
  <2>1. ASSUME NEW x \in Nat, NEW y \in Nat, 0 < x, 0 < y
        PROVE  x * y \in Nat /\ 0 < x * y
    BY <2>1
  <2>2. (2 * h) * m \in Nat /\ 0 < (2 * h) * m
    BY <1>5, <1>6, <2>1
  <2>3. SIZET = ((2 * h) * PAGE) * m
    BY <1>4, <1>6
  <2> QED
    BY <1>1, <1>3, <1>5, <2>2, <2>3
<1> QED
  BY <1>6, <1>7

(* Every number typed for a size is whole pages, before and after it is cut *)
(* to 32 bits; every number cut to 32 bits is an address.                   *)
LEMMA KibPages ==
    ASSUME NEW n \in Int
    PROVE  /\ Kib(n) \in 0 .. SIZET - 1 /\ Multiple(Kib(n), PAGE)
           /\ Low32(Kib(n)) \in Addr /\ Multiple(Low32(Kib(n)), PAGE)
           /\ Low32(n) \in Addr
<1>1. PICK q \in Nat : 0 < q /\ WORD = q * PAGE
  BY WidthPages
<1>2. PICK m \in Nat : 0 < m /\ SIZET = m * PAGE
  BY WidthPages
<1>3. Kib(n) \in 0 .. SIZET - 1 /\ Multiple(Kib(n), PAGE)
  BY <1>2, RemainderPages DEF Kib
<1>4. PICK k \in 0 .. Kib(n) : Kib(n) = k * PAGE
  BY <1>3 DEF Multiple
<1>5. Low32(Kib(n)) \in Addr /\ Multiple(Low32(Kib(n)), PAGE)
  BY <1>1, <1>3, <1>4, RemainderPages DEF Low32, Addr
<1>6. Low32(n) \in Addr
  BY IntDivMod, WidthAssumption DEF Low32, Addr, WORD
<1> QED
  BY <1>3, <1>5, <1>6

(* A number below the word is what its low 32 bits are.                    *)
LEMMA Low32Below ==
    ASSUME NEW a \in Addr
    PROVE  Low32(a) = a
<1>1. WORD \in Nat /\ 0 < WORD
  BY WidthAssumption DEF WORD
<1>2. \A w \in Nat \ {0} : \A x \in 0 .. w - 1 : x % w = x
  BY SMT
<1> QED
  BY <1>1, <1>2 DEF Low32, Addr

-----------------------------------------------------------------------------
(* What is read so far could be accepted at any moment, and the two ways of *)
(* asking for memory have not met.  OnlyAccepted alone is not inductive: it *)
(* says nothing while arguments are left.                                   *)
AcceptedSoFar == TypeOK /\ Accepted(r) /\ RamOrMaps

(* No argument at all is acceptable.                                        *)
LEMMA InitAccepted == Init => AcceptedSoFar
<1> SUFFICES ASSUME Init PROVE AcceptedSoFar
  OBVIOUS
<1>1. PAGE \in Nat /\ 0 < PAGE /\ HALF \in Nat /\ DefaultRam \in Nat /\ 0 < DefaultRam
      /\ DefaultRam * PAGE < HALF /\ DefaultRam =< DefaultRam * PAGE /\ DefaultRam * PAGE \in Nat
  BY WidthAssumption, DefaultRamAssumption
<1>2. DefaultRam * PAGE \in Addr /\ 0 \in Addr /\ 0 < DefaultRam * PAGE
  BY <1>1 DEF Addr, WORD
<1>3. Multiple(DefaultRam * PAGE, PAGE)
  BY <1>1 DEF Multiple
<1>4. r \in Cmdline
  BY <1>2 DEF Init, Cmdline
<1>5. Accepted(r)
  BY <1>1, <1>2, <1>3, <1>4, CapAssumption DEF Init, Accepted
<1> QED
  BY <1>4, <1>5 DEF Init, AcceptedSoFar, TypeOK, RamOrMaps

(* A negative --load-at is refused although only its low 32 bits are kept.  *)
LEMMA LoadAtAccepted ==
    ASSUME AcceptedSoFar, outcome = "parsing", NEW n \in Int, LoadAt(n)
    PROVE  AcceptedSoFar'
<1>1. CASE Exit("usage")
  BY <1>1 DEF Exit, AcceptedSoFar, TypeOK, RamOrMaps, Failures
<1>2. CASE ~Negative(n) /\ r' = [r EXCEPT !.load_at = Low32(n)] /\ Once("--load-at")
  <2>1. Low32(n) \in Addr /\ Low32(n) < HALF
    <3>1. Low32(n) \in Addr
      BY KibPages
    <3> QED
      BY <1>2, <3>1, WidthAssumption DEF Negative, Addr, WORD
  <2>2. r \in Cmdline /\ Accepted(r)
    BY DEF AcceptedSoFar, TypeOK
  <2>3. /\ r' \in Cmdline /\ r'.load_at = Low32(n) /\ r'.ramamnt = r.ramamnt
        /\ r'.is_using_mmap = r.is_using_mmap /\ r'.choosen_iomaps = r.choosen_iomaps
    BY <1>2, <2>1, <2>2 DEF Cmdline
  <2>4. Accepted(r')
    BY <2>1, <2>2, <2>3 DEF Accepted
  <2> QED
    BY <1>2, <2>3, <2>4 DEF Once, AcceptedSoFar, TypeOK, RamOrMaps, OnceOptions
<1> QED
  BY <1>1, <1>2 DEF LoadAt

(* -m: the size is tested after it is cut.                                  *)
LEMMA RamAccepted ==
    ASSUME AcceptedSoFar, outcome = "parsing", NEW n \in Int, Ram(n)
    PROVE  AcceptedSoFar'
<1> DEFINE ramamnt == Low32(Kib(n))
<1>1. CASE Exit("usage")
  BY <1>1 DEF Exit, AcceptedSoFar, TypeOK, RamOrMaps, Failures
<1>2. CASE /\ ramamnt # 0 /\ ~r.is_using_mmap /\ ~Negative(ramamnt)
           /\ r' = [r EXCEPT !.ramamnt = ramamnt] /\ Once("-m")
  <2>1. ramamnt \in Addr /\ Multiple(ramamnt, PAGE)
    BY KibPages
  <2>2. 0 < ramamnt /\ ramamnt < HALF
    BY <1>2, <2>1, Low32Below, WidthAssumption DEF Negative, Addr, WORD
  <2>3. r \in Cmdline /\ Accepted(r)
    BY DEF AcceptedSoFar, TypeOK
  <2>4. /\ r' \in Cmdline /\ r'.load_at = r.load_at /\ r'.ramamnt = ramamnt
        /\ r'.is_using_mmap = r.is_using_mmap /\ r'.choosen_iomaps = r.choosen_iomaps
    BY <1>2, <2>1, <2>3 DEF Cmdline
  <2>5. Accepted(r') /\ r.choosen_iomaps = << >>
    BY <1>2, <2>1, <2>2, <2>3, <2>4 DEF Accepted
  <2> QED
    BY <1>2, <2>4, <2>5 DEF Once, AcceptedSoFar, TypeOK, RamOrMaps, OnceOptions
<1> QED
  BY <1>1, <1>2 DEF Ram

(* --memory-map: the size is tested before it is cut, the address after.    *)
LEMMA MemoryMapAccepted ==
    ASSUME AcceptedSoFar, outcome = "parsing", NEW n \in Int, NEW kib \in Int, MemoryMap(n, kib)
    PROVE  AcceptedSoFar'
<1> DEFINE addr == Low32(n)
           size == Kib(kib)
           map  == [addr |-> addr, size |-> size]
<1>1. CASE \E how \in Failures : Exit(how)
  BY <1>1 DEF Exit, AcceptedSoFar, TypeOK, RamOrMaps
<1>2. CASE /\ "-m" \notin given /\ Len(r.choosen_iomaps) # HARDCAP
           /\ ~Negative(addr) /\ addr % BLOCK = 0 /\ size # 0 /\ ~Negative(size)
           /\ r' = [r EXCEPT !.is_using_mmap  = TRUE, !.choosen_iomaps = Append(@, map)]
           /\ UNCHANGED << given, outcome, listing >>
  <2>1. addr \in Addr /\ size \in 0 .. SIZET - 1 /\ Multiple(size, PAGE)
    BY KibPages
  <2>2. addr < HALF
    BY <1>2, <2>1, Low32Below, WidthAssumption DEF Negative, Addr, WORD
  <2>3. map \in ChosenIoMap /\ AcceptedIoMap(map)
    BY <1>2, <2>1, <2>2 DEF ChosenIoMap, AcceptedIoMap
  <2>4. r \in Cmdline /\ Accepted(r)
    BY DEF AcceptedSoFar, TypeOK
  <2>5. r.choosen_iomaps \in Seq(ChosenIoMap)
    BY <2>4 DEF Cmdline
  <2>6. /\ r' \in Cmdline /\ r'.load_at = r.load_at /\ r'.ramamnt = r.ramamnt
        /\ r'.is_using_mmap = TRUE /\ r'.choosen_iomaps = Append(r.choosen_iomaps, map)
    <3>1. Append(r.choosen_iomaps, map) \in Seq(ChosenIoMap)
      BY <2>3, <2>5
    <3> QED
      BY <1>2, <2>4, <3>1 DEF Cmdline
  <2>7. Len(r.choosen_iomaps) + 1 =< HARDCAP
    BY <1>2, <2>4, <2>5, CapAssumption DEF Accepted
  <2>8. ASSUME NEW i \in DOMAIN r'.choosen_iomaps PROVE AcceptedIoMap(r'.choosen_iomaps[i])
    <3>1. CASE i \in DOMAIN r.choosen_iomaps
      <4>1. r'.choosen_iomaps[i] = r.choosen_iomaps[i]
        BY <2>5, <2>6, <3>1
      <4> QED
        BY <2>4, <3>1, <4>1 DEF Accepted
    <3>2. CASE i = Len(r.choosen_iomaps) + 1
      <4>1. r'.choosen_iomaps[i] = map
        BY <2>5, <2>6, <2>3, <3>2
      <4> QED
        BY <2>3, <4>1
    <3> QED
      BY <2>5, <2>6, <2>3, <2>8, <3>1, <3>2
  <2>9. r'.choosen_iomaps # << >> /\ Len(r'.choosen_iomaps) =< HARDCAP
    <3>1. Len(r'.choosen_iomaps) = Len(r.choosen_iomaps) + 1
      BY <2>3, <2>5, <2>6
    <3> QED
      BY <2>5, <2>7, <3>1
  <2>10. Accepted(r')
    BY <2>4, <2>6, <2>8, <2>9 DEF Accepted
  <2> QED
    BY <1>2, <2>6, <2>10 DEF AcceptedSoFar, TypeOK, RamOrMaps
<1> QED
  BY <1>1, <1>2 DEF MemoryMap, Failures

(* Everything else leaves r alone, and -m out of what is given.            *)
LEMMA RestAccepted ==
    ASSUME AcceptedSoFar, UNCHANGED r,
           \/ \E how \in Failures \cup Successes \cup {"parsed"} :
                outcome' = how /\ UNCHANGED given
           \/ \E option \in OnceOptions \ {"-m"} :
                given' = given \cup {option} /\ UNCHANGED outcome
           \/ UNCHANGED << given, outcome >>
    PROVE  AcceptedSoFar'
BY DEF AcceptedSoFar, TypeOK, RamOrMaps

(* Every option keeps the command line acceptable.                          *)
LEMMA NextAccepted == AcceptedSoFar /\ [Next]_vars => AcceptedSoFar'
<1> SUFFICES ASSUME AcceptedSoFar, [Next]_vars
             PROVE  AcceptedSoFar'
  OBVIOUS
<1>1. ASSUME NEW n \in Numbers, outcome = "parsing", LoadAt(n) \/ Ram(n) PROVE AcceptedSoFar'
  BY <1>1, LoadAtAccepted, RamAccepted, NumbersAssumption
<1>2. ASSUME NEW n \in Numbers, NEW kib \in Numbers, outcome = "parsing", MemoryMap(n, kib)
      PROVE  AcceptedSoFar'
  BY <1>2, MemoryMapAccepted, NumbersAssumption
<1>3. ASSUME NEW option \in {"--debug", "--noop-stub", "--show-map"}, Flag(option)
      PROVE  AcceptedSoFar'
  BY <1>3, RestAccepted DEF Flag, Exit, Once, Failures, OnceOptions
<1>4. CASE Filename \/ Version \/ Unknown
  BY <1>4, RestAccepted DEF Filename, Version, Unknown, Exit, Once, Failures, Successes, OnceOptions
<1>5. CASE NoMoreArguments
  BY <1>5, RestAccepted DEF NoMoreArguments, Exit, Failures, Successes
<1>6. CASE UNCHANGED vars
  BY <1>6, RestAccepted DEF vars
<1> QED
  BY <1>1, <1>2, <1>3, <1>4, <1>5, <1>6 DEF Next

(* At every moment of a parse the command line read so far could be         *)
(* accepted.                                                                *)
LEMMA AcceptedInductive == Spec => []AcceptedSoFar
BY InitAccepted, NextAccepted, PTL DEF Spec

-----------------------------------------------------------------------------
(* The state of the parser has its type.                                   *)
THEOREM CommandLineTypeOK == Spec => []TypeOK
<1>1. AcceptedSoFar => TypeOK
  BY DEF AcceptedSoFar
<1> QED
  BY <1>1, AcceptedInductive, PTL

(* A command line that is parsed is accepted: what IoMapTable, its proofs   *)
(* and Boot assume of command lines is what the parser guarantees.          *)
THEOREM OnlyAcceptedParsed == Spec => []OnlyAccepted
<1>1. AcceptedSoFar => OnlyAccepted
  BY DEF AcceptedSoFar, OnlyAccepted
<1> QED
  BY <1>1, AcceptedInductive, PTL

(* -m and --memory-map never both count.                                   *)
THEOREM RamOrMapsAlways == Spec => []RamOrMaps
<1>1. AcceptedSoFar => RamOrMaps
  BY DEF AcceptedSoFar
<1> QED
  BY <1>1, AcceptedInductive, PTL

-----------------------------------------------------------------------------
(* A permutation of the first n numbers.                                   *)
Perm(p, n) ==
    /\ p \in [1 .. n -> 1 .. n]
    /\ \A w \in 1 .. n : \E v \in 1 .. n : p[v] = w
    /\ \A i, j \in 1 .. n : i # j => p[i] # p[j]

(* What qsort leaves, in whatever order: the chosen maps, each in one place. *)
Arranged(order, maps) ==
    /\ order \in Seq(ChosenIoMap) /\ DOMAIN order = DOMAIN maps /\ Len(order) = Len(maps)
    /\ \A i \in DOMAIN maps : \E j \in DOMAIN maps : order[j] = maps[i]
    /\ \A j \in DOMAIN maps : \E i \in DOMAIN maps : order[j] = maps[i]
    /\ \A i, j \in DOMAIN maps : i < j =>
         \E k, l \in DOMAIN maps : k # l /\ order[i] = maps[k] /\ order[j] = maps[l]

(* Whatever it does, no map is lost and none comes twice.                   *)
LEMMA ArrangementsArrange ==
    ASSUME NEW maps \in Seq(ChosenIoMap), NEW order \in Arrangements(maps)
    PROVE  Arranged(order, maps)
<1> DEFINE n == Len(maps)
<1>1. n \in Nat /\ DOMAIN maps = 1 .. n /\ \A i \in 1 .. n : maps[i] \in ChosenIoMap
  OBVIOUS
<1>2. \A q : Perm(q, n) <=> q \in Bijection(DOMAIN maps, DOMAIN maps)
  BY <1>1 DEF Perm, Bijection, Injection, Surjection, IsInjective
<1>3. PICK q \in Bijection(DOMAIN maps, DOMAIN maps) :
           order = [ i \in DOMAIN maps |-> maps[q[i]] ]
  BY DEF Arrangements
<1>4. Perm(q, n)
  BY <1>2
<1>5. order = [ i \in 1 .. n |-> maps[q[i]] ]
  BY <1>1, <1>3
<1>6. \A i \in 1 .. n : q[i] \in 1 .. n /\ order[i] = maps[q[i]]
  BY <1>4, <1>5 DEF Perm
<1>7. order \in Seq(ChosenIoMap) /\ DOMAIN order = DOMAIN maps /\ Len(order) = n
  <2>1. order \in [1 .. n -> ChosenIoMap]
    BY <1>1, <1>5, <1>6
  <2> QED
    BY <1>1, <2>1
<1>8. ASSUME NEW i \in 1 .. n PROVE \E j \in 1 .. n : order[j] = maps[i]
  <2>1. PICK j \in 1 .. n : q[j] = i
    BY <1>4 DEF Perm
  <2> QED
    BY <1>6, <2>1
<1>9. ASSUME NEW i \in 1 .. n, NEW j \in 1 .. n, i < j
      PROVE  \E k, l \in 1 .. n : k # l /\ order[i] = maps[k] /\ order[j] = maps[l]
  <2>1. q[i] # q[j]
    BY <1>4, <1>9 DEF Perm
  <2> QED
    BY <1>6, <2>1
<1>10. \A i \in DOMAIN maps : \E j \in DOMAIN maps : order[j] = maps[i]
  BY <1>1, <1>8
<1>11. \A j \in DOMAIN maps : \E i \in DOMAIN maps : order[j] = maps[i]
  BY <1>1, <1>6
<1>12. ASSUME NEW i \in DOMAIN maps, NEW j \in DOMAIN maps, i < j
       PROVE  \E k, l \in DOMAIN maps : k # l /\ order[i] = maps[k] /\ order[j] = maps[l]
  <2> HIDE DEF n
  <2>1. i \in 1 .. n /\ j \in 1 .. n
    BY <1>1
  <2>2. \E k, l \in 1 .. n : k # l /\ order[i] = maps[k] /\ order[j] = maps[l]
    BY <1>9, <1>12, <2>1
  <2> QED
    BY <1>1, <2>2
<1> QED
  BY <1>7, <1>10, <1>11, <1>12 DEF Arranged

-----------------------------------------------------------------------------
(* FlattenSeq, sequence by sequence.                                        *)
Joins(f, seqs, n) ==
    f = [ i \in 1 .. n |-> IF i = 1 THEN seqs[i] ELSE f[i - 1] \o seqs[i] ]

(* The recursion of FlattenSeq has a solution.                              *)
LEMMA JoinsExist ==
    ASSUME NEW seqs, NEW n \in Nat
    PROVE  \E f : Joins(f, seqs, n)
<1> DEFINE S == { k \in Nat : \E f : Joins(f, seqs, k) }
<1>1. 0 \in S
  <2> DEFINE f == [ i \in 1 .. 0 |-> seqs[i] ]
  <2>1. \A i \in 1 .. 0 : FALSE
    OBVIOUS
  <2>2. f = [ i \in 1 .. 0 |-> IF i = 1 THEN seqs[i] ELSE f[i - 1] \o seqs[i] ]
    BY <2>1
  <2>3. Joins(f, seqs, 0)
    BY <2>2 DEF Joins
  <2> QED
    BY <2>3
<1>2. ASSUME NEW k \in 1 .. n, k - 1 \in S PROVE k \in S
  <2>1. PICK h : Joins(h, seqs, k - 1)
    BY <1>2
  <2>2. h = [ i \in 1 .. k - 1 |-> IF i = 1 THEN seqs[i] ELSE h[i - 1] \o seqs[i] ]
    BY <2>1 DEF Joins
  <2> DEFINE f == [ i \in 1 .. k |-> IF i = 1 THEN seqs[i] ELSE h[i - 1] \o seqs[i] ]
  <2>3. ASSUME NEW i \in 1 .. k, i # 1 PROVE f[i - 1] = h[i - 1]
    <3>1. i - 1 \in 1 .. k - 1 /\ i - 1 \in 1 .. k
      BY <2>3
    <3>2. h[i - 1] = IF i - 1 = 1 THEN seqs[i - 1] ELSE h[i - 1 - 1] \o seqs[i - 1]
      BY <2>2, <3>1
    <3>3. f[i - 1] = IF i - 1 = 1 THEN seqs[i - 1] ELSE h[i - 1 - 1] \o seqs[i - 1]
      BY <3>1
    <3> QED
      BY <3>2, <3>3
  <2>4. f = [ i \in 1 .. k |-> IF i = 1 THEN seqs[i] ELSE f[i - 1] \o seqs[i] ]
    BY <2>3, Zenon
  <2>5. Joins(f, seqs, k)
    <3> HIDE DEF f
    <3> QED
      BY <2>4 DEF Joins
  <2> QED
    BY <2>5
<1> HIDE DEF S
<1>3. \A k \in 0 .. n : k \in S
  BY <1>1, <1>2, MemoFold!UpTo
<1>4. n \in S
  BY <1>3
<1> QED
  BY <1>4 DEF S

(* Its result is the last one.                                              *)
LEMMA FlattenTrace ==
    ASSUME NEW seqs, NEW n \in Nat, n # 0, Len(seqs) = n
    PROVE  \E f : /\ f[1] = seqs[1]
                  /\ \A k \in 2 .. n : f[k] = f[k - 1] \o seqs[k]
                  /\ FlattenSeq(seqs) = f[n]
<1> DEFINE f == CHOOSE f : Joins(f, seqs, n)
<1>1. Joins(f, seqs, n)
  BY JoinsExist, Zenon
<1>2. FlattenSeq(seqs) = f[n]
  BY Zenon DEF FlattenSeq, Joins
<1> HIDE DEF f
<1>3. f = [ i \in 1 .. n |-> IF i = 1 THEN seqs[i] ELSE f[i - 1] \o seqs[i] ]
  BY <1>1 DEF Joins
<1>4. f[1] = seqs[1] /\ \A k \in 2 .. n : f[k] = f[k - 1] \o seqs[k]
  <2>1. 1 \in 1 .. n /\ \A k \in 2 .. n : k \in 1 .. n /\ k # 1
    OBVIOUS
  <2> QED
    BY <1>3, <2>1
<1> QED
  BY <1>2, <1>4

-----------------------------------------------------------------------------
(* Where the rows of the maps stand in a listing: pos is the place of each. *)
Gap(order, m) == m < Len(order) /\ Apart(order[m], order[m + 1])

Rows == [first : Int, last : Int, size : Int]

Placed(list, pos, order, k) ==
    /\ list \in Seq(Rows)
    /\ \A m \in 1 .. k : pos[m] \in 1 .. Len(list) /\ list[pos[m]] = ListedMap(order[m])
    /\ \A m \in 1 .. k, l \in 1 .. k : m < l => pos[m] < pos[l]
    /\ \A m \in 1 .. k : m + 1 =< k =>
          pos[m + 1] = pos[m] + (IF Gap(order, m) THEN 2 ELSE 1)
    /\ \A i \in 1 .. Len(list) : list[i] = Hole \/ \E m \in 1 .. k : i = pos[m]

(* The rows of the first k maps.                                            *)
Listed(list, pos, order, k) ==
    /\ Placed(list, pos, order, k)
    /\ pos[1] = 1
    /\ Len(list) = pos[k] + (IF Gap(order, k) THEN 1 ELSE 0)

(* The rows of one map.                                                     *)
LEMMA MapRowsAre ==
    ASSUME NEW order \in Seq(ChosenIoMap), NEW k \in 1 .. Len(order), NEW rows,
           rows = MapRows(order, k)
    PROVE  /\ rows \in Seq(Rows) /\ ListedMap(order[k]) \in Rows
           /\ Len(rows) = 1 + (IF Gap(order, k) THEN 1 ELSE 0)
           /\ rows[1] = ListedMap(order[k])
           /\ Gap(order, k) => rows[2] = Hole
<1>1. order[k] \in ChosenIoMap
  OBVIOUS
<1>2. ListedMap(order[k]) \in Rows
  <2>1. order[k].addr \in Int /\ order[k].size \in Int
    BY <1>1, AddrType DEF ChosenIoMap
  <2>2. (order[k].addr + order[k].size - 1) % SIZET \in Int
    <3>1. SIZET \in Nat /\ 0 < SIZET
      BY WidthAssumption
    <3> QED
      BY <2>1, <3>1, DivModInt
  <2> QED
    BY <2>1, <2>2 DEF ListedMap, Row, Rows
<1>3. Hole \in Rows
  BY DEF Hole, Rows
<1> DEFINE row == ListedMap(order[k])
           hole == Hole
<1>4. rows = << row >> \o (IF Gap(order, k) THEN << hole >> ELSE << >>)
  BY DEF MapRows, Gap
<1> HIDE DEF row, hole
<1>5. CASE Gap(order, k)
  <2> DEFINE u == << row >>
             v == << hole >>
  <2>1. /\ u \in Seq(Rows) /\ Len(u) = 1 /\ u[1] = row
        /\ v \in Seq(Rows) /\ Len(v) = 1 /\ v[1] = hole /\ rows = u \o v
    BY <1>2, <1>3, <1>4, <1>5 DEF row, hole
  <2> HIDE DEF u, v
  <2>2. /\ rows \in Seq(Rows) /\ Len(rows) = Len(u) + Len(v)
        /\ \A i \in 1 .. Len(u) : rows[i] = u[i]
        /\ \A i \in 1 .. Len(v) : rows[Len(u) + i] = v[i]
    <3>1. u \in Seq(Rows) /\ v \in Seq(Rows) /\ rows = u \o v
      BY <2>1
    <3> QED
      BY <3>1
  <2> QED
    BY <1>2, <1>5, <2>1, <2>2 DEF row, hole
<1>6. CASE ~Gap(order, k)
  <2>1. rows = << row >>
    BY <1>2, <1>4, <1>6 DEF row
  <2> QED
    BY <1>2, <1>6, <2>1 DEF row
<1> QED
  BY <1>5, <1>6

(* One more map is listed behind the others.                                *)
LEMMA OneMoreListed ==
    ASSUME NEW order \in Seq(ChosenIoMap), NEW k \in 2 .. Len(order),
           NEW list, NEW pos, Listed(list, pos, order, k - 1),
           NEW more, more = list \o MapRows(order, k)
    PROVE  \E place : Listed(more, place, order, k)
<1> DEFINE rows == MapRows(order, k)
           n == Len(list)
           place == [ m \in 1 .. k |-> IF m = k THEN n + 1 ELSE pos[m] ]
<1>1. /\ rows \in Seq(Rows) /\ ListedMap(order[k]) \in Rows
      /\ Len(rows) = 1 + (IF Gap(order, k) THEN 1 ELSE 0)
      /\ rows[1] = ListedMap(order[k])
      /\ Gap(order, k) => rows[2] = Hole
  <2>1. k \in 1 .. Len(order)
    OBVIOUS
  <2> HIDE DEF rows
  <2> QED
    BY <2>1, MapRowsAre DEF rows
<1>2. list \in Seq(Rows) /\ n \in Nat
  BY DEF Listed, Placed
<1>3. /\ more \in Seq(Rows) /\ Len(more) = n + Len(rows)
      /\ \A i \in 1 .. n : more[i] = list[i]
      /\ \A i \in 1 .. Len(rows) : more[n + i] = rows[i]
  <2>1. more = list \o rows
    OBVIOUS
  <2> HIDE DEF rows
  <2>2. rows \in Seq(Rows) /\ list \in Seq(Rows)
    BY <1>1, <1>2
  <2> QED
    BY <2>1, <2>2
<1> HIDE DEF rows
<1>4. /\ place[k] = n + 1
      /\ \A m \in 1 .. k - 1 : place[m] = pos[m] /\ m \in 1 .. k
      /\ \A m \in 1 .. k : m = k \/ m \in 1 .. k - 1
  OBVIOUS
<1> HIDE DEF place
<1>5. \A m \in 1 .. k - 1 : pos[m] \in 1 .. n /\ list[pos[m]] = ListedMap(order[m])
  BY DEF Listed, Placed
<1>6. Len(rows) \in {1, 2} /\ 1 \in 1 .. Len(rows)
  BY <1>1
<1>7. ASSUME NEW m \in 1 .. k
      PROVE  place[m] \in 1 .. Len(more) /\ more[place[m]] = ListedMap(order[m])
  <2>1. CASE m = k
    BY <1>1, <1>2, <1>3, <1>4, <1>6, <2>1, SMTT(30)
  <2>2. CASE m \in 1 .. k - 1
    <3>1. pos[m] \in 1 .. n /\ list[pos[m]] = ListedMap(order[m]) /\ place[m] = pos[m]
      BY <1>4, <1>5, <2>2
    <3>2. more[pos[m]] = list[pos[m]] /\ Len(more) >= n /\ Len(more) \in Int
      BY <1>2, <1>3, <1>6, <3>1
    <3> QED
      BY <1>2, <3>1, <3>2
  <2> QED
    BY <1>4, <2>1, <2>2
<1>8. ASSUME NEW m \in 1 .. k, NEW l \in 1 .. k, m < l PROVE place[m] < place[l]
  <2>1. m \in 1 .. k - 1
    BY <1>8
  <2>2. CASE l = k
    BY <1>2, <1>4, <1>5, <2>1, <2>2
  <2>3. CASE l \in 1 .. k - 1
    BY <1>4, <1>8, <2>1, <2>3 DEF Listed, Placed
  <2> QED
    BY <1>4, <2>2, <2>3
<1>9. ASSUME NEW m \in 1 .. k, m + 1 =< k
      PROVE  place[m + 1] = place[m] + (IF Gap(order, m) THEN 2 ELSE 1)
  <2>1. m \in 1 .. k - 1 /\ m + 1 \in 1 .. k
    BY <1>9
  <2>2. CASE m + 1 = k
    <3>1. n = pos[m] + (IF Gap(order, m) THEN 1 ELSE 0) /\ pos[m] \in Int
      <4>1. m = k - 1
        BY <2>2
      <4> QED
        BY <1>5, <2>1, <4>1 DEF Listed
    <3>2. place[m + 1] = n + 1 /\ place[m] = pos[m] /\ n \in Int
      BY <1>2, <1>4, <2>1, <2>2
    <3> HIDE DEF Gap
    <3> QED
      BY <3>1, <3>2
  <2>3. CASE m + 1 \in 1 .. k - 1
    <3>1. m + 1 =< k - 1
      BY <2>3
    <3> QED
      BY <1>4, <2>1, <2>3, <3>1 DEF Listed, Placed
  <2> QED
    BY <1>4, <2>1, <2>2, <2>3
<1>10. ASSUME NEW i \in 1 .. Len(more) PROVE more[i] = Hole \/ \E m \in 1 .. k : i = place[m]
  <2>1. CASE i \in 1 .. n
    <3>1. list[i] = Hole \/ \E m \in 1 .. k - 1 : i = pos[m]
      BY <2>1 DEF Listed, Placed
    <3> QED
      BY <1>3, <1>4, <2>1, <3>1
  <2>2. CASE i = n + 1
    BY <1>4, <2>2
  <2>3. CASE i = n + 2
    BY <1>1, <1>2, <1>3, <2>3
  <2> QED
    BY <1>2, <1>3, <1>6, <2>1, <2>2, <2>3
<1>11. place[1] = 1
  <2>1. 1 \in 1 .. k - 1 /\ pos[1] = 1
    BY DEF Listed
  <2> QED
    BY <1>4, <2>1
<1>12. Len(more) = place[k] + (IF Gap(order, k) THEN 1 ELSE 0)
  BY <1>1, <1>2, <1>3, <1>4
<1>13. Listed(more, place, order, k)
  BY <1>3, <1>7, <1>8, <1>9, <1>10, <1>11, <1>12 DEF Listed, Placed
<1> QED
  BY <1>13

(* The rows of all maps.                                                    *)
LEMMA AllListed ==
    ASSUME NEW order \in Seq(ChosenIoMap), Len(order) # 0
    PROVE  \E pos : Listed(FlattenSeq([ i \in DOMAIN order |-> MapRows(order, i) ]),
                           pos, order, Len(order))
<1> DEFINE n == Len(order)
           seqs == [ i \in DOMAIN order |-> MapRows(order, i) ]
<1>1. n \in Nat /\ n # 0 /\ DOMAIN order = 1 .. n /\ Len(seqs) = n
  OBVIOUS
<1>2. \A i \in 1 .. n : seqs[i] = MapRows(order, i)
  OBVIOUS
<1> HIDE DEF n, seqs
<1>3. PICK f : /\ f[1] = seqs[1]
               /\ \A k \in 2 .. n : f[k] = f[k - 1] \o seqs[k]
               /\ FlattenSeq(seqs) = f[n]
  BY <1>1, FlattenTrace
<1> DEFINE S == { k \in 0 .. n : k # 0 => \E pos : Listed(f[k], pos, order, k) }
<1>4. 0 \in S
  BY <1>1
<1>5. \E pos : Listed(f[1], pos, order, 1)
  <2> DEFINE rows == MapRows(order, 1)
             pos == [ m \in 1 .. 1 |-> 1 ]
  <2>1. f[1] = rows /\ 1 \in 1 .. Len(order)
    BY <1>1, <1>2, <1>3 DEF n
  <2>2. /\ rows \in Seq(Rows) /\ ListedMap(order[1]) \in Rows
        /\ Len(rows) = 1 + (IF Gap(order, 1) THEN 1 ELSE 0)
        /\ rows[1] = ListedMap(order[1])
        /\ Gap(order, 1) => rows[2] = Hole
    <3> HIDE DEF rows
    <3> QED
      BY <2>1, MapRowsAre DEF rows
  <2> HIDE DEF rows
  <2>3. pos[1] = 1 /\ \A m \in 1 .. 1 : m = 1
    OBVIOUS
  <2> HIDE DEF pos
  <2>4. ASSUME NEW i \in 1 .. Len(rows) PROVE rows[i] = Hole \/ \E m \in 1 .. 1 : i = pos[m]
    BY <2>2, <2>3
  <2>5. \A m \in 1 .. 1 : pos[m] \in 1 .. Len(rows) /\ rows[pos[m]] = ListedMap(order[m])
    BY <2>2, <2>3
  <2>6. \A m \in 1 .. 1, l \in 1 .. 1 : ~(m < l) /\ ~(m + 1 =< 1)
    OBVIOUS
  <2>7. Len(rows) = pos[1] + (IF Gap(order, 1) THEN 1 ELSE 0)
    BY <2>2, <2>3
  <2>8. Listed(rows, pos, order, 1)
    BY <2>2, <2>3, <2>4, <2>5, <2>6, <2>7 DEF Listed, Placed
  <2> QED
    BY <2>1, <2>8
<1>6. ASSUME NEW k \in 1 .. n, k - 1 \in S PROVE k \in S
  <2>1. CASE k = 1
    BY <1>5, <2>1
  <2>2. CASE k # 1
    <3>1. PICK pos : Listed(f[k - 1], pos, order, k - 1)
      BY <1>6, <2>2
    <3>2. k \in 2 .. n
      BY <1>1, <2>2
    <3>3. f[k] = f[k - 1] \o MapRows(order, k)
      BY <1>2, <1>3, <3>2
    <3>4. k \in 2 .. Len(order)
      BY <3>2 DEF n
    <3>5. \E place : Listed(f[k], place, order, k)
      BY <3>1, <3>3, <3>4, OneMoreListed
    <3> QED
      BY <3>5
  <2> QED
    BY <2>1, <2>2
<1> HIDE DEF S
<1>7. \A k \in 0 .. n : k \in S
  BY <1>1, <1>4, <1>6, MemoFold!UpTo
<1>8. n \in S
  BY <1>1, <1>7
<1>9. \E pos : Listed(f[n], pos, order, n)
  BY <1>1, <1>8 DEF S
<1> QED
  BY <1>3, <1>9 DEF n, seqs

(* One row behind others.                                                   *)
LEMMA OneRowMore ==
    ASSUME NEW front \in Seq(Rows), NEW row \in Rows, NEW whole, whole = front \o << row >>
    PROVE  /\ whole \in Seq(Rows) /\ Len(whole) = Len(front) + 1
           /\ \A i \in 1 .. Len(front) : whole[i] = front[i]
           /\ whole[Len(front) + 1] = row
<1> DEFINE u == << row >>
<1>1. u \in Seq(Rows) /\ Len(u) = 1 /\ u[1] = row
  OBVIOUS
<1>2. whole = front \o u
  OBVIOUS
<1> HIDE DEF u
<1>3. front \in Seq(Rows)
  OBVIOUS
<1>4. /\ whole \in Seq(Rows) /\ Len(whole) = Len(front) + Len(u)
      /\ \A i \in 1 .. Len(front) : whole[i] = front[i]
      /\ \A i \in 1 .. Len(u) : whole[Len(front) + i] = u[i]
  BY <1>1, <1>2, <1>3
<1>5. Len(front) \in Nat
  OBVIOUS
<1> QED
  BY <1>1, <1>4, <1>5

(* "none" before and behind them moves them at most by one.                 *)
LEMMA FramedPlaced ==
    ASSUME NEW order \in Seq(ChosenIoMap), Len(order) # 0, NEW list, NEW old,
           Listed(list, old, order, Len(order)),
           NEW head \in Seq(Rows), head = << >> \/ (Len(head) = 1 /\ head[1] = Hole)
    PROVE  \E pos : /\ Placed(head \o list \o << Hole >>, pos, order, Len(order))
                    /\ pos[1] = Len(head) + 1
                    /\ head # << >> => (head \o list \o << Hole >>)[1] = Hole
<1> SUFFICES ASSUME NEW whole, whole = head \o list \o << Hole >>
             PROVE  \E pos : /\ Placed(whole, pos, order, Len(order))
                             /\ pos[1] = Len(head) + 1
                             /\ head # << >> => whole[1] = Hole
  OBVIOUS
<1> DEFINE n == Len(order)
           h == Len(head)
           front == head \o list
           hole == Hole
           pos == [ m \in 1 .. n |-> old[m] + h ]
<1>1. /\ list \in Seq(Rows) /\ n \in Nat /\ 1 \in 1 .. n /\ h \in {0, 1}
      /\ h = 1 => head[1] = Hole
  BY DEF Listed, Placed
<1>2. hole \in Rows
  BY DEF Hole, Rows
<1>3. /\ front \in Seq(Rows) /\ Len(front) = h + Len(list)
      /\ \A i \in 1 .. h : front[i] = head[i]
      /\ \A i \in 1 .. Len(list) : front[h + i] = list[i]
  <2>1. list \in Seq(Rows)
    BY <1>1
  <2> QED
    BY <2>1
<1>4. whole = front \o << hole >>
  OBVIOUS
<1> HIDE DEF front, hole
<1>5. /\ whole \in Seq(Rows) /\ Len(whole) = Len(front) + 1
      /\ \A i \in 1 .. Len(front) : whole[i] = front[i]
      /\ whole[Len(front) + 1] = hole
  <2>1. front \in Seq(Rows)
    BY <1>3
  <2> QED
    BY <1>2, <1>4, <2>1, OneRowMore, ZenonT(60)
<1>6. /\ Len(whole) = h + Len(list) + 1 /\ Len(list) \in Nat
      /\ \A i \in 1 .. h : whole[i] = Hole
      /\ \A i \in 1 .. Len(list) : whole[h + i] = list[i]
      /\ whole[h + Len(list) + 1] = Hole
  <2>1. Len(list) \in Nat
    BY <1>1
  <2>2. \A i \in 1 .. h : i = 1 /\ i \in 1 .. Len(front)
    <3>1. Len(front) = h + Len(list)
      BY <1>3
    <3> HIDE DEF h
    <3> QED
      BY <1>1, <2>1, <3>1
  <2>3. \A i \in 1 .. Len(list) : h + i \in 1 .. Len(front)
    BY <1>1, <1>3, <2>1
  <2> HIDE DEF h
  <2>4. \A i \in 1 .. h : whole[i] = Hole
    BY <1>1, <1>3, <1>5, <2>2
  <2>5. \A i \in 1 .. Len(list) : whole[h + i] = list[i]
    BY <1>3, <1>5, <2>3
  <2> QED
    BY <1>3, <1>5, <2>1, <2>4, <2>5 DEF hole
<1>7. \A m \in 1 .. n : pos[m] = old[m] + h
  OBVIOUS
<1>8. \A m \in 1 .. n : old[m] \in 1 .. Len(list) /\ list[old[m]] = ListedMap(order[m])
  BY DEF Listed, Placed
<1> HIDE DEF h, pos
<1>9. ASSUME NEW m \in 1 .. n
      PROVE  pos[m] \in 1 .. Len(whole) /\ whole[pos[m]] = ListedMap(order[m])
  <2>1. old[m] \in 1 .. Len(list) /\ list[old[m]] = ListedMap(order[m]) /\ pos[m] = old[m] + h
    BY <1>7, <1>8
  <2>2. whole[h + old[m]] = list[old[m]]
    BY <1>6, <2>1
  <2>3. h + old[m] = old[m] + h /\ old[m] + h \in 1 .. Len(whole)
    BY <1>1, <1>6, <2>1
  <2> QED
    BY <2>1, <2>2, <2>3
<1>10. ASSUME NEW m \in 1 .. n, NEW l \in 1 .. n, m < l PROVE pos[m] < pos[l]
  <2>1. old[m] < old[l] /\ old[m] \in Int /\ old[l] \in Int
    BY <1>8, <1>10 DEF Listed, Placed
  <2> QED
    BY <1>1, <1>7, <2>1
<1>11. ASSUME NEW m \in 1 .. n, m + 1 =< n
       PROVE  pos[m + 1] = pos[m] + (IF Gap(order, m) THEN 2 ELSE 1)
  <2>1. old[m + 1] = old[m] + (IF Gap(order, m) THEN 2 ELSE 1) /\ m + 1 \in 1 .. n
    BY <1>1, <1>11 DEF Listed, Placed
  <2>2. old[m] \in Int
    BY <1>8
  <2> QED
    BY <1>1, <1>7, <2>1, <2>2
<1>12. ASSUME NEW i \in 1 .. Len(whole) PROVE whole[i] = Hole \/ \E m \in 1 .. n : i = pos[m]
  <2>1. CASE i =< h
    BY <1>1, <1>6, <2>1
  <2>2. CASE i = h + Len(list) + 1
    BY <1>6, <2>2
  <2>3. CASE h < i /\ i # h + Len(list) + 1
    <3>1. i - h \in 1 .. Len(list) /\ h + (i - h) = i
      BY <1>1, <1>6, <2>3
    <3>2. list[i - h] = Hole \/ \E m \in 1 .. n : i - h = old[m]
      BY <3>1 DEF Listed, Placed
    <3>3. whole[i] = list[i - h]
      BY <1>6, <3>1
    <3>4. CASE list[i - h] = Hole
      BY <3>3, <3>4
    <3>5. ASSUME NEW m \in 1 .. n, i - h = old[m] PROVE i = pos[m]
      BY <1>1, <1>7, <3>5
    <3> QED
      BY <3>2, <3>4, <3>5
  <2> QED
    BY <1>1, <2>1, <2>2, <2>3
<1>13. Placed(whole, pos, order, n)
  BY <1>5, <1>9, <1>10, <1>11, <1>12 DEF Placed
<1>14. pos[1] = h + 1
  BY <1>1, <1>7 DEF Listed
<1>15. head # << >> => whole[1] = Hole
  BY <1>1, <1>6 DEF h
<1> QED
  BY <1>13, <1>14, <1>15 DEF h

-----------------------------------------------------------------------------
(* What a listing must be of a table: ListingIsTable without the state.     *)
End(list, i) == list[i].first + list[i].size

Shows(list, T) ==
    \A a \in Addr : (GetIomapByAddrNonMemoised(T, a) # NULL)
                    <=> \E i \in DOMAIN list : list[i].first =< a /\ a < End(list, i)

Ends(list, behind) == \A i \in DOMAIN list : list[i] # Hole => list[i].last = End(list, i) - behind

Meets(list) ==
    \A i, j \in DOMAIN list : (i < j /\ list[i] # Hole /\ list[j] # Hole) =>
        /\ End(list, i) =< list[j].first \/ End(list, j) =< list[i].first
        /\ j = i + 1 => End(list, i) = list[j].first
        /\ j = i + 2 => End(list, i) # list[j].first

Begins(list) == list[1] # Hole <=> \E i \in DOMAIN list : list[i] # Hole /\ list[i].first = 0

(* An accepted map that fits in 32 bits is listed as it is built.           *)
LEMMA ListedRow ==
    ASSUME NEW c \in ChosenIoMap, AcceptedIoMap(c), c.size < 2 * HALF
    PROVE  /\ c.addr \in Nat /\ c.size \in Nat /\ 0 < c.size
           /\ Low32(c.size) = c.size
           /\ ListedMap(c).first = c.addr /\ ListedMap(c).size = c.size
           /\ ListedMap(c).last = c.addr + c.size - 1
           /\ (c.addr + c.size) % SIZET = c.addr + c.size
           /\ ListedMap(c) # Hole
<1>1. /\ c.addr \in Nat /\ c.addr < HALF /\ c.size \in Nat /\ 0 < c.size
      /\ c.size \in 0 .. SIZET - 1 /\ ~Negative(c.size)
      /\ HALF \in Nat /\ SIZET \in Nat /\ 2 * HALF =< SIZET /\ WORD = 2 * HALF
  BY AddrType, WidthAssumption DEF ChosenIoMap, AcceptedIoMap, WORD
<1>2. Low32(c.size) = c.size
  <2>1. c.size \in 0 .. WORD - 1
    BY <1>1
  <2> QED
    BY <1>1, <2>1, ModBelow DEF Low32
<1>3. c.size < HALF
  BY <1>1, <1>2 DEF Negative
<1>4. c.addr + c.size \in 0 .. SIZET - 1 /\ c.addr + c.size - 1 \in 0 .. SIZET - 1
  BY <1>1, <1>3
<1>5. /\ (c.addr + c.size) % SIZET = c.addr + c.size
      /\ (c.addr + c.size - 1) % SIZET = c.addr + c.size - 1
  BY <1>1, <1>4, ModBelow
<1>6. /\ ListedMap(c).first = c.addr /\ ListedMap(c).size = c.size
      /\ ListedMap(c).last = c.addr + c.size - 1
  BY <1>5 DEF ListedMap, Row
<1>7. ListedMap(c) # Hole
  BY <1>1, <1>6 DEF Hole
<1> QED
  BY <1>1, <1>2, <1>5, <1>6, <1>7

(* Accepted maps, none reaching into another.                               *)
Strewn(order) ==
    /\ order \in Seq(ChosenIoMap)
    /\ \A m \in 1 .. Len(order) : AcceptedIoMap(order[m]) /\ order[m].size < 2 * HALF
    /\ \A m, l \in 1 .. Len(order) : m < l =>
         \/ order[m].addr + order[m].size =< order[l].addr
         \/ order[l].addr + order[l].size =< order[m].addr

(* Maps that pass the overlap test do not, however they are arranged.       *)
LEMMA StrewnMaps ==
    ASSUME NEW maps \in Seq(ChosenIoMap), ~CheckOverlap(maps), NEW order, Arranged(order, maps),
           \A i \in DOMAIN maps : AcceptedIoMap(maps[i]) /\ maps[i].size < 2 * HALF
    PROVE  Strewn(order)
<1>1. /\ order \in Seq(ChosenIoMap) /\ DOMAIN maps = 1 .. Len(order)
      /\ \A j \in DOMAIN maps : \E i \in DOMAIN maps : order[j] = maps[i]
      /\ \A i \in DOMAIN maps : maps[i] \in ChosenIoMap
  BY DEF Arranged
<1>2. \A m \in 1 .. Len(order) : AcceptedIoMap(order[m]) /\ order[m].size < 2 * HALF
  BY <1>1
<1>3. ASSUME NEW i \in DOMAIN maps, NEW j \in DOMAIN maps, i # j, maps[j].addr >= maps[i].addr
      PROVE  maps[i].addr + maps[i].size =< maps[j].addr
  <2>1. /\ maps[j].addr # maps[i].addr
        /\ ~((maps[i].addr + maps[i].size - 1) % SIZET >= maps[j].addr)
    BY <1>3 DEF CheckOverlap
  <2>2. maps[i].addr + Low32(maps[i].size) =< maps[j].addr
    BY <1>1, <1>3, <2>1, RowsApart
  <2>3. Low32(maps[i].size) = maps[i].size
    BY <1>1, ListedRow
  <2> QED
    BY <2>2, <2>3
<1>4. ASSUME NEW m \in 1 .. Len(order), NEW l \in 1 .. Len(order), m < l
      PROVE  \/ order[m].addr + order[m].size =< order[l].addr
             \/ order[l].addr + order[l].size =< order[m].addr
  <2>1. \E i, j \in DOMAIN maps : i # j /\ order[m] = maps[i] /\ order[l] = maps[j]
    <3>1. m \in DOMAIN maps /\ l \in DOMAIN maps
      BY <1>1, Zenon
    <3> QED
      BY <1>4, <3>1, Zenon DEF Arranged
  <2>2. PICK i \in DOMAIN maps, j \in DOMAIN maps :
               i # j /\ order[m] = maps[i] /\ order[l] = maps[j]
    BY <2>1
  <2>3. maps[i].addr \in Int /\ maps[j].addr \in Int
    BY <1>1, AddrType DEF ChosenIoMap
  <2>4. CASE maps[j].addr >= maps[i].addr
    BY <1>3, <2>2, <2>4
  <2>5. CASE maps[i].addr >= maps[j].addr
    BY <1>3, <2>2, <2>5
  <2> QED
    BY <2>3, <2>4, <2>5
<1> QED
  BY <1>1, <1>2, <1>4 DEF Strewn

(* A listing in which every map has its place and "none" the others.        *)
LEMMA PlacedShows ==
    ASSUME NEW order, Strewn(order), Len(order) # 0, NEW list, NEW pos,
           Placed(list, pos, order, Len(order)),
           list[1] # Hole <=> \E m \in 1 .. Len(order) : order[m].addr = 0,
           NEW T, \A a \in Addr : (GetIomapByAddrNonMemoised(T, a) # NULL)
                     <=> \E m \in 1 .. Len(order) : /\ order[m].addr =< a
                                                     /\ a < order[m].addr + order[m].size
    PROVE  Shows(list, T) /\ Ends(list, 1) /\ Meets(list) /\ Begins(list)
<1> DEFINE n == Len(order)
<1>1. /\ order \in Seq(ChosenIoMap) /\ n \in Nat /\ list \in Seq(Rows)
      /\ DOMAIN list = 1 .. Len(list) /\ Len(list) \in Nat
  BY DEF Strewn, Placed
<1>2. \A m \in 1 .. n :
        /\ order[m].addr \in Nat /\ order[m].size \in Nat /\ 0 < order[m].size
        /\ ListedMap(order[m]).first = order[m].addr /\ ListedMap(order[m]).size = order[m].size
        /\ ListedMap(order[m]).last = order[m].addr + order[m].size - 1
        /\ (order[m].addr + order[m].size) % SIZET = order[m].addr + order[m].size
        /\ ListedMap(order[m]) # Hole
  <2> TAKE m \in 1 .. n
  <2>1. order[m] \in ChosenIoMap /\ AcceptedIoMap(order[m]) /\ order[m].size < 2 * HALF
    BY <1>1 DEF Strewn
  <2> QED
    BY <2>1, ListedRow
<1> HIDE DEF n
<1>3. \A m, l \in 1 .. n : m < l =>
        \/ order[m].addr + order[m].size =< order[l].addr
        \/ order[l].addr + order[l].size =< order[m].addr
  BY DEF Strewn, n
<1>4. /\ \A m \in 1 .. n : pos[m] \in 1 .. Len(list) /\ list[pos[m]] = ListedMap(order[m])
      /\ \A m \in 1 .. n, l \in 1 .. n : m < l => pos[m] < pos[l]
      /\ \A m \in 1 .. n : m + 1 =< n => pos[m + 1] = pos[m] + (IF Gap(order, m) THEN 2 ELSE 1)
      /\ \A i \in 1 .. Len(list) : list[i] = Hole \/ \E m \in 1 .. n : i = pos[m]
  BY DEF Placed, n
<1>5. \A m \in 1 .. n : /\ list[pos[m]].first = order[m].addr
                         /\ list[pos[m]].last = order[m].addr + order[m].size - 1
                         /\ End(list, pos[m]) = order[m].addr + order[m].size
  BY <1>2, <1>4 DEF End
<1>6. \A i \in DOMAIN list : list[i] = Hole => list[i].first = 0 /\ End(list, i) = 0
  BY DEF Hole, End
<1>7. Shows(list, T)
  <2> SUFFICES ASSUME NEW a \in Addr
               PROVE  (\E m \in 1 .. n : order[m].addr =< a /\ a < order[m].addr + order[m].size)
                      <=> \E i \in DOMAIN list : list[i].first =< a /\ a < End(list, i)
    BY DEF Shows, n
  <2>1. ASSUME NEW m \in 1 .. n, order[m].addr =< a, a < order[m].addr + order[m].size
        PROVE  \E i \in DOMAIN list : list[i].first =< a /\ a < End(list, i)
    BY <1>1, <1>4, <1>5, <2>1
  <2>2. ASSUME NEW i \in DOMAIN list, list[i].first =< a, a < End(list, i)
        PROVE  \E m \in 1 .. n : order[m].addr =< a /\ a < order[m].addr + order[m].size
    <3>1. list[i] # Hole
      BY <1>6, <2>2, AddrType
    <3>2. PICK m \in 1 .. n : i = pos[m]
      BY <1>1, <1>4, <3>1
    <3> QED
      BY <1>5, <2>2, <3>2
  <2> QED
    BY <2>1, <2>2
<1>8. Ends(list, 1)
  <2> SUFFICES ASSUME NEW i \in DOMAIN list, list[i] # Hole
               PROVE  list[i].last = End(list, i) - 1
    BY DEF Ends
  <2>1. PICK m \in 1 .. n : i = pos[m]
    BY <1>1, <1>4
  <2>2. list[i].last = order[m].addr + order[m].size - 1
    BY <1>5, <2>1
  <2>3. End(list, i) = order[m].addr + order[m].size
    BY <1>5, <2>1
  <2>4. order[m].addr \in Nat /\ order[m].size \in Nat
    BY <1>2
  <2> QED
    BY <2>2, <2>3, <2>4, SMTT(30)
<1>9. Meets(list)
  <2> SUFFICES ASSUME NEW i \in DOMAIN list, NEW j \in DOMAIN list, i < j,
                      list[i] # Hole, list[j] # Hole
               PROVE  /\ End(list, i) =< list[j].first \/ End(list, j) =< list[i].first
                      /\ j = i + 1 => End(list, i) = list[j].first
                      /\ j = i + 2 => End(list, i) # list[j].first
    BY DEF Meets
  <2>1. PICK m \in 1 .. n : i = pos[m]
    BY <1>1, <1>4
  <2>2. PICK l \in 1 .. n : j = pos[l]
    BY <1>1, <1>4
  <2>3. /\ list[i].first = order[m].addr /\ End(list, i) = order[m].addr + order[m].size
        /\ list[j].first = order[l].addr /\ End(list, j) = order[l].addr + order[l].size
    BY <1>5, <2>1, <2>2
  <2>4. m < l
    <3>1. i \in Int /\ j \in Int /\ m \in Int /\ l \in Int
      BY <1>1
    <3>2. l < m => j < i
      BY <1>4, <2>1, <2>2
    <3>3. l = m => j = i
      BY <2>1, <2>2
    <3> QED
      BY <3>1, <3>2, <3>3
  <2>5. End(list, i) =< list[j].first \/ End(list, j) =< list[i].first
    BY <1>3, <2>3, <2>4
  <2>6. m + 1 \in 1 .. n /\ i \in Int /\ j \in Int
    BY <1>1, <2>4
  <2>7. pos[m + 1] = i + (IF Gap(order, m) THEN 2 ELSE 1)
    BY <1>4, <2>1, <2>6
  <2>8. Gap(order, m) <=> order[m].addr + order[m].size # order[m + 1].addr
    BY <1>1, <1>2, <2>6 DEF Gap, Apart, n
  <2>9. CASE l = m + 1
    <3>1. CASE Gap(order, m)
      <4>1. j = i + 2 /\ End(list, i) # list[j].first
        BY <2>2, <2>3, <2>7, <2>8, <2>9, <3>1
      <4> QED
        BY <2>5, <2>6, <4>1
    <3>2. CASE ~Gap(order, m)
      <4>1. j = i + 1 /\ End(list, i) = list[j].first
        BY <2>2, <2>3, <2>7, <2>8, <2>9, <3>2
      <4> QED
        BY <2>5, <2>6, <4>1
    <3> QED
      BY <3>1, <3>2
  <2>10. CASE l # m + 1
    <3>1. m + 1 < l
      BY <1>1, <2>4, <2>10
    <3>2. pos[m + 1] < j
      BY <1>4, <2>2, <2>6, <3>1
    <3>3. j # i + 1
      BY <2>6, <2>7, <3>2
    <3>4. j = i + 2 => End(list, i) # list[j].first
      <4> SUFFICES ASSUME j = i + 2 PROVE End(list, i) # list[j].first
        OBVIOUS
      <4>1. ~Gap(order, m)
        BY <2>6, <2>7, <3>2
      <4>2. order[m].addr + order[m].size = order[m + 1].addr
        BY <2>8, <4>1
      <4>3. \/ order[m + 1].addr + order[m + 1].size =< order[l].addr
            \/ order[l].addr + order[l].size =< order[m + 1].addr
        BY <1>3, <2>6, <3>1
      <4>4. /\ order[m + 1].addr \in Nat /\ order[m + 1].size \in Nat /\ 0 < order[m + 1].size
            /\ order[l].addr \in Nat /\ order[l].size \in Nat /\ 0 < order[l].size
        BY <1>2, <2>6
      <4>5. order[m + 1].addr # order[l].addr
        BY <4>3, <4>4, SMTT(30)
      <4> QED
        BY <2>3, <4>2, <4>5
    <3> QED
      BY <2>5, <3>3, <3>4
  <2> QED
    BY <2>9, <2>10
<1>10. Begins(list)
  <2>1. ASSUME NEW m \in 1 .. n, order[m].addr = 0
        PROVE  \E i \in DOMAIN list : list[i] # Hole /\ list[i].first = 0
    BY <1>1, <1>2, <1>4, <1>5, <2>1
  <2>2. ASSUME NEW i \in DOMAIN list, list[i] # Hole, list[i].first = 0
        PROVE  \E m \in 1 .. n : order[m].addr = 0
    <3>1. PICK m \in 1 .. n : i = pos[m]
      BY <1>1, <1>4, <2>2
    <3> QED
      BY <1>5, <2>2, <3>1
  <2>3. list[1] # Hole <=> \E m \in 1 .. n : order[m].addr = 0
    BY DEF n
  <2> QED
    BY <2>1, <2>2, <2>3 DEF Begins
<1> QED
  BY <1>7, <1>8, <1>9, <1>10

(* The table of an accepted command line answers the addresses of the maps  *)
(* asked for.                                                               *)
LEMMA TableAnswers ==
    ASSUME NEW c, Accepted(c), ~CheckOverlap(c.choosen_iomaps), NEW a \in Addr
    PROVE  (GetIomapByAddrNonMemoised(TableOf(c), a) # NULL)
           <=> \E i \in DOMAIN TableOf(c) : /\ TableOf(c)[i].start_addr =< a
                                             /\ a < TableOf(c)[i].start_addr + TableOf(c)[i].size
<1> DEFINE T == TableOf(c)
           k == GetIomapByAddrNonMemoised(T, a)
<1>1. T \in Seq(IoMap) /\ TableInv(T)
  BY TableOfAccepted
<1> HIDE DEF T
<1>2. \A i \in DOMAIN T : Covers(T[i], a) <=> /\ T[i].start_addr =< a
                                               /\ a < T[i].start_addr + T[i].size
  <2> TAKE i \in DOMAIN T
  <2>1. T[i] \in IoMap
    BY <1>1
  <2>2. T[i].start_addr < HALF /\ T[i].size < HALF
    BY <1>1 DEF TableInv, RowsBounded
  <2> QED
    BY <2>1, <2>2, CoversRegion
<1>3. /\ k \in 0 .. Len(T)
      /\ k = NULL => \A i \in DOMAIN T : ~Covers(T[i], a)
      /\ k # NULL => Covers(T[k], a)
  BY <1>1, FindUnique
<1> HIDE DEF k
<1>4. k # NULL => k \in DOMAIN T
  BY <1>1, <1>3 DEF NULL
<1>5. k # NULL <=> \E i \in DOMAIN T : T[i].start_addr =< a /\ a < T[i].start_addr + T[i].size
  BY <1>2, <1>3, <1>4
<1> QED
  BY <1>5 DEF T, k

(* The listing of chosen maps.                                              *)
LEMMA MapsShown ==
    ASSUME NEW c, Accepted(c), ~CheckOverlap(c.choosen_iomaps), c.is_using_mmap,
           \A i \in DOMAIN c.choosen_iomaps : c.choosen_iomaps[i].size < 2 * HALF,
           NEW order \in Arrangements(c.choosen_iomaps), NEW head,
           head = IF \E i \in DOMAIN order : order[i].addr = 0 THEN << >> ELSE << Hole >>,
           NEW list, list = head \o FlattenSeq([ i \in DOMAIN order |-> MapRows(order, i) ])
                                 \o << Hole >>
    PROVE  Shows(list, TableOf(c)) /\ Ends(list, 1) /\ Meets(list) /\ Begins(list)
<1> DEFINE maps == c.choosen_iomaps
           body == FlattenSeq([ i \in DOMAIN order |-> MapRows(order, i) ])
           n == Len(order)
<1>1. /\ maps \in Seq(ChosenIoMap) /\ maps # << >>
      /\ \A i \in DOMAIN maps : AcceptedIoMap(maps[i]) /\ maps[i].size < 2 * HALF
  BY DEF Accepted, Cmdline
<1>2. Arranged(order, maps)
  BY <1>1, ArrangementsArrange
<1>3. Strewn(order)
  <2>1. \A i \in DOMAIN maps : AcceptedIoMap(maps[i]) /\ maps[i].size < 2 * HALF
    BY <1>1
  <2>2. maps \in Seq(ChosenIoMap) /\ ~CheckOverlap(maps)
    BY <1>1
  <2> HIDE DEF maps
  <2> QED
    BY <1>2, <2>1, <2>2, StrewnMaps
<1>4. order \in Seq(ChosenIoMap) /\ n \in Nat /\ n # 0 /\ 1 \in 1 .. n
      /\ DOMAIN order = 1 .. n /\ DOMAIN order = DOMAIN maps
  <2>1. order \in Seq(ChosenIoMap) /\ Len(order) = Len(maps) /\ DOMAIN order = DOMAIN maps
    BY <1>2 DEF Arranged
  <2>2. Len(maps) # 0
    BY <1>1
  <2> QED
    BY <2>1, <2>2
<1>5. PICK old : Listed(body, old, order, n)
  BY <1>4, AllListed
<1> HIDE DEF body
<1>6. head \in Seq(Rows) /\ (head = << >> \/ (Len(head) = 1 /\ head[1] = Hole))
  <2>1. Hole \in Rows
    BY DEF Hole, Rows
  <2> DEFINE hole == Hole
  <2>2. << hole >> \in Seq(Rows) /\ Len(<< hole >>) = 1 /\ << hole >>[1] = hole
    <3> HIDE DEF hole
    <3>1. hole \in Rows
      BY <2>1 DEF hole
    <3> QED
      BY <3>1
  <2>3. head = << >> \/ head = << hole >>
    OBVIOUS
  <2> HIDE DEF hole
  <2> QED
    BY <2>2, <2>3 DEF hole
<1>7. list = head \o body \o << Hole >>
  BY DEF body
<1>8. PICK pos : /\ Placed(list, pos, order, n)
                 /\ pos[1] = Len(head) + 1
                 /\ head # << >> => list[1] = Hole
  <2>1. order \in Seq(ChosenIoMap) /\ n # 0 /\ head \in Seq(Rows)
    BY <1>4, <1>6
  <2>2. head = << >> \/ (Len(head) = 1 /\ head[1] = Hole)
    BY <1>6
  <2>3. \E pos : /\ Placed(head \o body \o << Hole >>, pos, order, n)
                 /\ pos[1] = Len(head) + 1
                 /\ head # << >> => (head \o body \o << Hole >>)[1] = Hole
    BY <1>5, <2>1, <2>2, FramedPlaced
  <2> QED
    BY <1>7, <2>3, Zenon
<1>9. list[1] # Hole <=> \E m \in 1 .. n : order[m].addr = 0
  <2>1. head = << >> <=> \E m \in 1 .. n : order[m].addr = 0
    BY <1>4
  <2>2. head = << >> => list[1] # Hole
    <3> SUFFICES ASSUME head = << >> PROVE list[1] # Hole
      OBVIOUS
    <3>1. pos[1] = 1
      BY <1>8
    <3>2. list[1] = ListedMap(order[1])
      BY <1>4, <1>8, <3>1 DEF Placed
    <3>3. order[1] \in ChosenIoMap /\ AcceptedIoMap(order[1]) /\ order[1].size < 2 * HALF
      BY <1>3, <1>4 DEF Strewn
    <3> QED
      BY <3>2, <3>3, ListedRow
  <2> QED
    BY <1>8, <2>1, <2>2
<1>10. \A a \in Addr : (GetIomapByAddrNonMemoised(TableOf(c), a) # NULL)
          <=> \E m \in 1 .. n : order[m].addr =< a /\ a < order[m].addr + order[m].size
  <2> TAKE a \in Addr
  <2>1. TableOf(c) = [ i \in DOMAIN maps |-> IomapAdd(maps[i].addr, maps[i].size) ]
    BY DEF TableOf
  <2>2. \A i \in DOMAIN maps : /\ TableOf(c)[i].start_addr = maps[i].addr
                                /\ TableOf(c)[i].size = maps[i].size
    <3> TAKE i \in DOMAIN maps
    <3>1. maps[i] \in ChosenIoMap /\ AcceptedIoMap(maps[i]) /\ maps[i].size < 2 * HALF
      BY <1>1
    <3>2. Low32(maps[i].size) = maps[i].size
      BY <3>1, ListedRow
    <3> QED
      BY <2>1, <3>2 DEF IomapAdd
  <2>3. DOMAIN TableOf(c) = DOMAIN maps
    BY <2>1
  <2>4. /\ \A i \in DOMAIN maps : \E j \in DOMAIN maps : order[j] = maps[i]
        /\ \A j \in DOMAIN maps : \E i \in DOMAIN maps : order[j] = maps[i]
    BY <1>2 DEF Arranged
  <2>5. (\E i \in DOMAIN maps : maps[i].addr =< a /\ a < maps[i].addr + maps[i].size)
        <=> \E m \in DOMAIN maps : order[m].addr =< a /\ a < order[m].addr + order[m].size
    <3> HIDE DEF maps
    <3> QED
      BY <2>4, Zenon
  <2>6. (GetIomapByAddrNonMemoised(TableOf(c), a) # NULL)
        <=> \E i \in DOMAIN TableOf(c) : /\ TableOf(c)[i].start_addr =< a
                                          /\ a < TableOf(c)[i].start_addr + TableOf(c)[i].size
    BY TableAnswers
  <2>7. (GetIomapByAddrNonMemoised(TableOf(c), a) # NULL)
        <=> \E i \in DOMAIN maps : maps[i].addr =< a /\ a < maps[i].addr + maps[i].size
    <3> HIDE DEF maps
    <3> QED
      BY <2>2, <2>3, <2>6
  <2> QED
    BY <1>4, <2>5, <2>7
<1> QED
  BY <1>3, <1>4, <1>8, <1>9, <1>10, PlacedShows

(* The listing of -m: one row from 0, "none" behind it.                     *)
LEMMA RamShown ==
    ASSUME NEW c, Accepted(c), ~c.is_using_mmap, NEW list,
           list = << Row(0, c.ramamnt, c.ramamnt), Hole >>
    PROVE  Shows(list, TableOf(c)) /\ Ends(list, 0) /\ Meets(list) /\ Begins(list)
<1> DEFINE row == Row(0, c.ramamnt, c.ramamnt)
           hole == Hole
<1>1. c.ramamnt \in Nat /\ 0 < c.ramamnt /\ c.ramamnt < HALF /\ c.choosen_iomaps = << >>
  BY AddrType DEF Accepted, Cmdline
<1>2. /\ row.first = 0 /\ row.size = c.ramamnt /\ row.last = c.ramamnt /\ row # Hole
      /\ hole.first = 0 /\ hole.size = 0 /\ hole = Hole
  BY <1>1 DEF Row, Hole
<1>3. list = << row, hole >>
  OBVIOUS
<1> HIDE DEF row, hole
<1>4. DOMAIN list = {1, 2} /\ list[1] = row /\ list[2] = hole
  BY <1>3
<1>5. Shows(list, TableOf(c))
  <2> SUFFICES ASSUME NEW a \in Addr
               PROVE  (GetIomapByAddrNonMemoised(TableOf(c), a) # NULL)
                      <=> \E i \in DOMAIN list : list[i].first =< a /\ a < End(list, i)
    BY DEF Shows
  <2>1. ~CheckOverlap(c.choosen_iomaps)
    BY <1>1 DEF CheckOverlap
  <2>2. TableOf(c) = << IomapAdd(0, c.ramamnt) >>
    BY DEF TableOf
  <2>3. Low32(c.ramamnt) = c.ramamnt
    <3>1. c.ramamnt \in Addr
      BY DEF Accepted, Cmdline
    <3> QED
      BY <3>1, Low32Below
  <2>4. /\ DOMAIN TableOf(c) = {1}
        /\ TableOf(c)[1].start_addr = 0 /\ TableOf(c)[1].size = c.ramamnt
    BY <2>2, <2>3 DEF IomapAdd
  <2>5. GetIomapByAddrNonMemoised(TableOf(c), a) # NULL <=> a < c.ramamnt
    <3>1. (GetIomapByAddrNonMemoised(TableOf(c), a) # NULL)
          <=> \E i \in DOMAIN TableOf(c) : /\ TableOf(c)[i].start_addr =< a
                                            /\ a < TableOf(c)[i].start_addr + TableOf(c)[i].size
      BY <2>1, TableAnswers
    <3>2. 0 =< a /\ 0 + c.ramamnt = c.ramamnt
      BY <1>1, AddrType
    <3> QED
      BY <2>4, <3>1, <3>2
  <2>6. End(list, 1) = c.ramamnt /\ End(list, 2) = 0
    BY <1>1, <1>2, <1>4 DEF End
  <2>7. (\E i \in DOMAIN list : list[i].first =< a /\ a < End(list, i)) <=> a < c.ramamnt
    BY <1>2, <1>4, <2>6, AddrType
  <2> QED
    BY <2>5, <2>7
<1>6. Meets(list) /\ Ends(list, 0)
  BY <1>1, <1>2, <1>4 DEF Meets, Ends, End
<1>7. Begins(list)
  BY <1>2, <1>4 DEF Begins
<1> QED
  BY <1>5, <1>6, <1>7

(* What --show-map prints is printed of a command line that passed the     *)
(* overlap test, and of that command line.  ListingIsTable alone is not    *)
(* inductive: it does not say where the listing came from.                  *)
Printed ==
    outcome = "memory map shown" =>
        /\ \E order \in Arrangements(r.choosen_iomaps) : listing = ShowMap(order)
        /\ ~CheckOverlap(r.choosen_iomaps)

(* Nothing is printed before the last argument.                             *)
LEMMA PrintedInit == Init => Printed
BY DEF Init, Printed

(* No step but the last prints anything, and none follows it.               *)
LEMMA PrintedNext == Printed /\ [Next]_vars => Printed'
<1> SUFFICES ASSUME Printed, [Next]_vars
             PROVE  Printed'
  OBVIOUS
<1>1. CASE UNCHANGED vars
  <2>1. r' = r /\ outcome' = outcome /\ listing' = listing
    BY <1>1 DEF vars
  <2>2. \A order : ShowMap(order)' = ShowMap(order)
    BY <2>1 DEF ShowMap
  <2> QED
    BY <2>1, <2>2 DEF Printed
<1>2. CASE Next /\ ~(NoMoreArguments /\ outcome' = "memory map shown")
  <2>1. outcome' # "memory map shown"
    <3>1. CASE \E option \in {"--debug", "--noop-stub", "--show-map"} : Flag(option)
      BY <1>2, <3>1 DEF Next, Flag, Exit, Once
    <3>2. CASE Filename \/ Version \/ Unknown
      BY <1>2, <3>2 DEF Next, Filename, Version, Unknown, Exit, Once
    <3>3. CASE \E n \in Numbers : LoadAt(n) \/ Ram(n)
      BY <1>2, <3>3 DEF Next, LoadAt, Ram, Exit, Once
    <3>4. CASE \E n, kib \in Numbers : MemoryMap(n, kib)
      BY <1>2, <3>4 DEF Next, MemoryMap, Exit
    <3> QED
      BY <1>2, <3>1, <3>2, <3>3, <3>4 DEF Next
  <2> QED
    BY <2>1 DEF Printed
<1>3. CASE NoMoreArguments /\ outcome' = "memory map shown"
  <2>1. /\ ~CheckOverlap(r.choosen_iomaps) /\ r' = r
        /\ \E order \in Arrangements(r.choosen_iomaps) : listing' = ShowMap(order)
    BY <1>3 DEF NoMoreArguments, Exit
  <2>2. \A order : ShowMap(order)' = ShowMap(order)
    BY <2>1 DEF ShowMap
  <2> QED
    BY <2>1, <2>2 DEF Printed
<1> QED
  BY <1>1, <1>2, <1>3

(* What is printed of an acceptable command line is its table.              *)
LEMMA PrintedIsTable == AcceptedSoFar /\ Printed => ListingIsTable
<1> SUFFICES ASSUME AcceptedSoFar, Printed, outcome = "memory map shown",
                    \A i \in DOMAIN r.choosen_iomaps : r.choosen_iomaps[i].size < 2 * HALF
             PROVE  /\ Shows(listing, TableOf(r))
                    /\ Ends(listing, IF r.is_using_mmap THEN 1 ELSE 0)
                    /\ Meets(listing) /\ Begins(listing)
  BY DEF ListingIsTable, Shows, Ends, Meets, Begins, End
<1>1. Accepted(r) /\ ~CheckOverlap(r.choosen_iomaps)
  BY DEF AcceptedSoFar, Printed
<1>2. PICK order \in Arrangements(r.choosen_iomaps) : listing = ShowMap(order)
  BY DEF Printed
<1>3. CASE ~r.is_using_mmap
  <2>1. listing = << Row(0, r.ramamnt, r.ramamnt), Hole >>
    BY <1>2, <1>3 DEF ShowMap
  <2> QED
    BY <1>1, <1>3, <2>1, RamShown
<1>4. CASE r.is_using_mmap
  <2> DEFINE head == IF \E i \in DOMAIN order : order[i].addr = 0 THEN << >> ELSE << Hole >>
  <2>1. listing = head \o FlattenSeq([ i \in DOMAIN order |-> MapRows(order, i) ]) \o << Hole >>
    BY <1>2, <1>4 DEF ShowMap
  <2>2. Shows(listing, TableOf(r)) /\ Ends(listing, 1) /\ Meets(listing) /\ Begins(listing)
    BY <1>1, <1>4, <2>1, MapsShown, Zenon
  <2> QED
    BY <1>4, <2>2
<1> QED
  BY <1>3, <1>4

(* The memory map shown is the memory map the emulator builds, in whatever  *)
(* order qsort leaves it: --show-map lists exactly the addresses the table  *)
(* of this command line answers, each once, and puts "none" between two     *)
(* maps exactly where the second does not begin at the end of the first.    *)
THEOREM ListingIsTheTable == Spec => []ListingIsTable
<1>1. Spec => []Printed
  BY PrintedInit, PrintedNext, PTL DEF Spec
<1> QED
  BY <1>1, AcceptedInductive, PrintedIsTable, PTL
=============================================================================

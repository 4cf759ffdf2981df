----------------------------- MODULE PartsProofs -----------------------------
(***************************************************************************)
(* Theorems about the components that share nothing with the others: the   *)
(* allocator, the singleton and the log of MCShared, the observers, the    *)
(* plugin loader, the animals and the registries of MCLifetimes, and the   *)
(* send loops, the double buffer and the protocol of MCBytes, each for     *)
(* every value of its constants.                                           *)
(***************************************************************************)
EXTENDS MCShared, MCLifetimes, MCBytes, FiniteSetTheorems,
        WellFoundedInduction, SequenceTheorems, TLAPS

(* A step of the three side by side is a step of each or leaves it alone.  *)
LEMMA SideBySide ==
  SharedSpec => Spec /\ Si!Spec /\ Lo!Spec
<1>1. SharedInit => Init /\ Si!Init /\ Lo!Init
  BY DEF SharedInit
<1>2. [SharedNext]_<<sharedPart, vars, siVars, loVars>> =>
        [Next]_vars /\ [Si!Next]_(Si!vars) /\ [Lo!Next]_(Lo!vars)
  BY DEF SharedNext, siVars, loVars, Si!vars, Lo!vars, Lo!callVars
<1> QED
  BY <1>1, <1>2, PTL DEF SharedSpec, Spec, Si!Spec, Lo!Spec
-----------------------------------------------------------------------------
SizeRange == 0 .. Width - 1

(* Whoever has a block has one of the rounded length, and the pool knows   *)
(* the length of what it keeps.                                            *)
Rounded ==
  /\ \A b \in Blocks : where[b] \in {"held", "pushing"} => length[b] = Round(asked[b])
  /\ FiledByLength

AllocatorInv == TypeOK /\ Rounded
-----------------------------------------------------------------------------
(* Rounding stays within std::size_t, and never below what was asked for   *)
(* unless the sum wraps around.                                            *)
LEMMA RoundFacts ==
  ASSUME NEW bytes \in SizeRange
  PROVE  /\ Round(bytes) \in SizeRange
         /\ Round(bytes) >= bytes \/ bytes > Width - Granule
<1> USE LazyAllocatorAssumption DEF SizeRange
<1> DEFINE q == bytes \div Granule
           r == bytes % Granule
           up == (q + 1) * Granule
<1>1. q \in Nat /\ r \in 0 .. Granule - 1 /\ bytes = Granule * q + r
  OBVIOUS
<1>2. up \in Nat /\ up = bytes - r + Granule
  <2>1. (q + 1) * Granule = Granule * q + Granule
    BY <1>1
  <2> QED
    BY <1>1, <2>1
<1>3. CASE r = 0
  BY <1>3 DEF Round
<1>4. CASE r # 0
  <2>1. Round(bytes) = up % Width
    BY <1>4 DEF Round
  <2>2. up % Width \in SizeRange
    BY <1>2
  <2>3. bytes <= Width - Granule => up < Width
    BY <1>1, <1>2, <1>4
  <2>4. up < Width => up % Width = up
    BY <1>2
  <2> HIDE DEF q, r, up
  <2> QED
    BY <1>1, <1>2, <2>1, <2>2, <2>3, <2>4
<1> QED
  BY <1>3, <1>4

(* A new pool is empty, and nobody holds or pushes a block.                *)
LEMMA AllocatorInit == Init => AllocatorInv
  BY LazyAllocatorAssumption
     DEF Init, AllocatorInv, TypeOK, Rounded, FiledByLength, container, Stages, Pushers

(* pop hands out a block of the rounded length: one that was filed under   *)
(* it, or a new one.                                                       *)
LEMMA PopKeeps ==
  ASSUME AllocatorInv, NEW bytes \in Sizes, Pop(bytes)
  PROVE  AllocatorInv'
<1> USE LazyAllocatorAssumption DEF AllocatorInv, TypeOK, Stages, Pushers
<1>1. Round(bytes) \in 0 .. Width - 1 /\ bytes \in 0 .. Width - 1
  BY RoundFacts DEF SizeRange
<1>2. PICK b \in Blocks :
        /\ \/ b \in container /\ key[b] = Round(bytes) /\ length' = length
           \/ where[b] = "free" /\ length' = [length EXCEPT ![b] = Round(bytes)]
        /\ where' = [where EXCEPT ![b] = "held"]
        /\ asked' = [asked EXCEPT ![b] = bytes]
        /\ key' = key /\ pushing' = pushing
  BY DEF Pop
<1>3. where[b] \in {"pooled", "free"}
  BY <1>2 DEF container
<1>4. TypeOK'
  BY <1>1, <1>2, <1>3
<1>5. Rounded'
  BY <1>1, <1>2, <1>3 DEF Rounded, FiledByLength, container
<1> QED
  BY <1>4, <1>5

(* Every step of the allocator keeps the lengths it rounded to; pushFiles  *)
(* computes the key that pop had computed.                                 *)
LEMMA AllocatorStep ==
  ASSUME AllocatorInv, [Next]_vars
  PROVE  AllocatorInv'
<1> USE LazyAllocatorAssumption DEF AllocatorInv, TypeOK, Stages, Pushers
<1>1. ASSUME NEW bytes \in Sizes, Pop(bytes) PROVE AllocatorInv'
  BY <1>1, PopKeeps
<1>2. ASSUME NEW t \in Threads, NEW b \in Blocks, PushTests(t, b) PROVE AllocatorInv'
  BY <1>2 DEF PushTests, Rounded, FiledByLength, container
<1>3. ASSUME NEW b \in Blocks, PushLoses(b) PROVE AllocatorInv'
  BY <1>3 DEF PushLoses, Rounded, FiledByLength, container
<1>4. ASSUME NEW t \in Threads, PushFiles(t) PROVE AllocatorInv'
  <2>1. PICK b \in Blocks : b = pushing[t] /\ where[b] = "pushing"
    BY <1>4 DEF PushFiles
  <2>2. asked[b] \in SizeRange
    BY DEF SizeRange
  <2>3. Round(asked[b]) \in 0 .. Width - 1
    BY <2>2, RoundFacts DEF SizeRange
  <2>4. TypeOK'
    BY <1>4, <2>1, <2>3 DEF PushFiles
  <2>5. Rounded'
    BY <1>4, <2>1 DEF PushFiles, Rounded, FiledByLength, container
  <2> QED
    BY <2>4, <2>5
<1>5. CASE Clear
  BY <1>5 DEF Clear, Rounded, FiledByLength, container
<1>6. CASE UNCHANGED vars
  BY <1>6 DEF vars, Rounded, FiledByLength, container
<1> QED
  BY <1>1, <1>2, <1>3, <1>4, <1>5, <1>6 DEF Next

(* AllocatorInv holds in every reachable state.                            *)
LEMMA AllocatorInvariance == Spec => []AllocatorInv
<1> QED
  BY AllocatorInit, AllocatorStep, PTL DEF Spec

(* The variables keep their types, and two threads never push one block.   *)
THEOREM AllocatorTypes == Spec => []TypeOK
<1>1. AllocatorInv => TypeOK
  BY DEF AllocatorInv
<1> QED
  BY <1>1, AllocatorInvariance, PTL

(* pop hands a pooled block out for a bytes its length was made for.        *)
THEOREM PoolKnowsLengths == Spec => []FiledByLength
<1>1. AllocatorInv => FiledByLength
  BY DEF AllocatorInv, Rounded
<1> QED
  BY <1>1, AllocatorInvariance, PTL

(* Every block is long enough, but for the sizes whose rounding wraps.     *)
THEOREM BlocksAreLongEnough == Spec => []LongEnough
<1>1. AllocatorInv => LongEnough
  BY RoundFacts DEF AllocatorInv, TypeOK, Rounded, LongEnough, SizeRange
<1> QED
  BY <1>1, AllocatorInvariance, PTL
-----------------------------------------------------------------------------
(* Only the unlocked test adds to the sum of what the container holds and  *)
(* what is on its way there, and it passes below the capacity only.        *)
LEMMA StepPoolBounded ==
  ASSUME AllocatorInv, PoolBounded, [Next]_vars
  PROVE  PoolBounded'
<1> USE LazyAllocatorAssumption DEF AllocatorInv, TypeOK, Stages
<1>1. /\ IsFiniteSet(container) /\ Cardinality(container) \in Nat
      /\ IsFiniteSet(Pushers) /\ Cardinality(Pushers) \in Nat
      /\ Cardinality(Threads) \in Nat
  BY FS_Subset, FS_CardinalityType DEF container, Pushers
<1>2. /\ IsFiniteSet(container') /\ Cardinality(container') \in Nat
      /\ IsFiniteSet(Pushers') /\ Cardinality(Pushers') \in Nat
      /\ Cardinality(Pushers') <= Cardinality(Threads)
  BY FS_Subset, FS_CardinalityType DEF container, Pushers
<1>3. ASSUME container' \subseteq container, Pushers' \subseteq Pushers
      PROVE  PoolBounded'
  <2>1. Cardinality(container') <= Cardinality(container)
    BY <1>1, <1>3, FS_Subset
  <2>2. Cardinality(Pushers') <= Cardinality(Pushers)
    BY <1>1, <1>3, FS_Subset
  <2> QED
    BY <1>1, <1>2, <2>1, <2>2 DEF PoolBounded
<1>4. ASSUME NEW bytes \in Sizes, Pop(bytes) PROVE PoolBounded'
  <2>1. container' \subseteq container /\ Pushers' = Pushers
    BY <1>4 DEF Pop, container, Pushers
  <2> QED
    BY <1>3, <2>1
<1>5. ASSUME NEW t \in Threads, NEW b \in Blocks, PushTests(t, b) PROVE PoolBounded'
  <2>1. CASE Cardinality(container) < Capacity
    <3>1. container' = container
      BY <1>5, <2>1 DEF PushTests, container
    <3> QED
      BY <1>1, <1>2, <2>1, <3>1 DEF PoolBounded
  <2>2. CASE ~(Cardinality(container) < Capacity)
    <3>1. container' \subseteq container /\ Pushers' = Pushers
      BY <1>5, <2>2 DEF PushTests, container, Pushers
    <3> QED
      BY <1>3, <3>1
  <2> QED
    BY <2>1, <2>2
<1>6. ASSUME NEW b \in Blocks, PushLoses(b) PROVE PoolBounded'
  <2>1. container' \subseteq container /\ Pushers' = Pushers
    BY <1>6 DEF PushLoses, container, Pushers
  <2> QED
    BY <1>3, <2>1
<1>7. ASSUME NEW t \in Threads, PushFiles(t) PROVE PoolBounded'
  <2>1. t \in Pushers /\ Pushers' = Pushers \ {t}
    BY <1>7 DEF PushFiles, Pushers
  <2>2. pushing[t] \notin container /\ container' = container \union {pushing[t]}
    BY <1>7 DEF PushFiles, container, Pushers
  <2>3. Cardinality(Pushers') = Cardinality(Pushers) - 1
    BY <1>1, <2>1, FS_RemoveElement
  <2>4. Cardinality(container') = Cardinality(container) + 1
    BY <1>1, <2>2, FS_AddElement
  <2> QED
    BY <1>1, <2>3, <2>4 DEF PoolBounded
<1>8. CASE Clear
  <2>1. container' = {} /\ Pushers' = Pushers
    BY <1>8 DEF Clear, container, Pushers
  <2> QED
    BY <1>3, <2>1
<1>9. CASE UNCHANGED vars
  <2>1. container' = container /\ Pushers' = Pushers
    BY <1>9 DEF vars, container, Pushers
  <2> QED
    BY <1>3, <2>1
<1> QED
  BY <1>4, <1>5, <1>6, <1>7, <1>8, <1>9 DEF Next

(* The unlocked test of push lets the container outgrow its capacity by    *)
(* fewer blocks than there are threads.                                    *)
THEOREM ContainerIsBounded == Spec => []PoolBounded
<1>1. Init => PoolBounded
  <2> SUFFICES ASSUME Init PROVE PoolBounded
    OBVIOUS
  <2>1. container = {} /\ Pushers = {}
    BY LazyAllocatorAssumption DEF Init, container, Pushers
  <2>2. Cardinality(Threads) \in Nat
    BY LazyAllocatorAssumption, FS_CardinalityType
  <2> QED
    BY <2>1, <2>2, FS_EmptySet, LazyAllocatorAssumption DEF PoolBounded
<1>2. AllocatorInv /\ PoolBounded /\ [Next]_vars => PoolBounded'
  BY StepPoolBounded
<1> QED
  BY <1>1, <1>2, AllocatorInvariance, PTL DEF Spec

(* PoolServes: the bound, the filing and the lengths together.             *)
THEOREM PoolKeepsServing == Spec => []PoolServes
  BY AllocatorTypes, PoolKnowsLengths, BlocksAreLongEnough, ContainerIsBounded, PTL
     DEF PoolServes
-----------------------------------------------------------------------------
(* Whoever assigns has made the object; it is stored whole, or is being    *)
(* assigned; and nobody copies before its first word is there.             *)
MadeIsStored ==
  /\ \A t \in Users : pc[t] = "assign" => made = 1
  /\ made = 1 => stored = Si!Words \/ \E t \in Users : pc[t] = "assign"
  /\ \A t \in Users : pc[t] = "copy" => "object" \in stored

OneInv == Si!TypeOK /\ Si!MadeOnce /\ Si!ReturnsIt /\ MadeIsStored

(* The first state has no object, and nobody in instance().                *)
LEMMA SingletonInit ==
  Si!Init => OneInv
BY SharedAssumption DEF Si!Init, OneInv, Si!TypeOK, Si!MadeOnce, Si!ReturnsIt, MadeIsStored, Si!Words

(* Every step keeps the invariant: the second test, under the mutex, finds *)
(* the object whole or not made at all.                                    *)
LEMMA SingletonStep ==
  ASSUME OneInv, [Si!Next]_Si!vars
  PROVE  OneInv'
<1> USE SharedAssumption DEF OneInv, Si!TypeOK, Si!MadeOnce, Si!ReturnsIt, MadeIsStored
<1>1. ASSUME NEW t \in Users, Si!Tests(t) PROVE OneInv'
  BY <1>1 DEF Si!Tests, Si!Goes
<1>2. ASSUME NEW t \in Users, Si!Locks(t) PROVE OneInv'
  BY <1>2 DEF Si!Locks, Si!Goes
<1>3. ASSUME NEW t \in Users, Si!TestsAgain(t) PROVE OneInv'
  <2>1. CASE "object" \in stored
    BY <1>3, <2>1 DEF Si!TestsAgain, Si!Goes
  <2>2. CASE "object" \notin stored
    <3>1. made = 0
      BY <1>3, <2>2 DEF Si!TestsAgain, Si!Goes, Si!Words
    <3> QED  BY <1>3, <2>2, <3>1 DEF Si!TestsAgain, Si!Goes
  <2> QED  BY <2>1, <2>2
<1>4. ASSUME NEW t \in Users, Si!Assigns(t) PROVE OneInv'
  <2>1. /\ pc[t] = "assign" /\ made = 1 /\ made' = 1
        /\ stored' \in SUBSET Si!Words /\ stored \subseteq stored' /\ stored' # {}
        /\ UNCHANGED <<copy, static>>
    BY <1>4 DEF Si!Assigns, Si!Goes
  <2>2. CASE stored' = Si!Words
    BY <1>4, <2>1, <2>2 DEF Si!Assigns, Si!Goes, Si!Words
  <2>3. CASE stored' # Si!Words
    BY <1>4, <2>1, <2>3 DEF Si!Assigns, Si!Goes
  <2> QED  BY <2>2, <2>3
<1>5. ASSUME NEW t \in Users, Si!Copies(t) PROVE OneInv'
  BY <1>5 DEF Si!Copies, Si!Goes
<1>6. ASSUME NEW t \in Users, Si!Drops(t) PROVE OneInv'
  BY <1>6 DEF Si!Drops, Si!Goes
<1>7. CASE Si!Exits
  BY <1>7 DEF Si!Exits
<1>8. CASE UNCHANGED Si!vars
  BY <1>8 DEF Si!vars
<1> QED  BY <1>1, <1>2, <1>3, <1>4, <1>5, <1>6, <1>7, <1>8 DEF Si!Next

(* What the counter knows keeps the object: a thread whose copy has the    *)
(* counter is an owner, and so is ptr until the program ends.              *)
LEMMA OwnersKeep == Si!KeepsIt
BY DEF Si!KeepsIt, Si!Destroyed, Si!Owners

(* instance() makes one object, under the mutex, whatever the test outside *)
(* of it reads, and returns it to everybody, for any set of threads.       *)
THEOREM OneObject == SharedSpec => []OneForAll
<1>1. OneInv => OneForAll
  BY OwnersKeep DEF OneInv, OneForAll, Si!OneForAll
<1> QED
  BY <1>1, SideBySide, SingletonInit, SingletonStep, PTL DEF Si!Spec
-----------------------------------------------------------------------------
Lines == [time : Nat, due : Nat]

(* What a thread in a call knows: the time it took, and the one its line   *)
(* will show.                                                              *)
Locals ==
  /\ file \in Seq(Lines)
  /\ now \in Nat \ {0} /\ tt \in [Threads -> Nat] /\ text \in [Threads -> Nat]
  /\ show \in [Threads -> BOOLEAN]
  /\ \A t \in Threads :
       /\ logPc[t] \in {"localtime", "format", "file"} => tt[t] \in 1 .. now
       /\ logPc[t] = "file" => text[t] \in 0 .. now

(* While no two calls overlapped there is one call at a time: the struct   *)
(* and the line have its own time, and no line of the file a later one.    *)
Alone ==
  /\ \A t, u \in Threads : logPc[t] # "out" /\ logPc[u] # "out" => t = u
  /\ \A t \in Threads :
       /\ logPc[t] = "format" => tm = tt[t]
       /\ logPc[t] = "file" => text[t] = tt[t]
       /\ logPc[t] \in {"localtime", "format", "file"} =>
            \A i \in 1 .. Len(file) : file[i].time <= tt[t]
  /\ \A i \in 1 .. Len(file) : file[i].time = file[i].due
  /\ \A i, j \in 1 .. Len(file) : i < j => file[i].time <= file[j].time

LogInv ==
  /\ Lo!TypeOK /\ Locals
  /\ ~mixed => Alone
  /\ ~shown => \A t \in Threads : ~show[t]
  /\ writer /\ ~shown => ~mixed

(* The first state has no line and no call.                                *)
LEMMA LogInit == Lo!Init => LogInv
<1> SUFFICES ASSUME Lo!Init PROVE LogInv
  OBVIOUS
<1> USE SharedAssumption DEF Lo!Init
<1>1. Len(file) = 0 /\ DOMAIN file = {} /\ file \in Seq(Lines)
  OBVIOUS
<1>2. Lo!TypeOK
  <2>1. {writer, on, mixed, shown} \subseteq BOOLEAN
    BY Zenon
  <2>2. /\ logMutex \in Threads \union {NoThread} /\ tm \in 0 .. now
        /\ logPc \in [Threads -> {"out", "clock", "localtime", "format", "file"}]
    OBVIOUS
  <2>3. \A t \in Threads : logMutex # t /\ logPc[t] = "out"
    OBVIOUS
  <2> QED
    BY <1>1, <2>1, <2>2, <2>3 DEF Lo!TypeOK
<1>3. Locals
  BY <1>1 DEF Locals
<1>4. Alone
  BY <1>1 DEF Alone
<1> QED
  BY <1>2, <1>3, <1>4 DEF LogInv

(* What the end of a call adds to the file.                                *)
LEMMA LineFacts ==
  ASSUME Locals, NEW l \in Lines, file' = Append(file, l)
  PROVE  /\ file' \in Seq(Lines) /\ Len(file) \in Nat
         /\ DOMAIN file = 1 .. Len(file) /\ DOMAIN file' = 1 .. Len(file')
         /\ Len(file') = Len(file) + 1 /\ file'[Len(file) + 1] = l
         /\ \A i \in 1 .. Len(file) : file'[i] = file[i]
  BY DEF Locals

(* Every step of a call, and of the clock, keeps the invariant: a write of *)
(* LogWriter starts when no other one is on, for it holds the mutex.       *)
LEMMA LogStep ==
  ASSUME LogInv, [Lo!Next]_(Lo!vars)
  PROVE  LogInv'
<1> USE SharedAssumption DEF Lo!Goes, Lo!Overlaps
<1>0. DOMAIN file = 1 .. Len(file) /\ Len(file) \in Nat
      /\ \A i \in 1 .. Len(file) : file[i].time \in Nat /\ file[i].due \in Nat
  <2>1. file \in Seq(Lines)
    BY DEF LogInv, Locals
  <2>2. \A i \in 1 .. Len(file) : file[i] \in Lines
    BY <2>1
  <2> QED
    BY <2>1, <2>2 DEF Lines
<1>1. ASSUME NEW t \in Threads, Lo!Writes(t) PROVE LogInv'
  <2>1. Lo!TypeOK' /\ Locals'
    BY <1>1 DEF Lo!Writes, LogInv, Lo!TypeOK, Locals
  <2>2. ~mixed' => Alone'
    BY <1>1 DEF Lo!Writes, LogInv, Lo!TypeOK, Locals, Alone
  <2>3. /\ ~shown' => \A u \in Threads : ~show'[u]
        /\ writer' /\ ~shown' => ~mixed'
    BY <1>1 DEF Lo!Writes, LogInv, Lo!TypeOK, Locals
  <2> QED
    BY <2>1, <2>2, <2>3 DEF LogInv
<1>2. ASSUME NEW t \in Threads, Lo!Shows(t) PROVE LogInv'
  <2>1. Lo!TypeOK' /\ Locals'
    BY <1>2 DEF Lo!Shows, LogInv, Lo!TypeOK, Locals
  <2>2. ~mixed' => Alone'
    BY <1>2 DEF Lo!Shows, LogInv, Lo!TypeOK, Locals, Alone
  <2>3. shown'
    BY <1>2 DEF Lo!Shows
  <2> QED
    BY <2>1, <2>2, <2>3 DEF LogInv
<1>3. ASSUME NEW t \in Threads, Lo!Clock(t) PROVE LogInv'
  <2>1. Lo!TypeOK' /\ Locals'
    BY <1>3 DEF Lo!Clock, LogInv, Lo!TypeOK, Locals
  <2>2. ~mixed' => Alone'
    <3>1. \A i \in 1 .. Len(file) : file[i].time <= now
      BY <1>0 DEF LogInv, Lo!TypeOK
    <3> QED
      BY <1>3, <3>1 DEF Lo!Clock, LogInv, Lo!TypeOK, Locals, Alone
  <2> QED
    BY <1>3, <2>1, <2>2 DEF Lo!Clock, LogInv
<1>4. ASSUME NEW t \in Threads, Lo!Localtime(t) PROVE LogInv'
  <2>1. Lo!TypeOK' /\ Locals'
    BY <1>4 DEF Lo!Localtime, LogInv, Lo!TypeOK, Locals
  <2>2. ~mixed' => Alone'
    BY <1>4 DEF Lo!Localtime, LogInv, Lo!TypeOK, Locals, Alone
  <2> QED
    BY <1>4, <2>1, <2>2 DEF Lo!Localtime, LogInv
<1>5. ASSUME NEW t \in Threads, Lo!Formats(t) PROVE LogInv'
  <2>1. Lo!TypeOK' /\ Locals'
    BY <1>5 DEF Lo!Formats, LogInv, Lo!TypeOK, Locals
  <2>2. ~mixed' => Alone'
    BY <1>5 DEF Lo!Formats, LogInv, Lo!TypeOK, Locals, Alone
  <2> QED
    BY <1>5, <2>1, <2>2 DEF Lo!Formats, LogInv
<1>6. ASSUME NEW t \in Threads, Lo!Files(t) PROVE LogInv'
  <2>1. /\ logPc[t] = "file" /\ logPc' = [logPc EXCEPT ![t] = "out"]
        /\ logMutex' = IF show[t] THEN logMutex ELSE NoThread
        /\ UNCHANGED <<writer, on, now, tm, show, tt, text, mixed, shown>>
        /\ tt[t] \in 1 .. now /\ text[t] \in 0 .. now /\ now \in Nat
    BY <1>6 DEF Lo!Files, LogInv, Locals
  <2>2. /\ {writer, on, mixed, shown}' \subseteq BOOLEAN
        /\ logMutex' \in Threads \union {NoThread} /\ tm' \in 0 .. now'
        /\ logPc' \in [Threads -> {"out", "clock", "localtime", "format", "file"}]
        /\ \A u \in Threads : logMutex' = u <=> writer' /\ logPc'[u] # "out" /\ ~show'[u]
    BY <1>6, <2>1 DEF Lo!Files, LogInv, Lo!TypeOK, Locals
  <2>3. CASE UNCHANGED file
    <3>1. Lo!TypeOK' /\ Locals'
      BY <2>1, <2>2, <2>3 DEF LogInv, Lo!TypeOK, Locals
    <3>2. ~mixed' => Alone'
      BY <2>1, <2>3 DEF LogInv, Lo!TypeOK, Alone
    <3> QED
      BY <2>1, <3>1, <3>2 DEF LogInv
  <2>4. CASE file' = Append(file, [time |-> text[t], due |-> tt[t]])
    <3> DEFINE l == [time |-> text[t], due |-> tt[t]]
    <3>1. l \in Lines /\ l.time = text[t] /\ l.due = tt[t]
      BY <2>1 DEF Lines
    <3> HIDE DEF l
    <3>2. /\ file' \in Seq(Lines)
          /\ DOMAIN file' = 1 .. Len(file')
          /\ Len(file') = Len(file) + 1 /\ file'[Len(file) + 1] = l
          /\ \A i \in 1 .. Len(file) : file'[i] = file[i]
      BY <2>4, <3>1, LineFacts DEF LogInv, l
    <3>3. 1 .. Len(file') = (1 .. Len(file)) \union {Len(file) + 1}
      BY <1>0, <3>2
    <3>4. Lo!TypeOK' /\ Locals'
      <4>1. \A i \in DOMAIN file' : file'[i].time \in 0 .. now /\ file'[i].due \in 1 .. now
        BY <1>0, <2>1, <3>1, <3>2, <3>3 DEF LogInv, Lo!TypeOK
      <4> QED
        BY <2>1, <2>2, <3>2, <4>1 DEF LogInv, Lo!TypeOK, Locals
    <3>5. ASSUME ~mixed PROVE Alone'
      <4>1. Alone /\ text[t] = tt[t]
        BY <2>1, <3>5 DEF LogInv, Alone
      <4>2. \A u \in Threads : logPc'[u] = "out"
        BY <2>1, <4>1 DEF LogInv, Lo!TypeOK, Alone
      <4>3. \A i \in 1 .. Len(file) : file[i].time <= tt[t]
        BY <2>1, <4>1 DEF Alone
      <4>4. \A i \in 1 .. Len(file') : file'[i].time = file'[i].due
        BY <3>1, <3>2, <3>3, <4>1 DEF Alone
      <4>5. \A i, j \in 1 .. Len(file') : i < j => file'[i].time <= file'[j].time
        <5> SUFFICES ASSUME NEW i \in 1 .. Len(file'), NEW j \in 1 .. Len(file'), i < j
                     PROVE  file'[i].time <= file'[j].time
          OBVIOUS
        <5>1. i \in 1 .. Len(file)
          BY <1>0, <3>2
        <5>2. CASE j \in 1 .. Len(file)
          BY <3>2, <4>1, <5>1, <5>2 DEF Alone
        <5>3. CASE j = Len(file) + 1
          BY <3>1, <3>2, <4>1, <4>3, <5>1, <5>3
        <5> QED
          BY <3>3, <5>2, <5>3
      <4> QED
        BY <4>2, <4>4, <4>5 DEF Alone
    <3> QED
      BY <2>1, <3>4, <3>5 DEF LogInv
  <2> QED
    BY <1>6, <2>3, <2>4 DEF Lo!Files
<1>7. CASE Lo!Clear
  <2>1. Lo!TypeOK' /\ Locals'
    BY <1>7 DEF Lo!Clear, Lo!callVars, LogInv, Lo!TypeOK, Locals
  <2>2. ~mixed' => Alone'
    BY <1>7 DEF Lo!Clear, Lo!callVars, LogInv, Alone
  <2> QED
    BY <1>7, <2>1, <2>2 DEF Lo!Clear, Lo!callVars, LogInv
<1>8. CASE Lo!Tick
  <2>1. Lo!TypeOK' /\ Locals'
    BY <1>8 DEF Lo!Tick, Lo!callVars, LogInv, Lo!TypeOK, Locals
  <2>2. ~mixed' => Alone'
    BY <1>8 DEF Lo!Tick, Lo!callVars, LogInv, Alone
  <2> QED
    BY <1>8, <2>1, <2>2 DEF Lo!Tick, Lo!callVars, LogInv
<1>9. CASE UNCHANGED Lo!vars
  BY <1>9 DEF Lo!vars, Lo!callVars, LogInv, Lo!TypeOK, Locals, Alone
<1> QED
  BY <1>1, <1>2, <1>3, <1>4, <1>5, <1>6, <1>7, <1>8, <1>9 DEF Lo!Next

(* For any threads, clock and number of lines: as long as no two calls     *)
(* overlap every line has its own time and the times go up, and the writes *)
(* of a LogWriter do not overlap.                                          *)
THEOREM TimesOfLines == SharedSpec => []TimesAreTrue
<1>1. LogInv => TimesAreTrue
  <2>1. LogInv => DOMAIN file = 1 .. Len(file)
    BY DEF LogInv, Locals
  <2> QED
    BY <2>1 DEF LogInv, Alone, TimesAreTrue, Lo!TimesAreTrue
<1> QED
  BY <1>1, SideBySide, LogInit, LogStep, PTL DEF Lo!Spec
-----------------------------------------------------------------------------
(* A short string is offered once, from its beginning.                     *)
Untouched == loop = "string" /\ size < MaxLen /\ ~done => pos = 0

(* A packet of the buffer's size: not offered yet, or taken by one send.   *)
AllOrNothing ==
  loop = "packet" /\ size = MaxLen /\ whole =>
    (pos = 0 /\ past = 0) \/ (pos = size /\ past = size)

SendInv ==
  /\ SendTypeOK /\ PastIsBounded /\ TrueIsExact
  /\ (result => done) /\ Untouched /\ AllOrNothing

(* Room is never nothing, and exceeds what is left by less than a buffer.  *)
LEMMA RoomIsBounded ==
  ASSUME NEW res \in Nat \ {0}
  PROVE  Room(res) \in 1 .. MaxLen /\ Room(res) - res < MaxLen
  BY SendLoopAssumption DEF Room

(* What an offer that starts within the data does to the positions.        *)
LEMMA OfferIsBounded ==
  ASSUME SendTypeOK, PastIsBounded, NEW len \in Nat,
         pos + len < size + MaxLen, Offer(len)
  PROVE  /\ pos' \in Nat /\ past' \in Nat /\ whole' \in BOOLEAN
         /\ PastIsBounded'
<1>1. size \in Nat /\ MaxLen \in Nat
  BY SendLoopAssumption DEF SendTypeOK
<1>2. past' \in Nat /\ past' < size + MaxLen
  BY <1>1 DEF Offer, SendTypeOK, PastIsBounded
<1>3. pos' \in Nat /\ whole' \in BOOLEAN
  BY DEF Offer, SendTypeOK
<1> QED
  BY <1>2, <1>3 DEF Offer, PastIsBounded

(* Both loops begin before their data.                                     *)
LEMMA SendBegins == SendInit => SendInv
<1> SUFFICES ASSUME SendInit PROVE SendInv
  OBVIOUS
<1>1. SendTypeOK
  BY SendLoopAssumption DEF SendInit, SendTypeOK
<1>2. PastIsBounded
  BY SendLoopAssumption DEF SendInit, PastIsBounded
<1> QED
  BY <1>1, <1>2 DEF SendInit, SendInv, TrueIsExact, Untouched, AllOrNothing

(* Every send, whatever of it the kernel takes, and every end of a loop    *)
(* keeps the bounds.                                                       *)
LEMMA SendStep == SendInv /\ [SendNext]_sendVars => SendInv'
<1> SUFFICES ASSUME SendInv, [SendNext]_sendVars PROVE SendInv'
  OBVIOUS
<1> USE DEF SendInv
<1>0. size \in Nat /\ MaxLen \in Nat \ {0} /\ pos \in Nat
  BY SendLoopAssumption DEF SendTypeOK
<1>1. CASE PacketSends
  <2>1. size - pos \in Nat \ {0}
    BY <1>0, <1>1 DEF PacketSends
  <2> DEFINE len == Room(size - pos)
  <2>2. len \in Nat /\ pos + len < size + MaxLen
    BY <1>0, <2>1, RoomIsBounded
  <2> HIDE DEF len
  <2>3. Offer(len) /\ UNCHANGED <<loop, size, result, done>>
    BY <1>1 DEF PacketSends, Offer, len
  <2>4. /\ pos' \in Nat /\ past' \in Nat /\ whole' \in BOOLEAN
        /\ PastIsBounded'
    BY <2>2, <2>3, OfferIsBounded
  <2>5. SendTypeOK' /\ TrueIsExact' /\ (result' => done') /\ Untouched'
    BY <1>1, <2>3, <2>4 DEF PacketSends, SendTypeOK, TrueIsExact, Untouched
  <2>6. AllOrNothing'
    <3> SUFFICES ASSUME size = MaxLen, whole'
                 PROVE  pos' = size /\ past' = size
      BY <2>3 DEF AllOrNothing
    <3>1. whole /\ pos' = pos + len
      BY <2>3 DEF Offer
    <3>2. pos = 0 /\ past = 0
      BY <1>0, <1>1, <3>1 DEF AllOrNothing, PacketSends
    <3>3. len = MaxLen
      BY <1>0, <3>2 DEF len, Room
    <3> QED
      BY <1>0, <2>3, <3>1, <3>2, <3>3 DEF Offer
  <2> QED
    BY <2>4, <2>5, <2>6
<1>2. CASE PacketEnds
  BY <1>2 DEF PacketEnds, SendTypeOK, PastIsBounded, TrueIsExact, Untouched,
              AllOrNothing
<1>3. CASE StringShort
  <2>0. loop = "string" /\ UNCHANGED <<loop, size>> /\ done' = TRUE
    BY <1>3 DEF StringShort, Offer
  <2>1. CASE Offer(size) /\ result' = (pos' = size)
    <3>1. pos + size < size + MaxLen
      BY <1>0, <1>3 DEF StringShort, Untouched
    <3>2. /\ pos' \in Nat /\ past' \in Nat /\ whole' \in BOOLEAN
          /\ PastIsBounded'
      BY <1>0, <2>1, <3>1, OfferIsBounded
    <3>3. result' \in BOOLEAN /\ TrueIsExact'
      BY <2>0, <2>1 DEF TrueIsExact
    <3> QED
      BY <2>0, <3>2, <3>3 DEF SendTypeOK, Untouched, AllOrNothing
  <2>2. CASE /\ result' = FALSE \/ (size = 0 /\ result' = TRUE)
             /\ UNCHANGED <<loop, size, pos, past, whole>>
    <3>1. TrueIsExact'
      BY <1>3, <2>2 DEF StringShort, TrueIsExact, Untouched
    <3> QED
      BY <2>0, <2>2, <3>1 DEF SendTypeOK, PastIsBounded, Untouched, AllOrNothing
  <2> QED
    BY <1>3, <2>1, <2>2 DEF StringShort
<1>4. CASE StringSends
  <2>0. /\ Offer(MaxLen) /\ loop = "string" /\ size >= MaxLen /\ ~done
        /\ UNCHANGED <<loop, size, result, done>>
    BY <1>4 DEF StringSends, Offer
  <2>1. pos + MaxLen < size + MaxLen
    BY <1>0, <1>4 DEF StringSends
  <2>2. /\ pos' \in Nat /\ past' \in Nat /\ whole' \in BOOLEAN
        /\ PastIsBounded'
    BY <1>0, <2>0, <2>1, OfferIsBounded
  <2>3. Untouched'
    BY <1>0, <2>0 DEF Untouched
  <2> QED
    BY <2>0, <2>2, <2>3 DEF SendTypeOK, TrueIsExact, AllOrNothing
<1>5. CASE StringEnds
  BY <1>5 DEF StringEnds, SendTypeOK, PastIsBounded, TrueIsExact, Untouched,
              AllOrNothing
<1>6. CASE UNCHANGED sendVars
  BY <1>6 DEF sendVars, SendTypeOK, PastIsBounded, TrueIsExact, Untouched, AllOrNothing
<1> QED
  BY <1>1, <1>2, <1>3, <1>4, <1>5, <1>6 DEF SendNext

(* SendInv holds in every reachable state.                                 *)
THEOREM SendInvariance == SendSpec => []SendInv
  BY SendBegins, SendStep, PTL DEF SendSpec

(* LoopTypes: the positions of both loops stay natural numbers.          *)
THEOREM LoopTypes == SendSpec => []SendTypeOK
<1>1. SendInv => SendTypeOK
  BY DEF SendInv
<1> QED
  BY <1>1, SendInvariance, PTL

(* OverrunIsBounded: for any buffer and any size, whatever the kernel      *)
(* takes, no range given to send ends a buffer or more behind the data.    *)
THEOREM OverrunIsBounded == SendSpec => []PastIsBounded
<1>1. SendInv => PastIsBounded
  BY DEF SendInv
<1> QED
  BY <1>1, SendInvariance, PTL

(* NoEmptyOffer: the packet loop always asks the kernel to take something. *)
THEOREM NoEmptyOffer == SendSpec => []NeverOffersNothing
<1>1. SendInv => NeverOffersNothing
  <2> SUFFICES ASSUME SendInv, pos < size
               PROVE  Room(size - pos) \in 1 .. MaxLen
    BY DEF NeverOffersNothing
  <2>1. size - pos \in Nat \ {0}
    BY SendLoopAssumption DEF SendInv, SendTypeOK
  <2> QED
    BY <2>1, RoomIsBounded
<1> QED
  BY <1>1, SendInvariance, PTL

(* FullPacketsAreExact: a packet of the buffer's size is sent exactly, and *)
(* nothing behind it is read, unless the kernel took a part of it.         *)
THEOREM FullPacketsAreExact == SendSpec => []PacketsAreExact
<1>1. SendInv => PacketsAreExact
  BY SendLoopAssumption DEF SendInv, SendTypeOK, AllOrNothing, PacketsAreExact
<1> QED
  BY <1>1, SendInvariance, PTL

(* TrueMeansSent: sendMessage of strings returns true only when the kernel *)
(* took as many bytes as the string has.                                   *)
THEOREM TrueMeansSent == SendSpec => []TrueIsExact
<1>1. SendInv => TrueIsExact
  BY DEF SendInv
<1> QED
  BY <1>1, SendInvariance, PTL

(* LoopsAreBounded: all of it, for every buffer, size and kernel.          *)
THEOREM LoopsStayBounded == SendSpec => []LoopsAreBounded
  BY LoopTypes, OverrunIsBounded, NoEmptyOffer, FullPacketsAreExact,
     TrueMeansSent, PTL DEF LoopsAreBounded
-----------------------------------------------------------------------------
(* Animals: what the constructor and the destructor do to the one library. *)
LEMMA AnimalsStep == AnimalsAgree /\ [An!Next]_(An!vars) => AnimalsAgree'
<1> SUFFICES ASSUME AnimalsAgree, [An!Next]_(An!vars) PROVE AnimalsAgree'
  OBVIOUS
<1> USE DEF AnimalsAgree, An!AnimalsAgree, An!TypeOK, An!NoImplLeft, An!MuteByAnother,
        An!CrashIsUnfound, An!Found, An!Functions
<1>1. ASSUME NEW a \in Animal, An!ConstructsWithout(a) PROVE AnimalsAgree'
  BY <1>1 DEF An!ConstructsWithout
<1>2. ASSUME NEW a \in Animal, An!Constructs(a) PROVE AnimalsAgree'
  BY <1>2 DEF An!Constructs
<1>3. ASSUME NEW a \in Animal, An!CallsNull(a) PROVE AnimalsAgree'
  BY <1>3 DEF An!CallsNull, An!Made, An!Called
<1>4. ASSUME NEW a \in Animal, An!Destructs(a) PROVE AnimalsAgree'
  BY <1>4 DEF An!Destructs, An!Made
<1>5. CASE UNCHANGED An!vars
  BY <1>5 DEF An!vars
<1> QED
  BY <1>1, <1>2, <1>3, <1>4, <1>5 DEF An!Next

(* For any number of Animals: nobody is mute but by the end of another one, *)
(* no impl is left behind, and only a library that did not open, or lacks  *)
(* a function that is called, is fatal.                                    *)
THEOREM AnimalsShare == An!Spec => []AnimalsAgree
<1>1. An!Init => AnimalsAgree
  BY DEF An!Init, AnimalsAgree, An!AnimalsAgree, An!TypeOK, An!NoImplLeft, An!MuteByAnother,
     An!CrashIsUnfound, An!Functions
<1> QED
  BY <1>1, AnimalsStep, PTL DEF An!Spec
-----------------------------------------------------------------------------
(* The linker counts no more references than were opened, and a function   *)
(* that open gave has its library until a close was granted.               *)
LoaderInv ==
  /\ HandleTells
  /\ refs <= opens /\ failed \in BOOLEAN /\ freed \in BOOLEAN
  /\ func = "code" => refs > 0 \/ freed

(* open, parse, close and the end keep what a handle tells of its library. *)
LEMMA LoaderStep == LoaderInv /\ [Pl!Next]_(Pl!vars) => LoaderInv'
<1> SUFFICES ASSUME LoaderInv, [Pl!Next]_(Pl!vars) PROVE LoaderInv'
  OBVIOUS
<1> USE LifetimesAssumption DEF LoaderInv, HandleTells, Pl!HandleTells, Pl!TypeOK,
        Pl!HandleIsTrueElsewhere, Pl!HandleIsFalseByClose, Pl!Alive
<1>1. CASE Pl!OpenRefuses
  BY <1>1 DEF Pl!OpenRefuses
<1>2. CASE Pl!OpenLoads
  <2>1. /\ handle = "null" /\ UNCHANGED <<windows, func, life, plProc, failed, freed>>
        /\ opens < MaxOpens /\ opens' = opens + 1 /\ opened' \in BOOLEAN /\ plProc = "up"
        /\ (handle' = "lib" /\ refs' = refs + 1) \/ UNCHANGED <<handle, refs>>
    BY <1>2 DEF Pl!OpenLoads
  <2>2. refs \in Nat /\ opens \in Nat /\ MaxOpens \in Nat
    OBVIOUS
  <2> QED
    BY <2>1, <2>2
<1>3. CASE Pl!Close
  <2>1. /\ UNCHANGED <<windows, opened, func, life, plProc, opens>> /\ plProc = "up"
        /\ failed' \in BOOLEAN /\ freed' \in BOOLEAN
    BY <1>3 DEF Pl!Close, Pl!CloseElsewhere, Pl!CloseOnWindows, Pl!Frees, Pl!Refuses
  <2>2. CASE Pl!Frees
    <3>1. refs \in Nat /\ refs > 0 /\ refs' = refs - 1 /\ freed' = TRUE /\ failed' = failed
      BY <2>2 DEF Pl!Frees
    <3>2. (~windows /\ handle' = "null" /\ handle = "lib") \/ (windows /\ handle' = handle)
      <4>1. ~Pl!Refuses
        <5>1. Pl!Refuses => refs' = refs
          BY DEF Pl!Refuses
        <5>2. refs' # refs
          BY <3>1
        <5> QED
          BY <5>1, <5>2
      <4> QED
        BY <1>3, <4>1 DEF Pl!Close, Pl!CloseElsewhere, Pl!CloseOnWindows
    <3> QED
      BY <2>1, <3>1, <3>2
  <2>3. CASE Pl!Refuses
    <3>1. refs' = refs /\ freed' = freed /\ (failed => failed') /\ (refs > 0 => failed')
      BY <2>3 DEF Pl!Refuses
    <3>2. (~windows /\ handle' = handle) \/ (windows /\ handle' = "null")
      BY <1>3, <2>3 DEF Pl!Close, Pl!CloseElsewhere, Pl!CloseOnWindows, Pl!Frees, Pl!Refuses
    <3> QED
      BY <2>1, <3>1, <3>2
  <2> QED
    BY <1>3, <2>2, <2>3 DEF Pl!Close, Pl!CloseElsewhere, Pl!CloseOnWindows
<1>4. CASE Pl!Parse
  BY <1>4 DEF Pl!Parse
<1>5. CASE Pl!Calls
  BY <1>5 DEF Pl!Calls, Pl!loaderVars
<1>6. CASE Pl!Destroy
  BY <1>6 DEF Pl!Destroy
<1>7. CASE UNCHANGED Pl!vars
  BY <1>7 DEF Pl!vars, Pl!loaderVars
<1> QED
  BY <1>1, <1>2, <1>3, <1>4, <1>5, <1>6, <1>7 DEF Pl!Next

(* However often the library is opened and closed, the handle tells on     *)
(* both platforms what a close left it, and what kills the process.        *)
THEOREM HandlesTell == Pl!Spec => []HandleTells
<1>1. Pl!Init => LoaderInv
  <2> SUFFICES ASSUME Pl!Init PROVE LoaderInv
    OBVIOUS
  <2>1. windows \in BOOLEAN /\ opened \in BOOLEAN /\ failed \in BOOLEAN /\ freed \in BOOLEAN
    BY DEF Pl!Init
  <2> QED
    BY <2>1, LifetimesAssumption DEF Pl!Init, LoaderInv, HandleTells, Pl!HandleTells, Pl!TypeOK,
       Pl!HandleIsTrueElsewhere, Pl!HandleIsFalseByClose
<1>2. LoaderInv => HandleTells
  BY DEF LoaderInv
<1> QED
  BY <1>1, <1>2, LoaderStep, PTL DEF Pl!Spec
-----------------------------------------------------------------------------
(* Registries: a name whose registrar stands leads to it.                  *)
LEMMA RegistriesStep == LookupsTell /\ [Re!Next]_(Re!vars) => LookupsTell'
<1> SUFFICES ASSUME LookupsTell, [Re!Next]_(Re!vars) PROVE LookupsTell'
  OBVIOUS
<1> USE DEF LookupsTell, Re!LookupsTell, Re!TypeOK, Re!EntriesLeadThere, Re!GetTells, Re!CrashIsStale
<1>1. ASSUME NEW n \in Names, NEW p \in Addresses, NEW t \in Types, Re!Register(n, p, t) PROVE LookupsTell'
  BY <1>1 DEF Re!Register
<1>2. ASSUME NEW p \in Addresses, Re!Unregister(p) PROVE LookupsTell'
  BY <1>2 DEF Re!Unregister
<1>3. ASSUME NEW n \in Names, Re!Get(n) PROVE LookupsTell'
  BY <1>3 DEF Re!Get, Re!factoryVars, Re!NoCall
<1>4. ASSUME NEW n \in Names, NEW s \in Signatures, Re!RegisterMethod(n, s) PROVE LookupsTell'
  BY <1>4 DEF Re!RegisterMethod, Re!factoryVars
<1>5. ASSUME NEW n \in Names, NEW s \in Signatures, Re!Invoke(n, s) PROVE LookupsTell'
  BY <1>5 DEF Re!Invoke, Re!factoryVars
<1>6. CASE UNCHANGED Re!vars
  BY <1>6 DEF Re!vars, Re!factoryVars
<1> QED
  BY <1>1, <1>2, <1>3, <1>4, <1>5, <1>6 DEF Re!Next

(* For any names, types and addresses: get makes what was registered last  *)
(* as long as its registrar stands, and only a stale or unknown name, or a *)
(* method of another type, is fatal.                                       *)
THEOREM LookupsFindTheirs == Re!Spec => []LookupsTell
<1>1. Re!Init => LookupsTell
  BY DEF Re!Init, LookupsTell, Re!LookupsTell, Re!TypeOK, Re!EntriesLeadThere, Re!GetTells,
     Re!CrashIsStale, Re!NoCall
<1> QED
  BY <1>1, RegistriesStep, PTL DEF Re!Spec
-----------------------------------------------------------------------------
(* The observer at a place of observerList, and at one of the slots that   *)
(* notify has still to visit, which may lie behind the list.               *)
EntryAt(o, i) == i \in 1 .. listSize /\ slots[i] = o
Ahead(o, i) == i \in at .. end - 1 /\ slots[i] = o

(* The observers that stayed and whom the walk has passed without a call,  *)
(* and those it has told twice or has still to tell once more.             *)
Passed == {o \in stayed : told[o] = 0 /\ \E i \in 1 .. at - 1 : EntryAt(o, i)}
Doubled ==
  {o \in stayed : \/ told[o] > 1
                  \/ told[o] = 1 /\ \E i \in at .. end - 1 : Ahead(o, i)
                  \/ \E i, j \in at .. end - 1 : i # j /\ Ahead(o, i) /\ Ahead(o, j)}

(* While notify walks: who stayed is in the list once, and was when the    *)
(* walk began.                                                             *)
WalkInv ==
  /\ at <= end
  /\ erased = 0 => end <= listSize + 1
  /\ \A o \in stayed : \E i \in 1 .. end - 1 :
       EntryAt(o, i) /\ \A j \in 1 .. listSize : EntryAt(o, j) => j = i
  /\ Cardinality(Passed) <= erased /\ Cardinality(Doubled) <= erased

ObserverInv ==
  /\ WalkSurvives
  /\ IF Ob!Walking THEN WalkInv ELSE end = 0

(* What grows by an observer counts one more, what shrinks no more.        *)
LEMMA CountFacts ==
  ASSUME NEW S \in SUBSET Observers, NEW T \in SUBSET Observers, NEW x,
         T \subseteq S \union {x}
  PROVE  /\ Cardinality(T) \in Nat /\ Cardinality(S) \in Nat
         /\ Cardinality(T) <= Cardinality(S) + 1
         /\ T \subseteq S => Cardinality(T) <= Cardinality(S)
<1>1. IsFiniteSet(S) /\ IsFiniteSet(T) /\ IsFiniteSet(S \union {x})
  <2>1. IsFiniteSet(S) /\ IsFiniteSet(T)
    BY LifetimesAssumption, FS_Subset
  <2> QED
    BY <2>1, FS_AddElement
<1>2. Cardinality(S \union {x}) <= Cardinality(S) + 1
  <2>1. Cardinality(S \union {x}) = IF x \in S THEN Cardinality(S) ELSE Cardinality(S) + 1
    BY <1>1, FS_AddElement
  <2>2. Cardinality(S) \in Nat
    BY <1>1, FS_CardinalityType
  <2> QED
    BY <2>1, <2>2
<1>3. Cardinality(T) <= Cardinality(S \union {x})
  BY <1>1, FS_Subset
<1>4. T \subseteq S => Cardinality(T) <= Cardinality(S)
  BY <1>1, FS_Subset
<1>5. Cardinality(T) \in Nat /\ Cardinality(S) \in Nat /\ Cardinality(S \union {x}) \in Nat
  BY <1>1, FS_CardinalityType
<1> QED
  BY <1>2, <1>3, <1>4, <1>5

(* detach moves what is behind the first entry of o down by one.           *)
LEMMA DetachFacts ==
  ASSUME ObserverInv, NEW o \in Observers, Ob!Detach(o)
  PROVE  \E n \in 1 .. listSize :
           /\ slots[n] = o /\ Len(slots') = Len(slots) /\ slots' \in Seq(Observers \union {NoObserver})
           /\ \A i \in 1 .. Len(slots) :
                slots'[i] = IF n <= i /\ i < listSize THEN slots[i + 1] ELSE slots[i]
<1> DEFINE S == Ob!Entries(o)
           less == {ss \in Nat \X Nat : ss[1] < ss[2]}
<1>0. slots \in Seq(Observers \union {NoObserver}) /\ listSize \in 0 .. Len(slots)
  BY DEF ObserverInv, WalkSurvives, Ob!WalkSurvives, Ob!TypeOK
<1>1. S \in SUBSET Nat /\ S # {}
  BY <1>0 DEF Ob!Detach, Ob!Entries
<1>2. PICK n \in S : \A i \in S : n <= i
  <2>1. IsWellFoundedOn(less, Nat)
    BY NatLessThanWellFounded DEF OpToRel
  <2>2. \A y, z \in Nat : y < z => <<y, z>> \in less
    OBVIOUS
  <2> HIDE DEF less, S
  <2>3. PICK x \in S : \A y \in S : ~(<<y, x>> \in less)
    BY <1>1, <2>1, WFMin
  <2>4. ASSUME NEW y \in S PROVE x <= y
    <3>1. x \in Nat /\ y \in Nat /\ ~(y < x)
      BY <1>1, <2>2, <2>3
    <3> QED
      BY <3>1
  <2> QED
    BY <2>4
<1>3. n = CHOOSE i \in S : \A j \in S : i <= j
  <2>1. \A i \in S : (\A j \in S : i <= j) => i = n
    BY <1>1, <1>2
  <2> HIDE DEF S
  <2> QED
    BY <1>2, <2>1
<1>4. slots' = [i \in DOMAIN slots |->
                  IF i \in n .. listSize - 1 THEN slots[i + 1] ELSE slots[i]]
  BY <1>3 DEF Ob!Detach
<1>5. n \in 1 .. listSize /\ slots[n] = o
  BY <1>2 DEF Ob!Entries
<1>6. DOMAIN slots = 1 .. Len(slots) /\ Len(slots) \in Nat
  BY <1>0
<1>7. \A i \in 1 .. Len(slots) : slots[i] \in Observers \union {NoObserver}
  BY <1>0
<1>8. \A i \in n .. listSize - 1 : i + 1 \in 1 .. Len(slots)
  BY <1>0, <1>5
<1>9. slots' \in Seq(Observers \union {NoObserver}) /\ Len(slots') = Len(slots)
  <2>1. slots' \in [1 .. Len(slots) -> Observers \union {NoObserver}]
    BY <1>4, <1>6, <1>7, <1>8
  <2> QED
    BY <1>6, <2>1
<1> QED
  BY <1>0, <1>4, <1>5, <1>6, <1>9

(* Observer counts with the operator of its own FiniteSets.                *)
LEMMA SameCount == ASSUME NEW S PROVE Ob!Cardinality(S) = Cardinality(S)
BY DEF Ob!Cardinality, Cardinality

(* attach writes behind the list, on storage that may be new.              *)
LEMMA AttachKeeps ==
  ASSUME ObserverInv, NEW o \in Observers, Ob!Attach(o)
  PROVE  ObserverInv'
<1> USE DEF Ob!Walking
<1>0. /\ Ob!TypeOK /\ Ob!ErasedOnesSkip /\ Ob!CrashIsByChange
      /\ slots \in Seq(Observers \union {NoObserver}) /\ Len(slots) \in Nat
      /\ listSize \in 0 .. Len(slots) /\ DOMAIN slots = 1 .. Len(slots)
  BY DEF ObserverInv, WalkSurvives, Ob!WalkSurvives, Ob!TypeOK
<1>1. PICK n \in listSize + 1 .. MaxSlots :
        /\ listSize < Len(slots) => n = Len(slots)
        /\ slots' = [i \in 1 .. n |-> IF i = listSize + 1 THEN o
                                  ELSE IF i \in DOMAIN slots THEN slots[i] ELSE NoObserver]
  BY DEF Ob!Attach
<1>2. /\ obProc = "up" /\ o \in alive /\ listSize' = listSize + 1 /\ stayed' = stayed \ {o}
      /\ UNCHANGED <<alive, obProc, at, end, walks, told, erased>>
      /\ moved' \in BOOLEAN
  BY DEF Ob!Attach, Ob!walkVars
<1>3. n \in Nat /\ n >= Len(slots) /\ listSize + 1 <= n
  <2>1. MaxSlots \in Nat /\ (listSize < Len(slots) => n = Len(slots))
    BY <1>1, LifetimesAssumption
  <2>2. listSize \in Nat /\ Len(slots) \in Nat /\ listSize <= Len(slots)
    BY <1>0
  <2>3. n \in Int /\ listSize + 1 <= n
    BY <2>1, <2>2
  <2> QED
    BY <2>1, <2>2, <2>3
<1>4. /\ slots' \in Seq(Observers \union {NoObserver}) /\ Len(slots') = n
      /\ \A i \in 1 .. Len(slots) : i # listSize + 1 => slots'[i] = slots[i]
      /\ slots'[listSize + 1] = o
  <2>1. slots' \in [1 .. n -> Observers \union {NoObserver}]
    <3>1. \A i \in DOMAIN slots : slots[i] \in Observers \union {NoObserver}
      BY <1>0
    <3> QED
      BY <1>1, <3>1
  <2>2. slots' \in Seq(Observers \union {NoObserver}) /\ Len(slots') = n
    BY <1>3, <2>1
  <2>3. \A i \in 1 .. n : slots'[i] = IF i = listSize + 1 THEN o
                                ELSE IF i \in DOMAIN slots THEN slots[i] ELSE NoObserver
    BY <1>1
  <2>4. slots'[listSize + 1] = o
    <3>1. listSize + 1 \in 1 .. n
      BY <1>0, <1>3
    <3> QED
      BY <2>3, <3>1
  <2>5. ASSUME NEW i \in 1 .. Len(slots), i # listSize + 1 PROVE slots'[i] = slots[i]
    <3>1. i \in 1 .. n /\ i \in DOMAIN slots
      BY <1>0, <1>3
    <3> QED
      BY <2>3, <2>5, <3>1
  <2> QED
    BY <2>2, <2>4, <2>5
<1>5. Ob!TypeOK'
  <2>1. \A i \in 1 .. listSize' : slots'[i] \in Observers
    BY <1>0, <1>2, <1>4 DEF Ob!TypeOK
  <2>2. listSize' \in 0 .. Len(slots') /\ end' \in 0 .. Len(slots') + 1
    BY <1>0, <1>2, <1>3, <1>4 DEF Ob!TypeOK
  <2> QED
    BY <1>0, <1>2, <1>4, <2>1, <2>2 DEF Ob!TypeOK
<1>6. Ob!Missed' \subseteq Ob!Missed /\ Ob!Excess' \subseteq Ob!Excess
  BY <1>2 DEF Ob!Missed, Ob!Excess
<1>7. Ob!ErasedOnesSkip'
  <2>1. /\ Cardinality(Ob!Missed') <= Cardinality(Ob!Missed)
        /\ Cardinality(Ob!Excess') <= Cardinality(Ob!Excess)
        /\ Cardinality(Ob!Missed') \in Nat /\ Cardinality(Ob!Excess') \in Nat
        /\ Cardinality(Ob!Missed) \in Nat /\ Cardinality(Ob!Excess) \in Nat
    <3>1. Ob!Missed \in SUBSET Observers /\ Ob!Excess \in SUBSET Observers
      BY <1>0 DEF Ob!Missed, Ob!Excess, Ob!TypeOK
    <3> QED
      BY <1>6, <3>1, CountFacts
  <2>2. erased \in Nat
    BY <1>0, LifetimesAssumption DEF Ob!TypeOK
  <2> QED
    BY <1>0, <1>2, <2>1, <2>2, SameCount DEF Ob!ErasedOnesSkip
<1>8. Ob!CrashIsByChange'
  <2>1. obProc' = "up"
    BY <1>2
  <2> QED
    BY <2>1 DEF Ob!CrashIsByChange
<1>9. ASSUME at # 0 PROVE WalkInv'
  <2>0. WalkInv /\ at \in Nat /\ end \in 0 .. Len(slots) + 1 /\ stayed \in SUBSET Observers
    BY <1>0, <1>9 DEF ObserverInv, Ob!TypeOK
  <2>1. \A x \in stayed', i \in at .. end - 1 : Ahead(x, i)' => Ahead(x, i)
    <3> SUFFICES ASSUME NEW x \in stayed', NEW i \in at .. end - 1, Ahead(x, i)' PROVE Ahead(x, i)
      OBVIOUS
    <3>1. x # o /\ slots'[i] = x
      BY <1>2 DEF Ahead
    <3>2. i \in 1 .. Len(slots) /\ i # listSize + 1
      BY <1>0, <1>4, <1>9, <2>0, <3>1
    <3> QED
      BY <1>4, <3>1, <3>2 DEF Ahead
  <2>2. \A x \in stayed', i \in 1 .. listSize' : EntryAt(x, i)' <=> EntryAt(x, i)
    BY <1>0, <1>2, <1>4 DEF EntryAt
  <2>3. \A x \in stayed' : \E i \in 1 .. end' - 1 :
          EntryAt(x, i)' /\ \A j \in 1 .. listSize' : EntryAt(x, j)' => j = i
    <3> SUFFICES ASSUME NEW x \in stayed'
                 PROVE  \E i \in 1 .. end' - 1 :
                          EntryAt(x, i)' /\ \A j \in 1 .. listSize' : EntryAt(x, j)' => j = i
      OBVIOUS
    <3>1. x \in stayed
      BY <1>2
    <3>2. PICK i \in 1 .. end - 1 : EntryAt(x, i) /\ \A j \in 1 .. listSize : EntryAt(x, j) => j = i
      BY <2>0, <3>1 DEF WalkInv
    <3>3. \A j \in 1 .. listSize' : EntryAt(x, j)' => j = i
      BY <2>2, <3>2 DEF EntryAt
    <3>4. i \in 1 .. listSize' /\ end' = end
      BY <1>0, <1>2, <3>2 DEF EntryAt
    <3> QED
      BY <2>2, <3>2, <3>3, <3>4
  <2>4. Passed' \subseteq Passed
    BY <1>0, <1>2, <2>2 DEF Passed, EntryAt
  <2>5. Doubled' \subseteq Doubled
    BY <1>2, <2>1 DEF Doubled
  <2>6. /\ Cardinality(Passed') <= Cardinality(Passed) /\ Cardinality(Doubled') <= Cardinality(Doubled)
        /\ Cardinality(Passed') \in Nat /\ Cardinality(Doubled') \in Nat
        /\ Cardinality(Passed) \in Nat /\ Cardinality(Doubled) \in Nat
    <3>1. Passed \in SUBSET Observers /\ Doubled \in SUBSET Observers
      BY <2>0 DEF Passed, Doubled
    <3> QED
      BY <2>4, <2>5, <3>1, CountFacts
  <2>7. erased \in Nat
    BY <1>0, LifetimesAssumption DEF Ob!TypeOK
  <2> QED
    BY <1>0, <1>2, <2>0, <2>3, <2>6, <2>7 DEF WalkInv
<1> QED
  BY <1>2, <1>5, <1>7, <1>8, <1>9 DEF ObserverInv, WalkSurvives, Ob!WalkSurvives

(* detach in a walk: of those behind the erased entry the next one may be  *)
(* passed, and the last one is there twice.                                *)
LEMMA DetachKeeps ==
  ASSUME ObserverInv, NEW o \in Observers, Ob!Detach(o)
  PROVE  ObserverInv'
<1> USE DEF Ob!Walking
<1>0. /\ Ob!TypeOK /\ Ob!ErasedOnesSkip /\ Ob!CrashIsByChange
      /\ slots \in Seq(Observers \union {NoObserver}) /\ Len(slots) \in Nat
      /\ listSize \in 0 .. Len(slots) /\ erased \in Nat
  BY LifetimesAssumption DEF ObserverInv, WalkSurvives, Ob!WalkSurvives, Ob!TypeOK
<1>1. PICK n \in 1 .. listSize :
        /\ slots[n] = o /\ Len(slots') = Len(slots) /\ slots' \in Seq(Observers \union {NoObserver})
        /\ \A i \in 1 .. Len(slots) :
             slots'[i] = IF n <= i /\ i < listSize THEN slots[i + 1] ELSE slots[i]
  BY DetachFacts
<1>2. /\ obProc = "up" /\ listSize' = listSize - 1 /\ stayed' = stayed \ {o}
      /\ erased' = IF at # 0 THEN erased + 1 ELSE erased
      /\ at # 0 => erased < MaxErased
      /\ UNCHANGED <<moved, alive, obProc, at, end, walks, told>>
  BY DEF Ob!Detach, Ob!walkVars
<1>3. Ob!TypeOK'
  <2>1. ASSUME NEW i \in 1 .. listSize' PROVE slots'[i] \in Observers
    <3>1. i \in 1 .. listSize /\ i + 1 \in 1 .. listSize /\ i \in 1 .. Len(slots)
      BY <1>0, <1>2
    <3>2. slots[i] \in Observers /\ slots[i + 1] \in Observers
      BY <1>0, <3>1 DEF Ob!TypeOK
    <3> QED
      BY <1>1, <1>2, <3>1, <3>2
  <2>2. listSize' \in 0 .. Len(slots') /\ erased' \in 0 .. MaxErased
    BY <1>0, <1>1, <1>2, LifetimesAssumption DEF Ob!TypeOK
  <2> QED
    BY <1>0, <1>1, <1>2, <2>1, <2>2 DEF Ob!TypeOK
<1>4. Ob!CrashIsByChange'
  BY <1>2 DEF Ob!CrashIsByChange
<1>5. Ob!ErasedOnesSkip'
  <2>1. Ob!Missed' \subseteq Ob!Missed /\ Ob!Excess' \subseteq Ob!Excess
    BY <1>2 DEF Ob!Missed, Ob!Excess
  <2>2. /\ Cardinality(Ob!Missed') <= Cardinality(Ob!Missed)
        /\ Cardinality(Ob!Excess') <= Cardinality(Ob!Excess)
        /\ Cardinality(Ob!Missed') \in Nat /\ Cardinality(Ob!Excess') \in Nat
        /\ Cardinality(Ob!Missed) \in Nat /\ Cardinality(Ob!Excess) \in Nat
    <3>1. Ob!Missed \in SUBSET Observers /\ Ob!Excess \in SUBSET Observers
      BY <1>0 DEF Ob!Missed, Ob!Excess, Ob!TypeOK
    <3> QED
      BY <2>1, <3>1, CountFacts
  <2> QED
    BY <1>0, <1>2, <2>2, SameCount DEF Ob!ErasedOnesSkip
<1>6. ASSUME at # 0 PROVE WalkInv'
  <2>0. /\ WalkInv /\ at \in Nat \ {0} /\ end \in 1 .. Len(slots) + 1 /\ stayed \in SUBSET Observers
        /\ told \in [Observers -> Nat]
    BY <1>0, <1>6 DEF ObserverInv, WalkInv, Ob!TypeOK
  <2> DEFINE Was(i) == IF n <= i /\ i < listSize THEN i + 1 ELSE i
  <2>1. \A i \in 1 .. Len(slots) : Was(i) \in 1 .. Len(slots) /\ slots'[i] = slots[Was(i)]
    BY <1>0, <1>1
  <2>2. ASSUME NEW x \in stayed', NEW i \in 1 .. listSize'
        PROVE  EntryAt(x, i)' <=> EntryAt(x, Was(i))
    <3>1. i \in 1 .. Len(slots) /\ Was(i) \in 1 .. listSize
      BY <1>0, <1>2, <2>2
    <3> QED
      BY <2>1, <2>2, <3>1 DEF EntryAt
  <2>3. ASSUME NEW x \in stayed'
        PROVE  \E i \in 1 .. end' - 1 :
                 EntryAt(x, i)' /\ \A j \in 1 .. listSize' : EntryAt(x, j)' => j = i
    <3>1. x \in stayed /\ x # o
      BY <1>2, <2>3
    <3>2. PICK k \in 1 .. end - 1 : EntryAt(x, k) /\ \A j \in 1 .. listSize : EntryAt(x, j) => j = k
      BY <2>0, <3>1 DEF WalkInv
    <3>3. k \in 1 .. listSize /\ k # n
      BY <1>1, <3>1, <3>2 DEF EntryAt
    <3> DEFINE i == IF k > n THEN k - 1 ELSE k
    <3>4. i \in 1 .. listSize' /\ Was(i) = k /\ i \in 1 .. end - 1
      <4>1. k \in Int /\ n \in Int /\ end \in Int /\ listSize \in Nat
        BY <1>0, <2>0, <3>3
      <4> QED
        BY <1>2, <3>3, <4>1
    <3>5. \A j \in 1 .. listSize' : EntryAt(x, j)' => j = i
      <4> SUFFICES ASSUME NEW j \in 1 .. listSize', EntryAt(x, j)' PROVE j = i
        OBVIOUS
      <4>1. EntryAt(x, Was(j)) /\ Was(j) \in 1 .. listSize
        BY <1>0, <1>2, <2>2
      <4>2. Was(j) = k
        BY <3>2, <4>1
      <4> QED
        BY <1>0, <1>1, <1>2, <3>3, <4>2
    <3> HIDE DEF Was
    <3> QED
      BY <1>2, <2>2, <3>2, <3>4, <3>5
  <2>4. Passed' \subseteq Passed \union {slots[at]}
    <3> SUFFICES ASSUME NEW x \in stayed', told[x] = 0, NEW i \in 1 .. at - 1, EntryAt(x, i)'
                 PROVE  x \in Passed \/ x = slots[at]
      BY <1>2 DEF Passed
    <3>1. i \in 1 .. listSize'
      BY DEF EntryAt
    <3>2. EntryAt(x, Was(i))
      BY <2>2, <3>1
    <3>3. CASE Was(i) = at
      BY <3>2, <3>3 DEF EntryAt
    <3>4. CASE Was(i) # at
      <4>1. Was(i) \in 1 .. at - 1
        BY <1>0, <2>0, <3>4
      <4> HIDE DEF Was
      <4> QED
        BY <1>2, <3>2, <4>1 DEF Passed
    <3> QED
      BY <3>3, <3>4
  <2>5. ASSUME NEW x \in stayed', x # slots[listSize], NEW i \in at .. end - 1, Ahead(x, i)'
        PROVE  Was(i) \in at .. end - 1 /\ Ahead(x, Was(i)) /\ Was(i) # listSize
    <3>1. i \in 1 .. Len(slots) /\ slots'[i] = x
      BY <2>0, <2>5 DEF Ahead
    <3>2. slots[Was(i)] = x /\ Was(i) # listSize
      BY <2>1, <2>5, <3>1
    <3>3. Was(i) <= end - 1
      <4>1. CASE Was(i) \in 1 .. listSize
        <5>1. x \in stayed /\ EntryAt(x, Was(i))
          BY <1>2, <2>5, <3>2, <4>1 DEF EntryAt
        <5>2. PICK k \in 1 .. end - 1 : \A j \in 1 .. listSize : EntryAt(x, j) => j = k
          BY <2>0, <5>1 DEF WalkInv
        <5>3. Was(i) = k
          BY <4>1, <5>1, <5>2
        <5> QED
          BY <2>0, <5>3
      <4>2. CASE Was(i) \notin 1 .. listSize
        BY <1>0, <2>0, <2>5, <4>2
      <4> QED
        BY <4>1, <4>2
    <3>4. Was(i) \in at .. end - 1
      BY <2>0, <2>5, <3>3
    <3> QED
      BY <3>2, <3>4 DEF Ahead
  <2>6. Doubled' \subseteq Doubled \union {slots[listSize]}
    <3> SUFFICES ASSUME NEW x \in Doubled', x # slots[listSize] PROVE x \in Doubled
      OBVIOUS
    <3>0. x \in stayed' /\ x \in stayed
      BY <1>2 DEF Doubled
    <3>1. CASE told[x] > 1
      BY <3>0, <3>1 DEF Doubled
    <3>2. ASSUME told[x] = 1, NEW i \in at .. end - 1, Ahead(x, i)' PROVE x \in Doubled
      <4>1. Was(i) \in at .. end - 1 /\ Ahead(x, Was(i))
        BY <2>5, <3>0, <3>2
      <4> HIDE DEF Was
      <4> QED
        BY <3>0, <3>2, <4>1 DEF Doubled
    <3>3. ASSUME NEW i \in at .. end - 1, NEW j \in at .. end - 1, i # j, Ahead(x, i)', Ahead(x, j)'
          PROVE  x \in Doubled
      <4>1. /\ Was(i) \in at .. end - 1 /\ Ahead(x, Was(i)) /\ Was(i) # listSize
            /\ Was(j) \in at .. end - 1 /\ Ahead(x, Was(j)) /\ Was(j) # listSize
        BY <2>5, <3>0, <3>3
      <4>2. Was(i) # Was(j)
        BY <1>0, <1>1, <2>0, <3>3, <4>1
      <4> HIDE DEF Was
      <4> QED
        BY <3>0, <4>1, <4>2 DEF Doubled
    <3> QED
      BY <1>2, <3>1, <3>2, <3>3 DEF Doubled
  <2>7. /\ Cardinality(Passed') <= Cardinality(Passed) + 1
        /\ Cardinality(Doubled') <= Cardinality(Doubled) + 1
        /\ Cardinality(Passed') \in Nat /\ Cardinality(Doubled') \in Nat
        /\ Cardinality(Passed) \in Nat /\ Cardinality(Doubled) \in Nat
    <3>1. /\ Passed \in SUBSET Observers /\ Doubled \in SUBSET Observers
          /\ Passed' \in SUBSET Observers /\ Doubled' \in SUBSET Observers
      BY <1>2, <2>0 DEF Passed, Doubled
    <3> QED
      BY <2>4, <2>6, <3>1, CountFacts
  <2> QED
    BY <1>0, <1>2, <1>6, <2>0, <2>3, <2>7 DEF WalkInv
<1>7. at = 0 => end = 0
  BY DEF ObserverInv
<1> QED
  BY <1>2, <1>3, <1>4, <1>5, <1>6, <1>7 DEF ObserverInv, WalkSurvives, Ob!WalkSurvives

(* A walk begins with what is in the list, told by nobody.                 *)
LEMMA NotifyBeginsKeeps == ASSUME ObserverInv, Ob!NotifyBegins PROVE ObserverInv'
<1> USE DEF Ob!Walking
<1>0. /\ Ob!TypeOK /\ slots \in Seq(Observers \union {NoObserver}) /\ Len(slots) \in Nat
      /\ listSize \in 0 .. Len(slots)
  BY DEF ObserverInv, WalkSurvives, Ob!WalkSurvives, Ob!TypeOK
<1>1. /\ at' = 1 /\ end' = listSize + 1 /\ walks' = walks + 1 /\ walks < MaxWalks /\ obProc = "up"
      /\ told' = [x \in Observers |-> 0] /\ erased' = 0
      /\ stayed' = {x \in Observers : Cardinality(Ob!Entries(x)) = 1}
      /\ UNCHANGED <<slots, listSize, moved, alive, obProc>>
  BY SameCount DEF Ob!NotifyBegins
<1>2. Ob!TypeOK'
  BY <1>0, <1>1, LifetimesAssumption DEF Ob!TypeOK
<1>3. \A x \in stayed' : \E i \in 1 .. listSize : EntryAt(x, i) /\ \A j \in 1 .. listSize : EntryAt(x, j) => j = i
  <2> SUFFICES ASSUME NEW x \in stayed'
               PROVE  \E i \in 1 .. listSize :
                        EntryAt(x, i) /\ \A j \in 1 .. listSize : EntryAt(x, j) => j = i
    OBVIOUS
  <2>1. IsFiniteSet(Ob!Entries(x))
    <3>1. IsFiniteSet(1 .. listSize)
      BY <1>0, FS_Interval
    <3> QED
      BY <3>1, FS_Subset DEF Ob!Entries
  <2>2. PICK i : Ob!Entries(x) = {i}
    BY <1>1, <2>1, FS_Singleton
  <2> QED
    BY <2>2 DEF Ob!Entries, EntryAt
<1>4. Passed' = {} /\ Doubled' = {} /\ Ob!Excess' = {}
  <2>1. Passed' = {}
    BY <1>1 DEF Passed
  <2>2. Ob!Excess' = {}
    BY <1>1 DEF Ob!Excess
  <2>3. ASSUME NEW x \in Doubled' PROVE FALSE
    <3>1. x \in stayed' /\ told'[x] = 0
      BY <1>1, <2>3 DEF Doubled
    <3>2. PICK i \in 1 .. listSize, j \in 1 .. listSize : i # j /\ slots[i] = x /\ slots[j] = x
      BY <1>0, <1>1, <2>3, <3>1 DEF Doubled, Ahead
    <3> QED
      BY <1>3, <3>1, <3>2 DEF EntryAt
  <2> QED
    BY <2>1, <2>2, <2>3
<1>5. WalkInv'
  <2>1. \A x \in stayed' : \E i \in 1 .. end' - 1 :
          EntryAt(x, i)' /\ \A j \in 1 .. listSize' : EntryAt(x, j)' => j = i
    <3>1. end' - 1 = listSize /\ listSize' = listSize /\ slots' = slots
      BY <1>0, <1>1
    <3> QED
      BY <1>3, <3>1 DEF EntryAt
  <2> QED
    BY <1>0, <1>1, <1>4, <2>1, FS_EmptySet DEF WalkInv
<1>6. Ob!ErasedOnesSkip' /\ Ob!CrashIsByChange'
  BY <1>1, <1>4, FS_EmptySet, SameCount DEF Ob!ErasedOnesSkip, Ob!CrashIsByChange
<1> QED
  BY <1>1, <1>2, <1>5, <1>6 DEF ObserverInv, WalkSurvives, Ob!WalkSurvives

(* A call counts what was ahead of the walk as told.                       *)
LEMMA NotifyTellsKeeps == ASSUME ObserverInv, Ob!NotifyTells PROVE ObserverInv'
<1> USE DEF Ob!Walking
<1>0. /\ Ob!TypeOK /\ Ob!ErasedOnesSkip /\ WalkInv /\ erased \in Nat
      /\ at \in Nat \ {0} /\ end \in Nat /\ at < end /\ at \in 1 .. Len(slots) /\ listSize \in Nat
      /\ told \in [Observers -> Nat] /\ stayed \in SUBSET Observers
  <2>1. at # 0 /\ at # end /\ Ob!TypeOK /\ Ob!ErasedOnesSkip /\ WalkInv
    BY DEF Ob!NotifyTells, ObserverInv, WalkSurvives, Ob!WalkSurvives
  <2>2. /\ slots \in Seq(Observers \union {NoObserver}) /\ at \in 0 .. end /\ end \in 0 .. Len(slots) + 1
        /\ listSize \in 0 .. Len(slots) /\ erased \in 0 .. MaxErased
    BY <2>1 DEF Ob!TypeOK
  <2> QED
    BY <2>1, <2>2, LifetimesAssumption DEF Ob!TypeOK
<1>1. obProc = "up" /\ UNCHANGED <<slots, listSize, moved, alive, end, walks, erased, stayed>>
  BY DEF Ob!NotifyTells
<1>2. CASE moved \/ slots[at] \notin alive
  <2>1. obProc' = "crashed" /\ UNCHANGED <<at, told>>
    BY <1>2 DEF Ob!NotifyTells
  <2>2. erased > 0 \/ moved \/ Ob!Dangling # {}
    <3>1. ASSUME erased = 0, ~moved PROVE at \in Ob!Dangling
      BY <1>0, <1>2, <3>1 DEF WalkInv, Ob!Dangling
    <3> QED
      BY <1>0, <3>1
  <2>3. Ob!TypeOK' /\ Ob!ErasedOnesSkip' /\ Ob!CrashIsByChange'
    BY <1>0, <1>1, <2>1, <2>2 DEF Ob!TypeOK, Ob!ErasedOnesSkip, Ob!CrashIsByChange, Ob!Dangling,
       Ob!Missed, Ob!Excess
  <2>4. WalkInv'
    BY <1>0, <1>1, <2>1 DEF WalkInv, Passed, Doubled, EntryAt, Ahead
  <2> QED
    BY <1>0, <1>1, <2>1, <2>3, <2>4 DEF ObserverInv, WalkSurvives, Ob!WalkSurvives
<1>3. CASE ~(moved \/ slots[at] \notin alive)
  <2> DEFINE o == slots[at]
  <2>1. told' = [told EXCEPT ![o] = @ + 1] /\ at' = at + 1 /\ obProc' = "up" /\ o \in Observers
    BY <1>0, <1>1, <1>3 DEF Ob!NotifyTells, Ob!TypeOK
  <2>2. told' \in [Observers -> Nat] /\ \A x \in Observers : told'[x] = IF x = o THEN told[x] + 1 ELSE told[x]
    BY <1>0, <2>1
  <2>3. Ob!TypeOK' /\ Ob!CrashIsByChange'
    BY <1>0, <1>1, <2>1, <2>2 DEF Ob!TypeOK, Ob!CrashIsByChange
  <2>4. Passed' \subseteq Passed
    <3> SUFFICES ASSUME NEW x \in stayed, told'[x] = 0, NEW i \in 1 .. at, EntryAt(x, i) PROVE x \in Passed
      BY <1>0, <1>1, <2>1 DEF Passed, EntryAt
    <3>1. x # o /\ told[x] = 0
      BY <1>0, <2>2
    <3>2. i # at
      BY <3>1 DEF EntryAt
    <3>3. i \in 1 .. at - 1
      BY <1>0, <3>2
    <3> QED
      BY <3>1, <3>3 DEF Passed
  <2>5. Doubled' \subseteq Doubled
    <3> SUFFICES ASSUME NEW x \in Doubled' PROVE x \in Doubled
      OBVIOUS
    <3>0. x \in stayed /\ x \in Observers /\ at \in at .. end - 1 /\ (x = o => Ahead(x, at))
      BY <1>0, <1>1 DEF Doubled, Ahead
    <3>1. \A i \in at' .. end' - 1 : i \in at .. end - 1 /\ i # at /\ (Ahead(x, i)' => Ahead(x, i))
      BY <1>0, <1>1, <2>1 DEF Ahead
    <3>2. CASE told'[x] > 1
      <4>1. told[x] > 1 \/ (told[x] = 1 /\ Ahead(x, at))
        BY <1>0, <2>2, <3>0, <3>2
      <4> QED
        BY <3>0, <4>1 DEF Doubled
    <3>3. ASSUME told'[x] = 1, NEW i \in at' .. end' - 1, Ahead(x, i)' PROVE x \in Doubled
      <4>1. told[x] = 1 \/ (x = o /\ told[x] = 0)
        BY <1>0, <2>2, <3>0, <3>3
      <4> QED
        BY <3>0, <3>1, <3>3, <4>1 DEF Doubled
    <3>4. ASSUME NEW i \in at' .. end' - 1, NEW j \in at' .. end' - 1, i # j, Ahead(x, i)', Ahead(x, j)'
          PROVE  x \in Doubled
      BY <3>0, <3>1, <3>4 DEF Doubled
    <3> QED
      BY <3>2, <3>3, <3>4 DEF Doubled
  <2>6. /\ Cardinality(Passed') <= Cardinality(Passed) /\ Cardinality(Doubled') <= Cardinality(Doubled)
        /\ Cardinality(Passed') \in Nat /\ Cardinality(Doubled') \in Nat
        /\ Cardinality(Passed) \in Nat /\ Cardinality(Doubled) \in Nat
    <3>1. Passed \in SUBSET Observers /\ Doubled \in SUBSET Observers
      BY <1>0 DEF Passed, Doubled
    <3> QED
      BY <2>4, <2>5, <3>1, CountFacts
  <2>7. WalkInv'
    BY <1>0, <1>1, <2>1, <2>6 DEF WalkInv, EntryAt
  <2>8. Ob!ErasedOnesSkip'
    <3>1. Ob!Excess' \subseteq Doubled' /\ Doubled' \in SUBSET Observers
      BY <1>0, <1>1 DEF Ob!Excess, Doubled
    <3>2. Cardinality(Ob!Excess') <= Cardinality(Doubled') /\ Cardinality(Ob!Excess') \in Nat
      BY <3>1, CountFacts
    <3>3. at' # 0
      BY <1>0, <2>1
    <3> QED
      BY <1>0, <1>1, <2>6, <2>7, <3>2, <3>3, SameCount DEF Ob!ErasedOnesSkip, WalkInv
  <2> QED
    BY <1>0, <2>1, <2>3, <2>7, <2>8 DEF ObserverInv, WalkSurvives, Ob!WalkSurvives
<1> QED
  BY <1>2, <1>3

(* When the walk has come to its end nobody is ahead of it.                *)
LEMMA NotifyEndsKeeps == ASSUME ObserverInv, Ob!NotifyEnds PROVE ObserverInv'
<1> USE DEF Ob!Walking
<1>0. Ob!TypeOK /\ Ob!ErasedOnesSkip /\ Ob!CrashIsByChange /\ WalkInv /\ erased \in Nat
      /\ stayed \in SUBSET Observers /\ told \in [Observers -> Nat]
  BY LifetimesAssumption DEF Ob!NotifyEnds, ObserverInv, WalkSurvives, Ob!WalkSurvives, Ob!TypeOK
<1>1. /\ obProc = "up" /\ at = end /\ at' = 0 /\ end' = 0 /\ moved' = FALSE
      /\ UNCHANGED <<slots, listSize, alive, obProc, walks, told, erased, stayed>>
  BY DEF Ob!NotifyEnds, Ob!pastVars
<1>2. Ob!TypeOK' /\ Ob!CrashIsByChange'
  <2>1. moved' \in BOOLEAN
    BY <1>1
  <2>2. Len(slots) + 1 \in Nat
    BY <1>0 DEF Ob!TypeOK
  <2> QED
    BY <1>0, <1>1, <2>1, <2>2 DEF Ob!TypeOK, Ob!CrashIsByChange
<1>3. Ob!Missed' \subseteq Passed /\ Ob!Excess' = Ob!Excess
  BY <1>0, <1>1 DEF Ob!Missed, Ob!Excess, Passed, WalkInv
<1>4. Cardinality(Ob!Missed') <= Cardinality(Passed) /\ Cardinality(Ob!Missed') \in Nat /\ Cardinality(Passed) \in Nat
  <2>1. Passed \in SUBSET Observers
    BY <1>0 DEF Passed
  <2> QED
    BY <1>3, <2>1, CountFacts
<1>5. Ob!ErasedOnesSkip'
  BY <1>0, <1>1, <1>3, <1>4, SameCount DEF Ob!ErasedOnesSkip, WalkInv
<1> QED
  BY <1>1, <1>2, <1>5 DEF ObserverInv, WalkSurvives, Ob!WalkSurvives

(* For any observers and any length of the list: an entry erased during a  *)
(* walk costs at most one observer its call and gives at most one another; *)
(* only an erased entry, new storage, or an observer destroyed while it is *)
(* attached can be fatal.                                                  *)
THEOREM WalksSurvive == Ob!Spec => []WalkSurvives
<1>1. Ob!Init => ObserverInv
  <2> SUFFICES ASSUME Ob!Init PROVE ObserverInv
    OBVIOUS
  <2>1. Ob!Excess = {} /\ Ob!Missed = {}
    BY DEF Ob!Init, Ob!Excess, Ob!Missed
  <2>2. slots \in Seq(Observers \union {NoObserver}) /\ Len(slots) = 0
    BY DEF Ob!Init
  <2>0. moved \in BOOLEAN
    BY DEF Ob!Init
  <2>3. Ob!TypeOK
    BY <2>2, <2>0, LifetimesAssumption DEF Ob!Init, Ob!TypeOK
  <2>4. Ob!ErasedOnesSkip /\ Ob!CrashIsByChange
    BY <2>1, FS_EmptySet, SameCount DEF Ob!Init, Ob!ErasedOnesSkip, Ob!CrashIsByChange
  <2> QED
    BY <2>3, <2>4 DEF Ob!Init, ObserverInv, WalkSurvives, Ob!WalkSurvives, Ob!Walking
<1>2. ObserverInv /\ [Ob!Next]_(Ob!vars) => ObserverInv'
  <2> SUFFICES ASSUME ObserverInv, [Ob!Next]_(Ob!vars) PROVE ObserverInv'
    OBVIOUS
  <2>1. ASSUME NEW o \in Observers, Ob!Destroy(o) PROVE ObserverInv'
    <3>1. /\ alive' = alive \ {o} /\ obProc = "up"
          /\ UNCHANGED <<slots, listSize, moved, obProc, at, end, walks, told, erased, stayed>>
      BY <2>1 DEF Ob!Destroy, Ob!walkVars, Ob!pastVars
    <3>3. Ob!TypeOK'
      BY <3>1 DEF ObserverInv, WalkSurvives, Ob!WalkSurvives, Ob!TypeOK
    <3> QED
      BY <3>1, <3>3 DEF ObserverInv, WalkSurvives, Ob!WalkSurvives, Ob!ErasedOnesSkip, Ob!CrashIsByChange,
         Ob!Missed, Ob!Excess, Ob!Walking, WalkInv, Passed, Doubled, EntryAt, Ahead
  <2>2. CASE UNCHANGED Ob!vars
    BY <2>2 DEF Ob!vars, Ob!walkVars, Ob!pastVars, ObserverInv, WalkSurvives, Ob!WalkSurvives, Ob!TypeOK,
       Ob!ErasedOnesSkip, Ob!CrashIsByChange, Ob!Dangling, Ob!Missed, Ob!Excess, Ob!Walking, WalkInv,
       Passed, Doubled, EntryAt, Ahead
  <2> QED
    BY <2>1, <2>2, AttachKeeps, DetachKeeps, NotifyBeginsKeeps, NotifyTellsKeeps, NotifyEndsKeeps DEF Ob!Next
<1>3. ObserverInv => WalkSurvives
  BY DEF ObserverInv
<1> QED
  BY <1>1, <1>2, <1>3, PTL DEF Ob!Spec
-----------------------------------------------------------------------------
(* The writes a half holds, and the ones that were dropped so far: a half  *)
(* that is not empty has taken one since the last was dropped.             *)
BufferInv ==
  /\ LosesOnePerSwap
  /\ wLen > 0 => 2 * Len(accepted) >= writes + 1

(* A write that appends and a write that swaps keep what the halves tell   *)
(* of the writes before them.                                              *)
LEMMA BufferStep == BufferInv /\ [Bu!Next]_(Bu!vars) => BufferInv'
<1> SUFFICES ASSUME BufferInv, [Bu!Next]_(Bu!vars) PROVE BufferInv'
  OBVIOUS
<1>0. /\ Bu!TypeOK /\ Bu!OverrunIsBounded /\ Bu!InOrder /\ Bu!DropsOneOfAHalf
      /\ wLen > 0 => 2 * Len(accepted) >= writes + 1
      /\ capacity \in Nat /\ MaxWrite \in Nat /\ MaxWrites \in Nat /\ writes \in Nat /\ wLen \in Nat /\ wPast \in Nat
      /\ wData \in Seq(1 .. MaxWrites) /\ rData \in Seq(1 .. MaxWrites)
      /\ accepted \in Seq(1 .. MaxWrites) /\ swapped \in Seq(1 .. MaxWrites) /\ Len(accepted) \in Nat
  <2>1. /\ Bu!TypeOK /\ Bu!OverrunIsBounded /\ Bu!InOrder /\ Bu!DropsOneOfAHalf
        /\ wLen > 0 => 2 * Len(accepted) >= writes + 1
    BY DEF BufferInv, LosesOnePerSwap, Bu!LosesOnePerSwap
  <2>2. accepted \in Seq(1 .. MaxWrites)
    BY <2>1 DEF Bu!TypeOK
  <2> QED
    BY <2>1, <2>2, BytesAssumption DEF Bu!TypeOK
<1>1. ASSUME NEW len \in 0 .. MaxWrite, Bu!Write(len), Bu!Appends(len) PROVE BufferInv'
  <2>1. /\ wLen < capacity /\ wLen' = wLen + len /\ wData' = Append(wData, writes')
        /\ wPast' = IF wLen' - capacity > wPast THEN wLen' - capacity ELSE wPast
        /\ accepted' = Append(accepted, writes')
        /\ writes' = writes + 1 /\ writes < MaxWrites
        /\ UNCHANGED <<capacity, rLen, rData, swapped>>
    BY <1>1 DEF Bu!Write, Bu!Appends
  <2>2. writes' \in 1 .. MaxWrites
    BY <1>0, <2>1
  <2>3. wData' \in Seq(1 .. MaxWrites) /\ accepted' \in Seq(1 .. MaxWrites) /\ Len(accepted') = Len(accepted) + 1
    BY <1>0, <2>1, <2>2
  <2>4. Bu!InOrder'
    <3>1. accepted' = Append(swapped \o wData, writes')
      BY <1>0, <2>1 DEF Bu!InOrder
    <3>2. Append(swapped \o wData, writes') = swapped \o Append(wData, writes')
      <4> DEFINE T == 1 .. MaxWrites
                 u == Append(swapped \o wData, writes')
                 v == swapped \o Append(wData, writes')
      <4>1. swapped \in Seq(T) /\ wData \in Seq(T) /\ writes' \in T
        BY <1>0, <2>2
      <4> HIDE DEF T
      <4>2. /\ u \in Seq(T) /\ v \in Seq(T)
            /\ Len(u) = Len(swapped) + Len(wData) + 1 /\ Len(v) = Len(u)
        BY <4>1
      <4>3. \A i \in 1 .. Len(u) : u[i] = v[i]
        BY <4>1
      <4> QED
        BY <4>2, <4>3, SeqEqual
    <3> QED
      BY <2>1, <3>1, <3>2 DEF Bu!InOrder
  <2>5. Bu!OverrunIsBounded'
    BY <1>0, <2>1 DEF Bu!OverrunIsBounded
  <2>6. wPast' \in Nat /\ wLen' \in Nat
    BY <1>0, <2>1
  <2>7. Bu!TypeOK'
    BY <1>0, <2>1, <2>2, <2>3, <2>6 DEF Bu!TypeOK
  <2>8. 2 * Len(accepted) >= writes
    BY <1>0, <2>1 DEF Bu!DropsOneOfAHalf
  <2>9. 2 * Len(accepted') >= writes' + 1
    BY <1>0, <2>1, <2>3, <2>8
  <2>10. Bu!DropsOneOfAHalf'
    BY <1>0, <2>1, <2>2, <2>3, <2>9 DEF Bu!DropsOneOfAHalf
  <2> QED
    BY <2>4, <2>5, <2>7, <2>9, <2>10 DEF BufferInv, LosesOnePerSwap, Bu!LosesOnePerSwap
<1>2. ASSUME NEW len \in 0 .. MaxWrite, Bu!Write(len), Bu!Swaps PROVE BufferInv'
  <2>1. /\ wLen >= capacity /\ rData' = wData /\ rLen' = wLen /\ wData' = <<>> /\ wLen' = 0
        /\ swapped' = swapped \o wData /\ writes' = writes + 1 /\ writes < MaxWrites
        /\ UNCHANGED <<capacity, wPast, accepted>>
    BY <1>2 DEF Bu!Write, Bu!Swaps
  <2>2. swapped' \in Seq(1 .. MaxWrites) /\ wData' \in Seq(1 .. MaxWrites)
    BY <1>0, <2>1
  <2>3. Bu!InOrder'
    <3>1. (swapped \o wData) \o <<>> = swapped \o wData
      BY <1>0
    <3> QED
      BY <1>0, <2>1, <3>1 DEF Bu!InOrder
  <2>4. Bu!TypeOK' /\ Bu!OverrunIsBounded'
    BY <1>0, <2>1, <2>2 DEF Bu!TypeOK, Bu!OverrunIsBounded
  <2>5. Bu!DropsOneOfAHalf'
    BY <1>0, <2>1 DEF Bu!DropsOneOfAHalf
  <2> QED
    BY <2>1, <2>3, <2>4, <2>5 DEF BufferInv, LosesOnePerSwap, Bu!LosesOnePerSwap
<1>3. CASE UNCHANGED Bu!vars
  BY <1>3 DEF Bu!vars, Bu!halfVars, BufferInv, LosesOnePerSwap, Bu!LosesOnePerSwap, Bu!TypeOK, Bu!OverrunIsBounded,
     Bu!InOrder, Bu!DropsOneOfAHalf
<1> QED
  BY <1>1, <1>2, <1>3 DEF Bu!Next, Bu!Write

(* For any capacity and any lengths: a Buffer loses one write per swap, at *)
(* most every other one, hands on the rest in order, and writes behind a   *)
(* half by less than the length of a write.                                *)
THEOREM BufferKeepsOrder == Bu!Spec => []LosesOnePerSwap
<1>1. Bu!Init => BufferInv
  <2> SUFFICES ASSUME Bu!Init PROVE BufferInv
    OBVIOUS
  <2> USE BytesAssumption DEF Bu!Init
  <2>1. Bu!TypeOK
    BY DEF Bu!TypeOK
  <2>2. Bu!OverrunIsBounded
    BY DEF Bu!OverrunIsBounded
  <2>3. Bu!InOrder /\ Bu!DropsOneOfAHalf
    BY DEF Bu!InOrder, Bu!DropsOneOfAHalf
  <2> QED
    BY <2>1, <2>2, <2>3 DEF BufferInv, LosesOnePerSwap, Bu!LosesOnePerSwap
<1>2. BufferInv => LosesOnePerSwap
  BY DEF BufferInv
<1> QED
  BY <1>1, <1>2, BufferStep, PTL DEF Bu!Spec
-----------------------------------------------------------------------------
(* The tokens of a message: those of the fields, and what build adds.      *)
AllTokens ==
  Tokens \cup {"service:", "from:", "to:", "content:", "comma", "forward", "address"}

(* What send builds of d and x.                                            *)
Built(d, x) == Pr!Build(<< <<"forward">>, <<"address">>, d, x >>)

(* A string of Protocol is a sequence of tokens.                           *)
LEMMA StringFacts ==
  ASSUME NEW d \in Pr!Strings
  PROVE  d \in Seq(AllTokens) /\ Len(d) \in Nat
<1>1. PICK n \in 0 .. MaxTokens : d \in [1 .. n -> Tokens]
  BY DEF Pr!Strings
<1>2. n \in Nat
  BY BytesAssumption
<1>3. d \in [1 .. n -> AllTokens]
  BY <1>1 DEF AllTokens
<1> QED
  BY <1>2, <1>3

(* Strings of known length, joined.                                        *)
Is(s, n) == s \in Seq(AllTokens) /\ Len(s) = n
Joins(u, r, q) == u = r \o q
Ends(u, r, t) == u = r \o <<t>>

(* What stands where when q is put behind r.                               *)
LEMMA CatFacts ==
  ASSUME NEW m \in Nat, NEW n \in Nat, NEW r, Is(r, m), NEW q, Is(q, n),
         NEW u, Joins(u, r, q)
  PROVE  /\ Is(u, m + n)
         /\ \A i \in 1 .. m : u[i] = r[i]
         /\ \A i \in 1 .. n : u[m + i] = q[i]
<1>1. r \in Seq(AllTokens) /\ q \in Seq(AllTokens) /\ Len(r) = m /\ Len(q) = n
  BY DEF Is
<1>2. Is(u, m + n)
  BY <1>1, ConcatProperties DEF Is, Joins
<1>3. \A i \in 1 .. m + n : u[i] = IF i <= m THEN r[i] ELSE q[i - m]
  BY <1>1, ConcatProperties DEF Joins
<1> QED
  BY <1>2, <1>3

(* A single token, and a single token behind r.                            *)
LEMMA TokenFacts ==
  ASSUME NEW t \in AllTokens
  PROVE  Is(<<t>>, 1) /\ <<t>>[1] = t
  BY DEF Is

(* u is r with the token t in the place k behind it.                       *)
Holds(u, k, r, t) ==
  Is(u, k) /\ u[k] = t /\ \A i \in 1 .. k - 1 : u[i] = r[i]

(* What stands where when the token t is put behind r.                     *)
LEMMA BehindFacts ==
  ASSUME NEW m \in Nat, NEW r, Is(r, m), NEW t \in AllTokens,
         NEW u, Ends(u, r, t)
  PROVE  Holds(u, m + 1, r, t)
<1> DEFINE q == <<t>>
<1>1. Is(q, 1) /\ q[1] = t
  BY TokenFacts
<1>2. Joins(u, r, q)
  BY DEF Joins, Ends
<1> HIDE DEF q
<1>3. /\ Is(u, m + 1)
      /\ \A i \in 1 .. m : u[i] = r[i]
      /\ \A i \in 1 .. 1 : u[m + i] = q[i]
  BY <1>1, <1>2, CatFacts
<1>4. u[m + 1] = t
  BY <1>1, <1>3
<1> QED
  BY <1>3, <1>4 DEF Holds

(* What stands where in a message.                                         *)
LEMMA MessageFacts ==
  ASSUME NEW d, NEW x, NEW m \in Nat, Is(d, m), NEW n \in Nat, Is(x, n)
  PROVE  /\ Is(Built(d, x), 9 + m + n)
         /\ Built(d, x)[1] = "service:" /\ Built(d, x)[2] = "forward"
         /\ Built(d, x)[3] = "comma" /\ Built(d, x)[4] = "from:"
         /\ Built(d, x)[5] = "address" /\ Built(d, x)[6] = "comma"
         /\ Built(d, x)[7] = "to:" /\ Built(d, x)[8 + m] = "comma"
         /\ \A i \in 1 .. m : Built(d, x)[7 + i] = d[i]
<1> DEFINE h1 == <<"service:">>
           h2 == h1 \o <<"forward">>
           h3 == h2 \o <<"comma">>
           h4 == h3 \o <<"from:">>
           h5 == h4 \o <<"address">>
           h6 == h5 \o <<"comma">>
           h7 == h6 \o <<"to:">>
           h8 == h7 \o d
           h9 == h8 \o <<"comma">>
           h10 == h9 \o <<"content:">>
           u == Built(d, x)
<1>1. Joins(u, h10, x)
  BY DEF Built, Pr!Build, Joins
<1>2. /\ "service:" \in AllTokens /\ "from:" \in AllTokens /\ "to:" \in AllTokens
      /\ "content:" \in AllTokens /\ "comma" \in AllTokens
      /\ "forward" \in AllTokens /\ "address" \in AllTokens
  BY DEF AllTokens
<1> HIDE DEF u
<1>3. Is(h1, 1) /\ h1[1] = "service:"
  BY <1>2, TokenFacts
<1> HIDE DEF h1
<1>4. Holds(h2, 2, h1, "forward") /\ Is(h2, 2)
  <2>1. Ends(h2, h1, "forward") /\ "forward" \in AllTokens /\ Is(h1, 1)
    BY <1>2, <1>3 DEF Ends
  <2> HIDE DEF h2
  <2>2. Holds(h2, 1 + 1, h1, "forward")
    BY <2>1, BehindFacts
  <2> QED
    BY <2>2 DEF Holds
<1> HIDE DEF h2
<1>5. Holds(h3, 3, h2, "comma") /\ Is(h3, 3)
  <2>1. Ends(h3, h2, "comma") /\ "comma" \in AllTokens /\ Is(h2, 2)
    BY <1>2, <1>4 DEF Ends
  <2> HIDE DEF h3
  <2>2. Holds(h3, 2 + 1, h2, "comma")
    BY <2>1, BehindFacts
  <2> QED
    BY <2>2 DEF Holds
<1> HIDE DEF h3
<1>6. Holds(h4, 4, h3, "from:") /\ Is(h4, 4)
  <2>1. Ends(h4, h3, "from:") /\ "from:" \in AllTokens /\ Is(h3, 3)
    BY <1>2, <1>5 DEF Ends
  <2> HIDE DEF h4
  <2>2. Holds(h4, 3 + 1, h3, "from:")
    BY <2>1, BehindFacts
  <2> QED
    BY <2>2 DEF Holds
<1> HIDE DEF h4
<1>7. Holds(h5, 5, h4, "address") /\ Is(h5, 5)
  <2>1. Ends(h5, h4, "address") /\ "address" \in AllTokens /\ Is(h4, 4)
    BY <1>2, <1>6 DEF Ends
  <2> HIDE DEF h5
  <2>2. Holds(h5, 4 + 1, h4, "address")
    BY <2>1, BehindFacts
  <2> QED
    BY <2>2 DEF Holds
<1> HIDE DEF h5
<1>8. Holds(h6, 6, h5, "comma") /\ Is(h6, 6)
  <2>1. Ends(h6, h5, "comma") /\ "comma" \in AllTokens /\ Is(h5, 5)
    BY <1>2, <1>7 DEF Ends
  <2> HIDE DEF h6
  <2>2. Holds(h6, 5 + 1, h5, "comma")
    BY <2>1, BehindFacts
  <2> QED
    BY <2>2 DEF Holds
<1> HIDE DEF h6
<1>9. Holds(h7, 7, h6, "to:") /\ Is(h7, 7)
  <2>1. Ends(h7, h6, "to:") /\ "to:" \in AllTokens /\ Is(h6, 6)
    BY <1>2, <1>8 DEF Ends
  <2> HIDE DEF h7
  <2>2. Holds(h7, 6 + 1, h6, "to:")
    BY <2>1, BehindFacts
  <2> QED
    BY <2>2 DEF Holds
<1> HIDE DEF h7
<1>10. /\ Is(h8, 7 + m)
       /\ \A i \in 1 .. 7 : h8[i] = h7[i]
       /\ \A i \in 1 .. m : h8[7 + i] = d[i]
  <2>1. Joins(h8, h7, d)
    BY DEF Joins
  <2> HIDE DEF h8
  <2> QED
    BY <1>9, <2>1, CatFacts
<1> HIDE DEF h8
<1>11. Holds(h9, 8 + m, h8, "comma") /\ Is(h9, 8 + m)
  <2>1. Ends(h9, h8, "comma") /\ "comma" \in AllTokens /\ Is(h8, 7 + m) /\ 7 + m \in Nat
    BY <1>2, <1>10 DEF Ends
  <2> HIDE DEF h9
  <2>2. Holds(h9, (7 + m) + 1, h8, "comma") /\ (7 + m) + 1 = 8 + m
    BY <2>1, BehindFacts
  <2> QED
    BY <2>2 DEF Holds
<1> HIDE DEF h9
<1>12. Holds(h10, 9 + m, h9, "content:") /\ Is(h10, 9 + m)
  <2>1. /\ Ends(h10, h9, "content:") /\ "content:" \in AllTokens
        /\ Is(h9, 8 + m) /\ 8 + m \in Nat
    BY <1>2, <1>11 DEF Ends
  <2> HIDE DEF h10
  <2>2. Holds(h10, (8 + m) + 1, h9, "content:") /\ (8 + m) + 1 = 9 + m
    BY <2>1, BehindFacts
  <2> QED
    BY <2>2 DEF Holds
<1> HIDE DEF h10
<1>13. /\ Is(u, 9 + m + n)
       /\ \A i \in 1 .. 9 + m : u[i] = h10[i]
  <2>1. 9 + m \in Nat
    OBVIOUS
  <2> QED
    BY <1>1, <1>12, <2>1, CatFacts
<1>14. \A i \in 1 .. 8 + m : u[i] = h9[i]
  BY <1>12, <1>13 DEF Holds
<1>15. u[8 + m] = "comma"
  BY <1>11, <1>14 DEF Holds
<1>16. \A i \in 1 .. 7 + m : u[i] = h8[i]
  BY <1>11, <1>14 DEF Holds
<1>17. \A i \in 1 .. m : u[7 + i] = d[i]
  BY <1>10, <1>16
<1>18. \A i \in 1 .. 7 : u[i] = h7[i]
  BY <1>10, <1>16
<1>19. u[7] = "to:" /\ \A i \in 1 .. 6 : u[i] = h6[i]
  BY <1>18, <1>9 DEF Holds
<1>20. u[6] = "comma" /\ \A i \in 1 .. 5 : u[i] = h5[i]
  BY <1>19, <1>8 DEF Holds
<1>21. u[5] = "address" /\ \A i \in 1 .. 4 : u[i] = h4[i]
  BY <1>20, <1>7 DEF Holds
<1>22. u[4] = "from:" /\ \A i \in 1 .. 3 : u[i] = h3[i]
  BY <1>21, <1>6 DEF Holds
<1>23. u[3] = "comma" /\ \A i \in 1 .. 2 : u[i] = h2[i]
  BY <1>22, <1>5 DEF Holds
<1>24. u[2] = "forward" /\ \A i \in 1 .. 1 : u[i] = h1[i]
  BY <1>23, <1>4 DEF Holds
<1> QED
  BY <1>3, <1>13, <1>15, <1>17, <1>19, <1>20, <1>21, <1>22, <1>23, <1>24 DEF u
-----------------------------------------------------------------------------
(* The least of a set of numbers.                                          *)
LEMMA LeastFacts ==
  ASSUME NEW S, S \subseteq Nat, S # {}
  PROVE  Pr!Least(S) \in S /\ \A j \in S : Pr!Least(S) <= j
<1> DEFINE less == {ss \in Nat \X Nat : ss[1] < ss[2]}
<1>1. IsWellFoundedOn(less, Nat)
  BY NatLessThanWellFounded DEF OpToRel
<1> HIDE DEF less
<1>2. PICK i \in S : \A j \in S : ~(<<j, i>> \in less)
  BY <1>1, WFMin
<1>3. \A j, k \in Nat : j < k => <<j, k>> \in less
  BY DEF less
<1>4. ASSUME NEW j \in S PROVE i <= j
  <2>1. i \in Nat /\ j \in Nat /\ ~(j < i)
    BY <1>2, <1>3
  <2> QED
    BY <2>1
<1> QED
  BY <1>4 DEF Pr!Least

(* A number that no other of its set is below is the least.                *)
LEMMA LeastIs ==
  ASSUME NEW S, S \subseteq Nat, NEW i \in S, \A j \in S : i <= j
  PROVE  Pr!Least(S) = i
<1>1. Pr!Least(S) \in S /\ Pr!Least(S) <= i
  BY LeastFacts
<1>2. i \in Nat /\ Pr!Least(S) \in Nat /\ i <= Pr!Least(S)
  BY <1>1
<1> QED
  BY <1>1, <1>2

(* Where a token is.                                                       *)
LEMMA PlacesFacts ==
  ASSUME NEW n \in Nat, NEW s, Is(s, n), NEW t
  PROVE  Pr!Places(s, t) = {i \in 1 .. n : s[i] = t} /\ Pr!Places(s, t) \subseteq Nat
  BY DEF Is, Pr!Places

(* The third comma of a message: one of the destination, or the one behind *)
(* it.                                                                     *)
Cut(d) == IF Pr!Has(d, "comma") THEN 7 + Pr!Least(Pr!Places(d, "comma")) ELSE 8 + Len(d)

(* Where parse cuts a message: behind the service, behind the address, and *)
(* at the first comma from the destination on.                             *)
LEMMA CutFacts ==
  ASSUME NEW d, NEW x, NEW m \in Nat, Is(d, m), NEW n \in Nat, Is(x, n)
  PROVE  /\ Cut(d) \in 8 .. 8 + m
         /\ Pr!Split(Built(d, x)) =
              << SubSeq(Built(d, x), 1, 2), SubSeq(Built(d, x), 4, 5),
                 SubSeq(Built(d, x), 7, Cut(d) - 1) >>
<1> DEFINE u == Built(d, x)
           P == Pr!Places(u, "comma")
           D == Pr!Places(d, "comma")
<1>1. /\ Is(u, 9 + m + n)
      /\ u[1] = "service:" /\ u[2] = "forward" /\ u[3] = "comma" /\ u[4] = "from:"
      /\ u[5] = "address" /\ u[6] = "comma" /\ u[7] = "to:" /\ u[8 + m] = "comma"
      /\ \A i \in 1 .. m : u[7 + i] = d[i]
  BY MessageFacts
<1> HIDE DEF u
<1>2. P = {i \in 1 .. 9 + m + n : u[i] = "comma"} /\ P \subseteq Nat
  <2>1. 9 + m + n \in Nat
    OBVIOUS
  <2> QED
    BY <1>1, <2>1, PlacesFacts
<1>3. D = {i \in 1 .. m : d[i] = "comma"} /\ D \subseteq Nat
  BY PlacesFacts
<1>4. Len(d) = m
  BY DEF Is
<1> HIDE DEF P, D
<1>5. 3 \in P /\ 6 \in P /\ 8 + m \in P /\ 1 \notin P /\ 2 \notin P /\ 4 \notin P /\ 5 \notin P
      /\ 7 \notin P /\ 0 \notin P
  BY <1>1, <1>2
<1>6. Pr!Least(P) = 3
  <2>1. \A j \in P : 3 <= j
    BY <1>2, <1>5
  <2> QED
    BY <2>1, <1>2, <1>5, LeastIs
<1>7. Pr!Least(P \ {3}) = 6
  <2>1. \A j \in P \ {3} : 6 <= j
    BY <1>2, <1>5
  <2> QED
    BY <2>1, <1>2, <1>5, LeastIs
<1>8. \A j \in P \ {3, 6} : 8 <= j
  BY <1>2, <1>5
<1>9. Pr!Least(P \ {3, 6}) = Cut(d) /\ Cut(d) \in 8 .. 8 + m
  <2>1. CASE D # {}
    <3>1. Pr!Least(D) \in D /\ \A j \in D : Pr!Least(D) <= j
      BY <1>3, <2>1, LeastFacts
    <3>2. Cut(d) = 7 + Pr!Least(D)
      BY <2>1 DEF D, Cut, Pr!Has
    <3>3. Pr!Least(D) \in 1 .. m /\ d[Pr!Least(D)] = "comma"
      BY <1>3, <3>1
    <3>4. Cut(d) \in P \ {3, 6} /\ Cut(d) \in 8 .. 8 + m
      BY <1>1, <1>2, <3>2, <3>3
    <3>5. ASSUME NEW j \in P \ {3, 6} PROVE Cut(d) <= j
      <4>1. j \in Nat /\ j >= 8
        BY <1>2, <1>8
      <4>2. CASE j <= 7 + m
        <5>1. j - 7 \in 1 .. m /\ j = 7 + (j - 7)
          BY <4>1, <4>2
        <5>2. d[j - 7] = u[j] /\ u[j] = "comma"
          BY <1>1, <1>2, <5>1
        <5>3. j - 7 \in D
          BY <1>3, <5>1, <5>2
        <5> QED
          BY <3>1, <3>2, <3>3, <4>1, <5>3
      <4>3. CASE j > 7 + m
        BY <3>2, <3>3, <4>1, <4>3
      <4> QED
        BY <4>1, <4>2, <4>3
    <3> QED
      BY <1>2, <3>4, <3>5, LeastIs
  <2>2. CASE D = {}
    <3>1. Cut(d) = 8 + m
      BY <1>4, <2>2 DEF D, Cut, Pr!Has
    <3>2. Cut(d) \in P \ {3, 6} /\ Cut(d) \in 8 .. 8 + m
      BY <1>5, <3>1
    <3>3. ASSUME NEW j \in P \ {3, 6} PROVE Cut(d) <= j
      <4>1. j \in Nat /\ j >= 8
        BY <1>2, <1>8
      <4>2. ASSUME j <= 7 + m PROVE FALSE
        <5>1. j - 7 \in 1 .. m /\ j = 7 + (j - 7)
          BY <4>1, <4>2
        <5>2. d[j - 7] = u[j] /\ u[j] = "comma"
          BY <1>1, <1>2, <5>1
        <5> QED
          BY <1>3, <2>2, <5>1, <5>2
      <4> QED
        BY <3>1, <4>1, <4>2
    <3> QED
      BY <1>2, <3>2, <3>3, LeastIs
  <2> QED
    BY <2>1, <2>2
<1>10. Pr!Split(u) = << SubSeq(u, 1, 3 - 1), SubSeq(u, 3 + 1, 6 - 1), SubSeq(u, 6 + 1, Cut(d) - 1) >>
  BY <1>6, <1>7, <1>9 DEF P, Pr!Split
<1> QED
  BY <1>9, <1>10 DEF u

(* What is found behind the first token of a piece is found in the rest.   *)
LEMMA ShiftFacts ==
  ASSUME NEW k \in Nat, NEW p, Is(p, k), NEW v, Is(v, k + 1), NEW t, v[1] # t,
         \A i \in 1 .. k : v[1 + i] = p[i]
  PROVE  /\ Pr!Has(v, t) <=> Pr!Has(p, t)
         /\ Pr!Has(p, t) => Pr!From(v, t) = Pr!From(p, t)
<1> DEFINE V == Pr!Places(v, t)
           P == Pr!Places(p, t)
<1>1. V = {i \in 1 .. k + 1 : v[i] = t} /\ V \subseteq Nat
  <2>1. k + 1 \in Nat
    OBVIOUS
  <2> QED
    BY <2>1, PlacesFacts
<1>2. P = {i \in 1 .. k : p[i] = t} /\ P \subseteq Nat
  BY PlacesFacts
<1>3. (Pr!Has(v, t) <=> V # {}) /\ (Pr!Has(p, t) <=> P # {})
  BY DEF Pr!Has
<1>4. Len(p) = k /\ Len(v) = k + 1 /\ p \in Seq(AllTokens) /\ v \in Seq(AllTokens)
  BY DEF Is
<1>5. Pr!From(v, t) = SubSeq(v, Pr!Least(V), k + 1) /\ Pr!From(p, t) = SubSeq(p, Pr!Least(P), k)
  BY <1>4 DEF Pr!From
<1> HIDE DEF V, P
<1>6. ASSUME NEW i \in V PROVE i - 1 \in P
  <2>1. i \in 1 .. k + 1 /\ v[i] = t /\ i # 1
    BY <1>1
  <2>2. i - 1 \in 1 .. k /\ i = 1 + (i - 1)
    BY <2>1
  <2> QED
    BY <1>2, <2>1, <2>2
<1>7. ASSUME NEW i \in P PROVE 1 + i \in V
  <2>1. i \in 1 .. k /\ p[i] = t /\ 1 + i \in 1 .. k + 1
    BY <1>2
  <2> QED
    BY <1>1, <2>1
<1>8. ASSUME P # {} PROVE Pr!From(v, t) = Pr!From(p, t)
  <2> DEFINE l == Pr!Least(P)
             a == SubSeq(v, 1 + l, k + 1)
             b == SubSeq(p, l, k)
  <2>1. l \in P /\ \A j \in P : l <= j
    BY <1>2, <1>8, LeastFacts
  <2>2. l \in 1 .. k
    BY <1>2, <2>1
  <2>3. Pr!Least(V) = 1 + l
    <3>1. 1 + l \in V
      BY <1>7, <2>1
    <3>2. \A j \in V : 1 + l <= j
      BY <1>1, <1>6, <2>1, <2>2
    <3> QED
      BY <1>1, <3>1, <3>2, LeastIs
  <2> HIDE DEF l
  <2>4. a \in Seq(AllTokens) /\ Len(a) = k - l + 1 /\ \A i \in 1 .. k - l + 1 : a[i] = v[l + i]
    <3>1. 1 + l \in Int /\ k + 1 \in Int /\ \A i \in 1 + l .. k + 1 : v[i] \in AllTokens
      BY <1>4, <2>2
    <3>2. /\ a \in Seq(AllTokens)
          /\ Len(a) = IF 1 + l <= k + 1 THEN k + 1 - (1 + l) + 1 ELSE 0
          /\ \A i \in 1 .. k + 1 - (1 + l) + 1 : a[i] = v[1 + l + i - 1]
      BY <3>1, SubSeqProperties
    <3> HIDE DEF a
    <3> QED
      BY <2>2, <3>2
  <2>5. b \in Seq(AllTokens) /\ Len(b) = k - l + 1 /\ \A i \in 1 .. k - l + 1 : b[i] = p[l + i - 1]
    <3>1. l \in Int /\ k \in Int /\ \A i \in l .. k : p[i] \in AllTokens
      BY <1>4, <2>2
    <3>2. /\ b \in Seq(AllTokens)
          /\ Len(b) = IF l <= k THEN k - l + 1 ELSE 0
          /\ \A i \in 1 .. k - l + 1 : b[i] = p[l + i - 1]
      BY <3>1, SubSeqProperties
    <3> HIDE DEF b
    <3> QED
      BY <2>2, <3>2
  <2>6. ASSUME NEW i \in 1 .. k - l + 1 PROVE a[i] = b[i]
    <3>1. l + i - 1 \in 1 .. k /\ l + i = 1 + (l + i - 1)
      BY <2>2
    <3>2. a[i] = v[l + i] /\ b[i] = p[l + i - 1] /\ v[1 + (l + i - 1)] = p[l + i - 1]
      BY <2>4, <2>5, <3>1
    <3> QED
      BY <3>1, <3>2
  <2> HIDE DEF a, b
  <2>7. a = b
    BY <2>4, <2>5, <2>6, SeqEqual
  <2> QED
    BY <1>5, <2>3, <2>7 DEF a, b, l
<1> QED
  BY <1>3, <1>6, <1>7, <1>8
-----------------------------------------------------------------------------
(* What parse makes of a message, told by the destination it was sent to.  *)
LEMMA ParseFacts ==
  ASSUME NEW m \in Nat, Is(destination, m), NEW x, NEW n \in Nat, Is(x, n),
         NEW r, r = Pr!Parse(Built(destination, x))
  PROVE  IF Pr!Has(Pr!Piece, "content:")
         THEN r.is = "fields" /\ r.content = Pr!From(Pr!Piece, "content:")
         ELSE r.is = "thrown"
<1> DEFINE u == Built(destination, x)
           c == Cut(destination)
           k == c - 8
           v == SubSeq(u, 7, c - 1)
           p == Pr!Piece
<1>1. /\ Is(u, 9 + m + n)
      /\ u[1] = "service:" /\ u[2] = "forward" /\ u[3] = "comma" /\ u[4] = "from:"
      /\ u[5] = "address" /\ u[6] = "comma" /\ u[7] = "to:" /\ u[8 + m] = "comma"
      /\ \A i \in 1 .. m : u[7 + i] = destination[i]
  BY MessageFacts
<1>2. c \in 8 .. 8 + m /\ Pr!Split(u) = << SubSeq(u, 1, 2), SubSeq(u, 4, 5), v >>
  BY CutFacts
<1>3. k \in 0 .. m /\ k \in Nat /\ c - 1 = 7 + k
  BY <1>2
<1>4. destination \in Seq(AllTokens) /\ Len(destination) = m
      /\ u \in Seq(AllTokens) /\ Len(u) = 9 + m + n
  BY <1>1 DEF Is
<1> HIDE DEF u
<1>5. p = SubSeq(destination, 1, k)
  <2>1. CASE Pr!Has(destination, "comma")
    <3>1. c = 7 + Pr!Least(Pr!Places(destination, "comma"))
      BY <2>1 DEF Cut
    <3>2. p = SubSeq(destination, 1, Pr!Least(Pr!Places(destination, "comma")) - 1)
      BY <2>1 DEF Pr!Piece
    <3>3. Pr!Places(destination, "comma") # {} /\ Pr!Places(destination, "comma") \subseteq Nat
      BY <2>1, PlacesFacts DEF Pr!Has
    <3>4. Pr!Least(Pr!Places(destination, "comma")) \in Nat
      BY <3>3, LeastFacts
    <3>5. Pr!Least(Pr!Places(destination, "comma")) - 1 = k
      BY <3>1, <3>4
    <3> QED
      BY <3>2, <3>5
  <2>2. CASE ~Pr!Has(destination, "comma")
    <3>1. k = m /\ p = destination
      BY <1>3, <1>4, <2>2 DEF Cut, Pr!Piece
    <3>2. SubSeq(destination, 1, Len(destination)) = destination
      BY <1>4, SubSeqFull
    <3> QED
      BY <1>4, <3>1, <3>2
  <2> QED
    BY <2>1, <2>2
<1> HIDE DEF c, k, p, v
<1>6. Is(p, k) /\ \A i \in 1 .. k : p[i] = destination[i]
  <2>1. \A i \in 1 .. k : destination[i] \in AllTokens
    BY <1>3, <1>4
  <2>2. /\ p \in Seq(AllTokens) /\ Len(p) = IF 1 <= k THEN k - 1 + 1 ELSE 0
        /\ \A i \in 1 .. k - 1 + 1 : p[i] = destination[1 + i - 1]
    BY <1>3, <1>5, <2>1, SubSeqProperties
  <2>3. Len(p) = k /\ \A i \in 1 .. k : p[i] = destination[i]
    <3>1. Len(p) = k
      BY <1>3, <2>2
    <3>2. ASSUME NEW i \in 1 .. k PROVE p[i] = destination[i]
      <4>1. i \in 1 .. k - 1 + 1 /\ 1 + i - 1 = i
        BY <1>3
      <4> QED
        BY <2>2, <4>1
    <3> QED
      BY <3>1, <3>2
  <2> QED
    BY <2>2, <2>3 DEF Is
<1>7. Is(v, k + 1) /\ v[1] = "to:" /\ \A i \in 1 .. k : v[1 + i] = destination[i]
  <2>1. \A i \in 7 .. 7 + k : u[i] \in AllTokens
    BY <1>3, <1>4
  <2>2. v = SubSeq(u, 7, 7 + k)
    BY <1>3 DEF v
  <2>3. /\ v \in Seq(AllTokens) /\ Len(v) = IF 7 <= 7 + k THEN 7 + k - 7 + 1 ELSE 0
        /\ \A i \in 1 .. 7 + k - 7 + 1 : v[i] = u[7 + i - 1]
    BY <1>3, <2>1, <2>2, SubSeqProperties
  <2>4. Len(v) = k + 1 /\ \A i \in 1 .. k + 1 : v[i] = u[6 + i]
    BY <1>3, <2>3
  <2>5. v[1] = "to:"
    BY <1>1, <1>3, <2>4
  <2>6. ASSUME NEW i \in 1 .. k PROVE v[1 + i] = destination[i]
    <3>1. 1 + i \in 1 .. k + 1 /\ 6 + (1 + i) = 7 + i /\ i \in 1 .. m
      BY <1>3
    <3>2. v[1 + i] = u[7 + i]
      BY <2>4, <3>1
    <3> QED
      BY <1>1, <3>1, <3>2
  <2> QED
    BY <2>3, <2>4, <2>5, <2>6 DEF Is
<1>8. /\ Pr!Has(v, "content:") <=> Pr!Has(p, "content:")
      /\ Pr!Has(p, "content:") => Pr!From(v, "content:") = Pr!From(p, "content:")
  <2>1. v[1] # "content:" /\ \A i \in 1 .. k : v[1 + i] = p[i]
    BY <1>6, <1>7
  <2> QED
    BY <1>3, <1>6, <1>7, <2>1, ShiftFacts
<1>9. Pr!Has(v, "to:")
  <2>1. k + 1 \in Nat /\ 1 \in 1 .. k + 1
    BY <1>3
  <2>2. Pr!Places(v, "to:") = {i \in 1 .. k + 1 : v[i] = "to:"}
    BY <1>7, <2>1, PlacesFacts
  <2> QED
    BY <1>7, <2>1, <2>2 DEF Pr!Has
<1>10. Pr!Has(SubSeq(u, 1, 2), "service:")
  <2>1. Len(SubSeq(u, 1, 2)) = 2 /\ SubSeq(u, 1, 2) \in Seq(AllTokens) /\ SubSeq(u, 1, 2)[1] = "service:"
    BY <1>1, <1>4, SubSeqProperties
  <2> QED
    BY <2>1 DEF Pr!Has, Pr!Places
<1>11. Pr!Has(SubSeq(u, 4, 5), "from:")
  <2>1. Len(SubSeq(u, 4, 5)) = 2 /\ SubSeq(u, 4, 5) \in Seq(AllTokens) /\ SubSeq(u, 4, 5)[1] = "from:"
    BY <1>1, <1>4, SubSeqProperties
  <2> QED
    BY <2>1 DEF Pr!Has, Pr!Places
<1>12. r = Pr!Parse(u)
  BY DEF u
<1>13. CASE Pr!Has(p, "content:")
  <2>1. r.is = "fields" /\ r.content = Pr!From(v, "content:")
    BY <1>2, <1>8, <1>9, <1>10, <1>11, <1>12, <1>13 DEF Pr!Parse
  <2> QED
    BY <1>8, <1>13, <2>1 DEF p
<1>14. CASE ~Pr!Has(p, "content:")
  <2>1. r.is = "thrown"
    BY <1>2, <1>8, <1>12, <1>14 DEF Pr!Parse, Pr!Thrown
  <2> QED
    BY <1>14, <2>1 DEF p
<1> QED
  BY <1>13, <1>14

(* A message is what send builds, and a result is what parse makes of it.  *)
ProtocolInv ==
  /\ destination \in Pr!Strings /\ data \in Pr!Strings
  /\ \/ message = <<>> /\ parsed = [is |-> "none"]
     \/ /\ message = Built(destination, data)
        /\ parsed = [is |-> "none"] \/ parsed = Pr!Parse(message)

(* send builds the one message, and the one call of parse is given it.     *)
LEMMA ProtocolStep == ProtocolInv /\ [Pr!Next]_(Pr!vars) => ProtocolInv'
<1> SUFFICES ASSUME ProtocolInv, [Pr!Next]_(Pr!vars) PROVE ProtocolInv'
  OBVIOUS
<1>1. CASE Pr!Send
  BY <1>1 DEF Pr!Send, ProtocolInv, Built
<1>2. CASE Pr!Receive
  BY <1>2 DEF Pr!Receive, ProtocolInv, Built
<1>3. CASE UNCHANGED Pr!vars
  BY <1>3 DEF Pr!vars, ProtocolInv, Built
<1> QED
  BY <1>1, <1>2, <1>3 DEF Pr!Next

(* For any tokens, however long the strings: parse never finds the data.   *)
THEOREM ParseMissesData == Pr!Spec => []DataNeverArrives
<1>1. Pr!Init => ProtocolInv
  BY DEF Pr!Init, ProtocolInv
<1>2. ProtocolInv => DataNeverArrives
  <2> SUFFICES ASSUME ProtocolInv PROVE DataNeverArrives
    OBVIOUS
  <2>1. Is(destination, Len(destination)) /\ Is(data, Len(data)) /\ Len(destination) \in Nat /\ Len(data) \in Nat
    BY StringFacts DEF ProtocolInv, Is
  <2>2. CASE parsed = [is |-> "none"]
    BY <2>2 DEF DataNeverArrives, Pr!DataNeverArrives
  <2>3. CASE parsed = Pr!Parse(Built(destination, data))
    <3>1. IF Pr!Has(Pr!Piece, "content:")
          THEN parsed.is = "fields" /\ parsed.content = Pr!From(Pr!Piece, "content:")
          ELSE parsed.is = "thrown"
      BY <2>1, <2>3, ParseFacts
    <3> QED
      BY <3>1 DEF DataNeverArrives, Pr!DataNeverArrives
  <2> QED
    BY <2>2, <2>3 DEF ProtocolInv
<1> QED
  BY <1>1, <1>2, ProtocolStep, PTL DEF Pr!Spec
-----------------------------------------------------------------------------
(* The components of MCLifetimes side by side, and those of MCBytes: a     *)
(* step of all is a step of each or leaves it alone.                       *)
LEMMA LifetimesApart == LifetimesSpec => Ob!Spec /\ Pl!Spec /\ An!Spec /\ Re!Spec
<1>1. LifetimesInit => Ob!Init /\ Pl!Init /\ An!Init /\ Re!Init
  BY DEF LifetimesInit
<1>2. [LifetimesNext]_<<part, poolVars, obVars, plVars, anVars, reVars>> =>
        [Ob!Next]_(Ob!vars) /\ [Pl!Next]_(Pl!vars) /\ [An!Next]_(An!vars) /\ [Re!Next]_(Re!vars)
  BY DEF LifetimesNext, obVars, plVars, anVars, reVars, Ob!vars, Ob!walkVars, Ob!pastVars,
         Pl!vars, Pl!loaderVars, An!vars, Re!vars, Re!factoryVars
<1> QED
  BY <1>1, <1>2, PTL DEF LifetimesSpec, Ob!Spec, Pl!Spec, An!Spec, Re!Spec

(* The same of MCBytes.                                                    *)
LEMMA BytesApart == BytesSpec => SendSpec /\ Bu!Spec /\ Pr!Spec
<1>1. BytesInit => SendInit /\ Bu!Init /\ Pr!Init
  BY DEF BytesInit
<1>2. [BytesNext]_<<bytesPart, sendVars, buVars, prVars>> =>
        [SendNext]_sendVars /\ [Bu!Next]_(Bu!vars) /\ [Pr!Next]_(Pr!vars)
  BY DEF BytesNext, sendVars, buVars, prVars, Bu!vars, Bu!halfVars, Pr!vars
<1> QED
  BY <1>1, <1>2, PTL DEF BytesSpec, SendSpec, Bu!Spec, Pr!Spec

(* What the run of MCLifetimes checks of its components.                   *)
THEOREM LifetimesHold ==
  LifetimesSpec => [](WalkSurvives /\ HandleTells /\ AnimalsAgree /\ LookupsTell)
  BY LifetimesApart, WalksSurvive, HandlesTell, AnimalsShare, LookupsFindTheirs, PTL

(* What the run of MCBytes checks of its components.                       *)
THEOREM BytesHold ==
  BytesSpec => [](LoopsAreBounded /\ LosesOnePerSwap /\ DataNeverArrives)
  BY BytesApart, LoopsStayBounded, BufferKeepsOrder, ParseMissesData, PTL
==============================================================================

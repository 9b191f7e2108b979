-------------------------- MODULE ExplorationProofs ---------------------------
(***************************************************************************)
(* That the driver's two dictionaries keep what they are for: each run     *)
(* found interesting is continued, none twice at one number of periods,    *)
(* and the program loads the rows that were written for it.                *)
(***************************************************************************)
EXTENDS Exploration, SequenceLemmas, SequenceTheorems

IsSeq(dict) == \E S : dict \in Seq(S)
OncePerHash(dict) ==
    \A i \in DOMAIN dict, j \in DOMAIN dict : dict[i].hash = dict[j].hash => i = j
Dictionary(dict) == IsSeq(dict) /\ OncePerHash(dict)

-----------------------------------------------------------------------------
(* What the operations on a dictionary do to its keys. *)

LEMMA AddKeys ==
    ASSUME NEW dict, Dictionary(dict), NEW entry
    PROVE  /\ Dictionary(AddToExplore(dict, entry))
           /\ Keys(AddToExplore(dict, entry)) = Keys(dict) \cup {entry.hash}
  <1> DEFINE new == AddToExplore(dict, entry)
  <1>1. PICK S : dict \in Seq(S)
    BY DEF Dictionary, IsSeq
  <1>2. DOMAIN dict = 1..Len(dict) /\ Len(dict) \in Nat
    BY <1>1
  <1>3. CASE entry.hash \in Keys(dict)
    <2>1. new = [i \in DOMAIN dict |->
                    IF dict[i].hash = entry.hash /\ dict[i].prefix > entry.prefix
                    THEN entry ELSE dict[i]]
      BY <1>3 DEF AddToExplore
    <2> HIDE DEF new
    <2>2. DOMAIN new = DOMAIN dict
      BY <2>1
    <2>3. \A i \in DOMAIN dict : new[i].hash = dict[i].hash /\ new[i] \in S \cup {entry}
      BY <1>1, <1>2, <2>1
    <2>4. new \in Seq(S \cup {entry})
      <3>1. new = [i \in 1..Len(dict) |-> new[i]]
        BY <1>2, <2>1, <2>2
      <3> QED
        BY <1>2, <2>3, <3>1
    <2>5. OncePerHash(new)
      BY <2>2, <2>3 DEF OncePerHash, Dictionary
    <2>6. Keys(new) = Keys(dict)
      BY <2>2, <2>3 DEF Keys
    <2> QED
      BY <1>3, <2>4, <2>5, <2>6 DEF Dictionary, IsSeq, new
  <1>4. CASE entry.hash \notin Keys(dict)
    <2>1. new = Append(dict, entry)
      BY <1>4 DEF AddToExplore
    <2> HIDE DEF new
    <2>2. dict \in Seq(S \cup {entry})
      BY <1>1, <1>2
    <2>3. new \in Seq(S \cup {entry})
      BY <2>1, <2>2
    <2>4. /\ DOMAIN new = 1..(Len(dict) + 1)
          /\ new[Len(dict) + 1] = entry
          /\ \A i \in DOMAIN dict : new[i] = dict[i]
      BY <1>2, <2>1, <2>2
    <2>5. OncePerHash(new)
      BY <1>2, <1>4, <2>4 DEF OncePerHash, Dictionary, Keys
    <2>6. Keys(new) = Keys(dict) \cup {entry.hash}
      BY <1>2, <2>4 DEF Keys
    <2> QED
      BY <2>3, <2>5, <2>6 DEF Dictionary, IsSeq, new
  <1> QED
    BY <1>3, <1>4

LEMMA TailKeys ==
    ASSUME NEW dict, Dictionary(dict), dict # <<>>
    PROVE  /\ Dictionary(Tail(dict))
           /\ Keys(dict) = Keys(Tail(dict)) \cup {Head(dict).hash}
           /\ Head(dict).hash \notin Keys(Tail(dict))
  <1>1. PICK S : dict \in Seq(S)
    BY DEF Dictionary, IsSeq
  <1>2. /\ DOMAIN dict = 1..Len(dict) /\ Len(dict) \in Nat \ {0}
        /\ Tail(dict) \in Seq(S)
        /\ DOMAIN Tail(dict) = 1..(Len(dict) - 1)
        /\ \A i \in 1..(Len(dict) - 1) : Tail(dict)[i] = dict[i + 1]
        /\ Head(dict) = dict[1]
    BY <1>1
  <1>3. OncePerHash(Tail(dict))
    BY <1>2 DEF OncePerHash, Dictionary
  <1>4. Keys(dict) = Keys(Tail(dict)) \cup {Head(dict).hash}
    <2>1. \A i \in DOMAIN dict : i = 1 \/ (i - 1 \in 1..(Len(dict) - 1) /\ (i - 1) + 1 = i)
      BY <1>2
    <2> QED
      BY <1>2, <2>1 DEF Keys
  <1>5. Head(dict).hash \notin Keys(Tail(dict))
    BY <1>2 DEF Keys, OncePerHash, Dictionary
  <1> QED
    BY <1>2, <1>3, <1>4, <1>5 DEF Dictionary, IsSeq

-----------------------------------------------------------------------------
(* The inductive invariant.  At stage 1 there is one dictionary, whose     *)
(* entries will all be continued; at stage 2 every hash is either continued *)
(* or waits.  waited_to_explore_save has them all, always.                 *)
DictInv ==
    /\ stage \in {1, 2}
    /\ pc = "period" => stage = 1
    /\ pc = "pop" => stage = 2
    /\ Dictionary(waiting) /\ Dictionary(saved)
    /\ Keys(saved) = found
    /\ (stage = 1 /\ pc \notin {"period", "done"}) => waiting = saved /\ popped = {}
    /\ stage = 2 => /\ popped \cup Keys(waiting) = found
                    /\ popped \cap Keys(waiting) = {}

LEMMA EmptyDictionary == Dictionary(<<>>) /\ Keys(<<>>) = {}
  <1>1. <<>> \in Seq({})
    OBVIOUS
  <1> QED
    BY <1>1 DEF Dictionary, IsSeq, OncePerHash, Keys

LEMMA DictInvInit == Init => DictInv
  BY EmptyDictionary DEF Init, DictInv

LEMMA DictInvNext == DictInv /\ [Next]_vars => DictInv'
  <1> SUFFICES ASSUME DictInv, [Next]_vars PROVE DictInv'
    OBVIOUS
  <1> USE DEF DictInv
  <1>1. CASE BeginPeriod
    BY <1>1 DEF BeginPeriod, Construct
  <1>2. CASE SkipRedundant \/ Schedule
    BY <1>2 DEF SkipRedundant, Schedule, Iterating, dicts
  <1>3. CASE Load \/ ProgramEnds \/ ProgramCrashes \/ Timeout \/ Retest
    BY <1>3 DEF Load, ProgramEnds, ProgramCrashes, Timeout, Retest, dicts, search
  <1>4. CASE LateCounts \/ LateEnd
    BY <1>4 DEF LateCounts, LateEnd, dicts, search
  <1>5. CASE Evaluate
    <2>1. PICK hash \in Hashes, p \in PrefixLengths :
            LET entry == [hash |-> hash, num |-> SubSeq(shm.num, 1, shm.N), prefix |-> p]
                add == Covers(shm.num) /\ ~Known(hash)
            IN  /\ waiting' = IF add THEN AddToExplore(waiting, entry) ELSE waiting
                /\ saved' = IF ~add THEN saved
                            ELSE IF stage = 1 THEN waiting'
                            ELSE AddToExplore(saved, entry)
                /\ found' = IF add THEN found \cup {hash} ELSE found
      BY <1>5 DEF Evaluate
    <2>2. pc = "ended" /\ pc' = "iterate" /\ stage' = stage /\ popped' = popped
      BY <1>5 DEF Evaluate, search
    <2> DEFINE entry == [hash |-> hash, num |-> SubSeq(shm.num, 1, shm.N), prefix |-> p]
    <2>3. CASE Covers(shm.num) /\ ~Known(hash)
      <3>1. /\ waiting' = AddToExplore(waiting, entry)
            /\ saved' = IF stage = 1 THEN waiting' ELSE AddToExplore(saved, entry)
            /\ found' = found \cup {hash}
        BY <2>1, <2>3
      <3>2. entry.hash = hash
        OBVIOUS
      <3> HIDE DEF entry
      <3>3. /\ Dictionary(waiting') /\ Keys(waiting') = Keys(waiting) \cup {hash}
            /\ stage = 2 => Dictionary(saved') /\ Keys(saved') = Keys(saved) \cup {hash}
        BY <3>1, <3>2, AddKeys
      <3>4. stage = 2 => hash \notin found
        BY <2>3 DEF Known
      <3> QED
        BY <2>2, <3>1, <3>3, <3>4
    <2>4. CASE ~(Covers(shm.num) /\ ~Known(hash))
      <3>1. waiting' = waiting /\ saved' = saved /\ found' = found
        BY <2>1, <2>4
      <3> QED
        BY <2>2, <3>1
    <2> QED
      BY <2>3, <2>4
  <1>6. CASE Exhausted
    BY <1>6 DEF Exhausted
  <1>7. CASE PopPrefix
    <2>1. /\ pc = "pop" /\ waiting # <<>> /\ waiting' = Tail(waiting)
          /\ popped' = popped \cup {Head(waiting).hash}
          /\ pc' \in {"pop", "iterate"}
          /\ stage' = stage /\ saved' = saved /\ found' = found
      BY <1>7 DEF PopPrefix
    <2>2. /\ Dictionary(Tail(waiting))
          /\ Keys(waiting) = Keys(Tail(waiting)) \cup {Head(waiting).hash}
          /\ Head(waiting).hash \notin Keys(Tail(waiting))
      BY <2>1, TailKeys
    <2> QED
      BY <2>1, <2>2
  <1>8. CASE EndPeriod
    BY <1>8 DEF EndPeriod, dicts
  <1>9. CASE Done \/ UNCHANGED vars
    BY <1>9 DEF Done, vars, search, dicts
  <1> QED
    BY <1>1, <1>2, <1>3, <1>4, <1>5, <1>6, <1>7, <1>8, <1>9 DEF Next, Driver

-----------------------------------------------------------------------------
(* Types.  The counts a program leaves are numbers of one of the outcomes; *)
(* whoever reads them finds as many as N says.                             *)

LEMMA LongestOutcome ==
    /\ Lengths \subseteq Nat
    /\ Max(Lengths) \in Lengths
    /\ \A l \in Lengths : l <= Max(Lengths)
  <1>1. Lengths \subseteq Nat
    BY OutcomesAssumption DEF Lengths
  <1>2. \E l \in Lengths : \A k \in Lengths : l >= k
    <2>1. PICK o \in Outcomes : \A p \in Outcomes : Len(p) <= Len(o)
      BY OutcomesAssumption
    <2>2. Len(o) \in Lengths /\ \A k \in Lengths : Len(o) >= k
      BY <1>1, <2>1 DEF Lengths
    <2> QED
      BY <2>2
  <1>3. Max(Lengths) \in Lengths /\ \A k \in Lengths : Max(Lengths) >= k
    BY <1>2 DEF Max
  <1> QED
    BY <1>1, <1>3

LEMMA OutcomeWritten ==
    ASSUME NEW o \in Outcomes
    PROVE  /\ o \in Counts
           /\ Written(o).N \in Lengths
           /\ Written(o).M \in Nat
           /\ Written(o).num \in [ThreadIds -> Nat]
           /\ \A t \in DOMAIN o : o[t] <= Written(o).M
           /\ \A t \in ThreadIds : Written(o).num[t] <= Written(o).M
           /\ Written(o) = [N |-> Len(o), M |-> Most(o), num |-> Padded(o)]
  <1> DEFINE L == Len(o)
             met == {0} \cup {o[t] : t \in DOMAIN o}
  <1>1. L \in Nat /\ o \in [1..L -> Nat] /\ DOMAIN o = 1..L
    BY OutcomesAssumption
  <1> HIDE DEF L
  <1>2. \E bound \in Nat : met \in SUBSET (0..bound)
    <2>1. CASE L = 0
      <3>1. met \in SUBSET (0..0)
        BY <1>1, <2>1
      <3> QED
        BY <3>1
    <2>2. CASE L # 0
      <3>1. PICK i \in 1..L : \A j \in 1..L : o[i] >= o[j]
        BY <1>1, <2>2, GreatestEntry
      <3>2. o[i] \in Nat /\ \A j \in 1..L : o[j] \in 0..o[i]
        BY <1>1, <3>1
      <3>3. met \in SUBSET (0..o[i])
        BY <1>1, <3>2
      <3> QED
        BY <3>2, <3>3
    <2> QED
      BY <2>1, <2>2
  <1>3. Max(met) \in met /\ \A n \in met : n <= Max(met)
    <2>1. PICK bound \in Nat : met \in SUBSET (0..bound)
      BY <1>2
    <2> QED
      BY <2>1, MaxOfSet
  <1>4. Most(o) = Max(met) /\ Most(o) \in Nat /\ \A t \in DOMAIN o : o[t] <= Most(o)
    BY <1>2, <1>3 DEF Most
  <1>5. Len(o) \in Lengths /\ L \in Lengths
    BY DEF Lengths, L
  <1>6. Padded(o) \in [ThreadIds -> Nat] /\ \A t \in ThreadIds : Padded(o)[t] <= Most(o)
    <2>1. 0 <= Most(o)
      BY <1>4
    <2> HIDE DEF met
    <2> QED
      BY <1>1, <1>4, <2>1 DEF Padded
  <1>7. o \in Counts
    BY <1>1, <1>5 DEF Counts
  <1> QED
    BY <1>4, <1>5, <1>6, <1>7 DEF Written

LEMMA EntryType ==
    ASSUME NEW num \in [ThreadIds -> Nat], NEW k \in Lengths, NEW hash \in Hashes, NEW p \in PrefixLengths
    PROVE  [hash |-> hash, num |-> SubSeq(num, 1, k), prefix |-> p] \in Entries
  <1>1. Max(Lengths) \in Nat /\ k \in Nat /\ k <= Max(Lengths)
    BY LongestOutcome
  <1>2. \A i \in 1..k : num[i] \in Nat
    BY <1>1 DEF ThreadIds
  <1>3. SubSeq(num, 1, k) \in Seq(Nat) /\ Len(SubSeq(num, 1, k)) = k
    <2>1. /\ SubSeq(num, 1, k) \in Seq(Nat)
          /\ Len(SubSeq(num, 1, k)) = IF 1 <= k THEN k - 1 + 1 ELSE 0
      BY <1>1, <1>2, SubSeqProperties, 1 \in Int, k \in Int
    <2> QED
      BY <1>1, <2>1
  <1> DEFINE cut == SubSeq(num, 1, k)
  <1> HIDE DEF cut
  <1>4. cut \in [1..k -> Nat]
    <2>1. cut \in Seq(Nat) /\ Len(cut) = k
      BY <1>3 DEF cut
    <2> QED
      BY <2>1
  <1> QED
    BY <1>4 DEF Entries, Counts, cut

LEMMA AddType ==
    ASSUME NEW dict \in Seq(Entries), NEW entry \in Entries
    PROVE  AddToExplore(dict, entry) \in Seq(Entries)
  <1>1. CASE entry.hash \in Keys(dict)
    <2>1. Len(dict) \in Nat /\ DOMAIN dict = 1..Len(dict) /\ \A i \in 1..Len(dict) : dict[i] \in Entries
      OBVIOUS
    <2>2. AddToExplore(dict, entry)
             = [i \in 1..Len(dict) |-> IF dict[i].hash = entry.hash /\ dict[i].prefix > entry.prefix
                                       THEN entry ELSE dict[i]]
      BY <1>1, <2>1 DEF AddToExplore
    <2> QED
      BY <2>1, <2>2
  <1>2. CASE entry.hash \notin Keys(dict)
    BY <1>2 DEF AddToExplore
  <1> QED
    BY <1>1, <1>2

(* The inductive invariant: TypeOK, with the dictionaries as sequences,    *)
(* and in shared memory the number of threads of an outcome.               *)
SharedMemory == [N : Lengths, M : Nat, num : [ThreadIds -> Nat]]
ControlInv ==
    /\ pc \in {"period", "iterate", "started", "running", "ended", "pop", "done"}
    /\ period \in 2..PeriodLimit /\ stage \in {1, 2}
    /\ left \in None..MaxSchedules /\ prefix \in PrefixLengths \cup {NoPrefix}
    /\ limit \in RunsLimits /\ limited \in BOOLEAN /\ rounds \in 0..limit
NumbersInv ==
    /\ N \in Lengths /\ M \in Nat /\ rows \subseteq Nat /\ loaded \in Nat
    /\ kps \in Counts /\ shm \in SharedMemory
    /\ late \in {"no", "running", "counted"} /\ lateMet \in Outcomes /\ lates \in Nat
ArraysInv ==
    /\ arrays \in [parent : [ThreadIds -> Nat], copy : [ThreadIds -> Nat], same : BOOLEAN]
    /\ arrays.same => arrays.parent = arrays.copy
EntriesInv ==
    /\ waiting \in Seq(Entries) /\ saved \in Seq(Entries)
    /\ popped \subseteq Hashes /\ found \subseteq Hashes
TypeInv == ControlInv /\ NumbersInv /\ ArraysInv /\ EntriesInv

LEMMA TypeInvInit == Init => TypeInv
  <1> SUFFICES ASSUME Init PROVE TypeInv
    OBVIOUS
  <1> USE DEF Init
  <1>1. ControlInv
    <2>1. None \in None..MaxSchedules
      BY PositiveLimit DEF None
    <2>2. 2 \in 2..PeriodLimit /\ limit \in RunsLimits /\ 0 \in 0..limit
      BY PositiveLimit
    <2> QED
      BY <2>1, <2>2 DEF ControlInv
  <1>2. NumbersInv
    BY PositiveLimit, OutcomeWritten DEF NumbersInv, SharedMemory, Written
  <1>3. EntriesInv
    BY DEF EntriesInv
  <1>4. ArraysInv
    <2>1. Padded(DefaultOutcome) \in [ThreadIds -> Nat]
      BY PositiveLimit, OutcomeWritten DEF Written
    <2> QED
      BY <2>1 DEF ArraysInv
  <1> QED
    BY <1>1, <1>2, <1>3, <1>4 DEF TypeInv

LEMMA ControlNext == ControlInv /\ EntriesInv /\ [Next]_vars => ControlInv'
  <1> SUFFICES ASSUME ControlInv, EntriesInv, [Next]_vars PROVE ControlInv'
    OBVIOUS
  <1> USE DEF ControlInv
  <1>1. Construct => left' \in None..MaxSchedules
    BY PositiveLimit DEF Construct, None
  <1>2. RunsLimits \subseteq Nat /\ MaxSchedules \in Nat /\ PeriodLimit \in Nat
    BY PositiveLimit
  <1>3. CASE BeginPeriod
    BY <1>1, <1>3 DEF BeginPeriod, rest, budget
  <1>4. CASE SkipRedundant
    BY <1>2, <1>4 DEF SkipRedundant, Iterating, rest, budget, None
  <1>5. CASE Schedule
    BY <1>2, <1>5 DEF Schedule, Iterating, AtLimit, None
  <1>6. CASE Load \/ ProgramEnds \/ ProgramCrashes \/ Retest
    BY <1>6 DEF Load, ProgramEnds, ProgramCrashes, Retest, search, rest, budget
  <1>7. CASE Timeout
    BY <1>7 DEF Timeout, search, rest, budget
  <1>8. CASE LateCounts \/ LateEnd
    BY <1>8 DEF LateCounts, LateEnd, search, budget
  <1>9. CASE Evaluate
    BY <1>9 DEF Evaluate, search, rest, budget
  <1>10. CASE Exhausted
    BY <1>10 DEF Exhausted
  <1>11. CASE PopPrefix
    <2>1. Head(waiting).prefix \in PrefixLengths
      <3>1. waiting # <<>> /\ waiting \in Seq(Entries)
        BY <1>11 DEF PopPrefix, EntriesInv
      <3>2. Head(waiting) \in Entries
        BY <3>1
      <3> QED
        BY <3>2 DEF Entries
    <2> QED
      BY <1>1, <1>11, <2>1 DEF PopPrefix, rest, budget
  <1>12. CASE EndPeriod
    BY <1>2, <1>12 DEF EndPeriod, rest, budget
  <1>13. CASE Done \/ UNCHANGED vars
    BY <1>13 DEF Done, vars, search, rest, budget
  <1> QED
    BY <1>3, <1>4, <1>5, <1>6, <1>7, <1>8, <1>9, <1>10, <1>11, <1>12, <1>13 DEF Next, Driver

LEMMA PaddedType ==
    ASSUME NEW k \in Nat, NEW num \in [1..k -> Nat]
    PROVE  Padded(num) \in [ThreadIds -> Nat]
  BY DEF Padded

LEMMA LargerIs ==
    ASSUME NEW a \in Nat, NEW b \in Nat
    PROVE  /\ Larger(a, b) \in {a, b} /\ a <= Larger(a, b) /\ b <= Larger(a, b)
           /\ a <= b => Larger(a, b) = b
           /\ b <= a => Larger(a, b) = a
  <1>1. \E x \in {a, b} : \A y \in {a, b} : x >= y
    <2>1. a >= b \/ b >= a
      OBVIOUS
    <2> QED
      BY <2>1
  <1>2. Max({a, b}) \in {a, b} /\ \A y \in {a, b} : Max({a, b}) >= y
    BY <1>1 DEF Max
  <1> QED
    BY <1>2 DEF Larger

LEMMA CountsAre ==
    ASSUME NEW num \in Counts
    PROVE  /\ \A t \in DOMAIN num : num[t] \in Nat
           /\ Padded(num) \in [ThreadIds -> Nat]
  <1>1. PICK k \in Lengths : num \in [1..k -> Nat]
    BY DEF Counts
  <1> QED
    BY <1>1, LongestOutcome, PaddedType

(* What stands at the head of a dictionary is counts. *)
LEMMA HeadCounts ==
    ASSUME EntriesInv, waiting # <<>>
    PROVE  Head(waiting).num \in Counts
  <1>1. Head(waiting) \in Entries
    BY DEF EntriesInv
  <1> QED
    BY <1>1 DEF Entries

LEMMA NumbersNext == NumbersInv /\ EntriesInv /\ [Next]_vars => NumbersInv'
  <1> SUFFICES ASSUME NumbersInv, EntriesInv, [Next]_vars PROVE NumbersInv'
    OBVIOUS
  <1> USE DEF NumbersInv
  <1>1. /\ shm \in SharedMemory /\ Lengths \subseteq Nat
        /\ \A o \in Outcomes : Written(o) \in SharedMemory
        /\ \A o \in Outcomes : o \in Counts /\ Padded(o) \in [ThreadIds -> Nat]
    BY LongestOutcome, OutcomeWritten DEF SharedMemory, Written
  <1>2. CASE BeginPeriod
    BY <1>1, <1>2, PositiveLimit DEF BeginPeriod, program, rest
  <1>3. CASE SkipRedundant
    BY <1>3 DEF SkipRedundant, program, rest
  <1>4. CASE Schedule
    <2>1. shm' \in SharedMemory
      BY <1>1, <1>4 DEF Schedule, WriteConfig, SharedMemory
    <2>2. Filled \subseteq Nat
      <3>1. \A t \in DOMAIN kps : Larger(M, kps[t]) \in Nat
        BY CountsAre, LargerIs
      <3> QED
        BY <3>1 DEF Filled
    <2> QED
      BY <1>4, <2>1, <2>2 DEF Schedule
  <1>5. CASE Load
    <2>1. Zeros \in [ThreadIds -> Nat]
      BY DEF Zeros
    <2>2. shm' \in SharedMemory /\ shm.M \in Nat
      BY <1>1, <1>5, <2>1 DEF Load, SharedMemory
    <2> QED
      BY <1>5, <2>2 DEF Load, search, rest
  <1>6. CASE ProgramEnds
    BY <1>1, <1>6 DEF ProgramEnds, search, rest
  <1>7. CASE ProgramCrashes
    BY <1>7 DEF ProgramCrashes, search, rest
  <1>16. CASE Timeout
    BY <1>16 DEF Timeout, search, program, rest
  <1>8. CASE Retest
    <2>1. shm.N \in Lengths /\ shm.M \in Nat
      BY <1>1 DEF SharedMemory
    <2>2. Larger(N, shm.N) \in {N, shm.N} /\ Larger(M, shm.M) \in {M, shm.M}
      BY <1>1, <2>1, LargerIs
    <2> QED
      BY <1>8, <2>1, <2>2 DEF Retest, search, rest
  <1>9. CASE Evaluate
    BY <1>9 DEF Evaluate, search, program, rest
  <1>10. CASE Exhausted
    BY <1>10 DEF Exhausted, program
  <1>11. CASE PopPrefix
    BY <1>11, HeadCounts DEF PopPrefix, program, rest
  <1>12. CASE EndPeriod
    BY <1>12 DEF EndPeriod, program, rest
  <1>13. CASE Done \/ UNCHANGED vars
    BY <1>13 DEF Done, vars, search, program, rest
  <1>14. CASE LateCounts
    <2>1. PICK o \in Outcomes : lateMet' = o /\ shm' = [shm EXCEPT !.num = Padded(o)]
      BY <1>14 DEF LateCounts
    <2>2. shm' \in SharedMemory
      BY <1>1, <2>1 DEF SharedMemory
    <2> QED
      BY <1>14, <2>1, <2>2 DEF LateCounts, search
  <1>15. CASE LateEnd
    <2>1. shm' \in SharedMemory
      BY <1>1, <1>15 DEF LateEnd, SharedMemory
    <2> QED
      BY <1>15, <2>1, PositiveLimit DEF LateEnd, search
  <1> QED
    BY <1>2, <1>3, <1>4, <1>5, <1>6, <1>7, <1>8, <1>9, <1>10, <1>11, <1>12, <1>13, <1>14, <1>15, <1>16
    DEF Next, Driver

(* An evaluation leaves the counts as they were: the list that is raised   *)
(* is not the copy that is restored.                                       *)
LEMMA EvaluationRestores ==
    ASSUME Evaluate
    PROVE  arrays' = [parent |-> arrays.parent, copy |-> arrays.parent, same |-> TRUE]
  BY DEF Evaluate, Copied, Raised, Restored

LEMMA ArraysNext == EntriesInv /\ ArraysInv /\ [Next]_vars => ArraysInv'
  <1> SUFFICES ASSUME EntriesInv, ArraysInv, [Next]_vars PROVE ArraysInv'
    OBVIOUS
  <1>1. CASE BeginPeriod
    BY <1>1 DEF BeginPeriod, ArraysInv, Restored
  <1>2. CASE Evaluate
    <2>1. arrays' = [parent |-> arrays.parent, copy |-> arrays.parent, same |-> TRUE]
      BY <1>2, EvaluationRestores
    <2> QED
      BY <2>1 DEF ArraysInv
  <1>3. CASE PopPrefix
    <2>1. Padded(Head(waiting).num) \in [ThreadIds -> Nat]
      BY <1>3, HeadCounts, CountsAre DEF PopPrefix
    <2>2. arrays' = [parent |-> Padded(Head(waiting).num), copy |-> arrays.parent, same |-> FALSE]
      BY <1>3 DEF PopPrefix, Copied, Loaded
    <2> QED
      BY <2>1, <2>2 DEF ArraysInv
  <1>4. UNCHANGED arrays => ArraysInv'
    BY DEF ArraysInv
  <1>5. CASE SkipRedundant \/ Schedule \/ Load \/ ProgramEnds \/ ProgramCrashes \/ Timeout \/ Retest
    BY <1>4, <1>5 DEF SkipRedundant, Schedule, Load, ProgramEnds, ProgramCrashes, Timeout, Retest
  <1>6. CASE Exhausted \/ EndPeriod \/ LateCounts \/ LateEnd \/ Done \/ UNCHANGED vars
    BY <1>4, <1>6 DEF Exhausted, EndPeriod, LateCounts, LateEnd, Done, vars
  <1> QED
    BY <1>1, <1>2, <1>3, <1>5, <1>6 DEF Next, Driver

LEMMA EntriesNext == NumbersInv /\ EntriesInv /\ [Next]_vars => EntriesInv'
  <1> SUFFICES ASSUME NumbersInv, EntriesInv, [Next]_vars PROVE EntriesInv'
    OBVIOUS
  <1> USE DEF EntriesInv
  <1>1. CASE BeginPeriod
    BY <1>1 DEF BeginPeriod
  <1>2. CASE SkipRedundant \/ Schedule \/ Load \/ ProgramEnds \/ ProgramCrashes \/ Timeout \/ Retest
    BY <1>2 DEF SkipRedundant, Schedule, Load, ProgramEnds, ProgramCrashes, Timeout, Retest, dicts
  <1>3. CASE LateCounts \/ LateEnd \/ EndPeriod
    BY <1>3 DEF LateCounts, LateEnd, EndPeriod, dicts
  <1>4. CASE Evaluate
    <2>1. PICK hash \in Hashes, p \in PrefixLengths :
            LET entry == [hash |-> hash, num |-> SubSeq(shm.num, 1, shm.N), prefix |-> p]
                add == Covers(shm.num) /\ ~Known(hash)
            IN  /\ waiting' = IF add THEN AddToExplore(waiting, entry) ELSE waiting
                /\ saved' = IF ~add THEN saved
                            ELSE IF stage = 1 THEN waiting'
                            ELSE AddToExplore(saved, entry)
                /\ found' = IF add THEN found \cup {hash} ELSE found
      BY <1>4 DEF Evaluate
    <2> DEFINE entry == [hash |-> hash, num |-> SubSeq(shm.num, 1, shm.N), prefix |-> p]
    <2>2. entry \in Entries
      <3>1. shm.num \in [ThreadIds -> Nat] /\ shm.N \in Lengths
        BY DEF NumbersInv, SharedMemory
      <3> QED
        BY <3>1, EntryType
    <2> HIDE DEF entry
    <2>3. AddToExplore(waiting, entry) \in Seq(Entries) /\ AddToExplore(saved, entry) \in Seq(Entries)
      BY <2>2, AddType
    <2>4. /\ waiting' \in {waiting, AddToExplore(waiting, entry)}
          /\ saved' \in {saved, waiting', AddToExplore(saved, entry)}
          /\ found' \in {found, found \cup {hash}}
      BY <2>1 DEF entry
    <2>5. popped' = popped
      BY <1>4 DEF Evaluate
    <2> QED
      BY <2>3, <2>4, <2>5
  <1>5. CASE Exhausted
    BY <1>5 DEF Exhausted
  <1>6. CASE PopPrefix
    <2>1. /\ waiting # <<>> /\ waiting' = Tail(waiting) /\ saved' = saved /\ found' = found
          /\ popped' = popped \cup {Head(waiting).hash}
      BY <1>6 DEF PopPrefix
    <2>2. Head(waiting) \in Entries /\ Tail(waiting) \in Seq(Entries)
      BY <2>1
    <2>3. Head(waiting).hash \in Hashes
      BY <2>2 DEF Entries
    <2> QED
      BY <2>1, <2>2, <2>3
  <1>7. CASE Done \/ UNCHANGED vars
    BY <1>7 DEF Done, vars, dicts
  <1> QED
    BY <1>1, <1>2, <1>3, <1>4, <1>5, <1>6, <1>7 DEF Next, Driver

-----------------------------------------------------------------------------
(* The counts that runs are compared with.  Up to the first prefix both    *)
(* lists have those of the default run.                                    *)
BeforePrefixes == period = 2 \/ (period = 3 /\ stage = 1 /\ pc # "done")
ParentInv ==
    /\ BeforePrefixes => /\ arrays.parent = Padded(DefaultOutcome)
                         /\ arrays.copy = Padded(DefaultOutcome)
    /\ (Exploring /\ stage = 1) => kps = DefaultOutcome
    /\ PrefixIsParent

LEMMA ParentInvInit == Init => ParentInv
  BY DEF Init, ParentInv, BeforePrefixes, PrefixIsParent, ComparedWithParent, Exploring

LEMMA ParentInvNext == ControlInv /\ DictInv /\ ParentInv /\ [Next]_vars => ParentInv'
  <1> SUFFICES ASSUME ControlInv, DictInv, ParentInv, [Next]_vars PROVE ParentInv'
    OBVIOUS
  <1> USE DEF ParentInv, BeforePrefixes, PrefixIsParent, ComparedWithParent, Exploring
  <1>1. /\ period \in Int /\ 2 <= period /\ stage \in {1, 2}
        /\ pc = "period" => stage = 1
        /\ pc = "pop" => stage = 2
    BY PositiveLimit DEF ControlInv, DictInv
  <1>2. CASE BeginPeriod
    <2>1. /\ pc = "period" /\ pc' = "iterate" /\ kps' = DefaultOutcome
          /\ arrays' = [parent |-> arrays.copy, copy |-> arrays.copy, same |-> TRUE]
          /\ UNCHANGED <<period, stage>>
      BY <1>2 DEF BeginPeriod, Restored
    <2> QED
      BY <1>1, <2>1
  <1>3. CASE Evaluate
    <2>1. /\ pc = "ended" /\ pc' = "iterate" /\ UNCHANGED <<period, stage, kps>>
          /\ arrays' = [parent |-> arrays.parent, copy |-> arrays.parent, same |-> TRUE]
      BY <1>3, EvaluationRestores DEF Evaluate, search
    <2> QED
      BY <2>1
  <1>4. CASE Exhausted
    BY <1>1, <1>4 DEF Exhausted
  <1>5. CASE PopPrefix
    <2>1. /\ pc = "pop" /\ period > 2 /\ pc' \in {"pop", "iterate"} /\ kps' = Head(waiting).num
          /\ arrays' = [parent |-> Padded(Head(waiting).num), copy |-> arrays.parent, same |-> FALSE]
          /\ UNCHANGED <<period, stage>>
      BY <1>5 DEF PopPrefix, UsesPrefixes, Copied, Loaded
    <2> QED
      BY <1>1, <2>1
  <1>6. CASE EndPeriod
    <2>1. /\ pc = "pop" /\ stage' = 1 /\ UNCHANGED <<arrays, kps>>
          /\ \/ pc' = "done" /\ period' = period
             \/ pc' = "period" /\ period' = period + 1
      BY <1>6 DEF EndPeriod
    <2> QED
      BY <1>1, <2>1
  <1>7. CASE /\ UNCHANGED <<arrays, kps, period, stage>>
             /\ Exploring' <=> Exploring
             /\ pc # "done" <=> pc' # "done"
    BY <1>7
  <1>8. CASE SkipRedundant \/ Schedule
    BY <1>7, <1>8 DEF SkipRedundant, Schedule, Iterating
  <1>9. CASE Load \/ ProgramEnds \/ ProgramCrashes \/ Timeout \/ Retest
    BY <1>7, <1>9 DEF Load, ProgramEnds, ProgramCrashes, Timeout, Retest, search
  <1>10. CASE LateCounts \/ LateEnd \/ Done \/ UNCHANGED vars
    BY <1>7, <1>10 DEF LateCounts, LateEnd, Done, vars, search
  <1> QED
    BY <1>2, <1>3, <1>4, <1>5, <1>6, <1>8, <1>9, <1>10 DEF Next, Driver

-----------------------------------------------------------------------------
(* Rows.  As long as no program has outlived its timeout, all counts the   *)
(* driver makes schedulers from fit into rows of M.                        *)
Fits(num, n) == \A t \in DOMAIN num : num[t] <= n
AllFit(dict, n) == \A i \in DOMAIN dict : Fits(dict[i].num, n)
FitInv ==
    /\ Most(DefaultOutcome) <= M
    /\ lates = 0 =>
          /\ late = "no"
          /\ pc \in {"running", "ended"} => \A t \in ThreadIds : shm.num[t] <= shm.M
          /\ Fits(kps, M) /\ AllFit(waiting, M) /\ AllFit(saved, M)
RowsInv ==
    /\ (pc = "started" /\ ~disturbed /\ lates = 0) => rows \subseteq {shm.M}
    /\ LoadsItsRows

LEMMA DefaultFits == Fits(DefaultOutcome, Most(DefaultOutcome)) /\ Most(DefaultOutcome) \in Nat
  BY PositiveLimit, OutcomeWritten DEF Fits, Written

LEMMA AddFits ==
    ASSUME NEW dict \in Seq(Entries), NEW entry \in Entries, NEW n,
           AllFit(dict, n), Fits(entry.num, n)
    PROVE  AllFit(AddToExplore(dict, entry), n)
  <1>1. CASE entry.hash \in Keys(dict)
    <2>1. AddToExplore(dict, entry)
             = [i \in DOMAIN dict |-> IF dict[i].hash = entry.hash /\ dict[i].prefix > entry.prefix
                                      THEN entry ELSE dict[i]]
      BY <1>1 DEF AddToExplore
    <2> QED
      BY <2>1 DEF AllFit
  <1>2. CASE entry.hash \notin Keys(dict)
    <2>1. AddToExplore(dict, entry) = Append(dict, entry)
      BY <1>2 DEF AddToExplore
    <2>2. \A i \in DOMAIN Append(dict, entry) :
             Append(dict, entry)[i] = entry \/ (i \in DOMAIN dict /\ Append(dict, entry)[i] = dict[i])
      OBVIOUS
    <2> QED
      BY <2>1, <2>2 DEF AllFit
  <1> QED
    BY <1>1, <1>2

LEMMA MoreFit ==
    ASSUME NEW n \in Nat, NEW k \in Nat, n <= k
    PROVE  /\ \A num \in Counts : Fits(num, n) => Fits(num, k)
           /\ \A dict \in Seq(Entries) : AllFit(dict, n) => AllFit(dict, k)
  <1>1. \A num \in Counts : Fits(num, n) => Fits(num, k)
    <2> TAKE num \in Counts
    <2>1. \A t \in DOMAIN num : num[t] \in Nat
      BY CountsAre
    <2> QED
      BY <2>1 DEF Fits
  <1>2. \A dict \in Seq(Entries) : AllFit(dict, n) => AllFit(dict, k)
    <2> TAKE dict \in Seq(Entries)
    <2>1. \A i \in DOMAIN dict : dict[i].num \in Counts
      <3>1. \A e \in Entries : e.num \in Counts
        BY DEF Entries
      <3>2. \A i \in DOMAIN dict : dict[i] \in Entries
        OBVIOUS
      <3> QED
        BY <3>1, <3>2
    <2> QED
      BY <1>1, <2>1 DEF AllFit
  <1> QED
    BY <1>1, <1>2

LEMMA FitInvInit == Init => FitInv
  <1> SUFFICES ASSUME Init PROVE FitInv
    OBVIOUS
  <1>1. AllFit(<<>>, M)
    BY DEF AllFit
  <1> QED
    BY <1>1, DefaultFits DEF Init, FitInv

LEMMA FitInvNext == NumbersInv /\ EntriesInv /\ FitInv /\ [Next]_vars => FitInv'
  <1> SUFFICES ASSUME NumbersInv, EntriesInv, FitInv, [Next]_vars PROVE FitInv'
    OBVIOUS
  <1> USE DEF FitInv
  <1>1. /\ M \in Nat /\ lates \in Nat /\ shm \in SharedMemory /\ shm.M \in Nat
        /\ shm.num \in [ThreadIds -> Nat] /\ N \in Nat /\ shm.N \in Lengths
        /\ kps \in Counts /\ waiting \in Seq(Entries) /\ saved \in Seq(Entries)
    BY LongestOutcome DEF NumbersInv, SharedMemory, EntriesInv
  <1>2. CASE BeginPeriod
    <2>1. Fits(DefaultOutcome, M)
      BY <1>1, DefaultFits, MoreFit, OutcomeWritten, PositiveLimit
    <2>2. /\ kps' = DefaultOutcome /\ waiting' = saved /\ pc' = "iterate"
          /\ UNCHANGED <<M, late, lates, saved>>
      BY <1>2 DEF BeginPeriod, rest
    <2> QED
      BY <2>1, <2>2
  <1>3. CASE SkipRedundant
    BY <1>3 DEF SkipRedundant, Iterating, dicts, rest
  <1>4. CASE Schedule
    BY <1>4 DEF Schedule, dicts
  <1>5. CASE Load
    <2>1. shm' = [shm EXCEPT !.num = Zeros] /\ UNCHANGED <<M, kps, waiting, saved, late, lates>>
      BY <1>5 DEF Load, search, dicts, rest
    <2>2. \A t \in ThreadIds : shm'.num[t] <= shm'.M
      BY <1>1, <2>1 DEF SharedMemory, Zeros
    <2> QED
      BY <2>1, <2>2
  <1>6. CASE ProgramEnds
    <2>1. PICK o \in Outcomes : shm' = Written(o)
      BY <1>6 DEF ProgramEnds
    <2>2. UNCHANGED <<M, kps, waiting, saved, late, lates>>
      BY <1>6 DEF ProgramEnds, search, dicts, rest
    <2> QED
      BY <2>1, <2>2, OutcomeWritten
  <1>7. CASE ProgramCrashes
    <2>1. pc = "running" /\ UNCHANGED <<M, shm, kps, waiting, saved, late, lates>>
      BY <1>7 DEF ProgramCrashes, search, dicts, rest
    <2> QED
      BY <2>1
  <1>8. CASE Timeout
    <2>1. /\ pc' = "iterate" /\ UNCHANGED <<M, kps, waiting, saved>>
          /\ lates' = lates + 1 \/ UNCHANGED <<late, lates>>
      BY <1>8 DEF Timeout, search, dicts, rest
    <2> QED
      BY <1>1, <2>1
  <1>9. CASE Retest
    <2>1. M' = Larger(M, shm.M) /\ pc' = "started" /\ UNCHANGED <<kps, waiting, saved, late, lates>>
      BY <1>9 DEF Retest, search, dicts, rest
    <2>2. M <= M' /\ M' \in Nat
      BY <1>1, <2>1, LargerIs
    <2>3. /\ Fits(kps, M) => Fits(kps, M')
          /\ AllFit(waiting, M) => AllFit(waiting, M')
          /\ AllFit(saved, M) => AllFit(saved, M')
      BY <1>1, <2>2, MoreFit
    <2>4. Most(DefaultOutcome) <= M'
      BY <1>1, <2>2, DefaultFits
    <2> QED
      BY <2>1, <2>3, <2>4
  <1>10. CASE Evaluate
    <2>1. PICK hash \in Hashes, p \in PrefixLengths :
            LET entry == [hash |-> hash, num |-> SubSeq(shm.num, 1, shm.N), prefix |-> p]
                add == Covers(shm.num) /\ ~Known(hash)
            IN  /\ waiting' = IF add THEN AddToExplore(waiting, entry) ELSE waiting
                /\ saved' = IF ~add THEN saved
                            ELSE IF stage = 1 THEN waiting'
                            ELSE AddToExplore(saved, entry)
                /\ found' = IF add THEN found \cup {hash} ELSE found
      BY <1>10 DEF Evaluate
    <2> DEFINE num == SubSeq(shm.num, 1, shm.N)
               entry == [hash |-> hash, num |-> num, prefix |-> p]
    <2>2. /\ pc = "ended" /\ ~TooSmall /\ pc' = "iterate"
          /\ UNCHANGED <<M, kps, late, lates>>
      BY <1>10 DEF Evaluate, search, rest
    <2>3. entry \in Entries
      BY <1>1, EntryType
    <2>4. /\ waiting' \in {waiting, AddToExplore(waiting, entry)}
          /\ saved' \in {saved, waiting', AddToExplore(saved, entry)}
      BY <2>1
    <2>5. ASSUME lates = 0 PROVE AllFit(waiting', M) /\ AllFit(saved', M)
      <3>1. shm.M <= M /\ \A t \in ThreadIds : shm.num[t] <= M
        <4>1. shm.M <= M
          BY <1>1, <2>2 DEF TooSmall
        <4>2. \A t \in ThreadIds : shm.num[t] \in Nat /\ shm.num[t] <= shm.M
          BY <1>1, <2>2, <2>5
        <4> QED
          BY <1>1, <4>1, <4>2
      <3>2. Fits(num, M)
        <4>1. shm.N \in Nat /\ shm.N <= Max(Lengths) /\ Max(Lengths) \in Nat
          BY <1>1, LongestOutcome
        <4>2. \A t \in DOMAIN num : t \in ThreadIds /\ num[t] = shm.num[t]
          BY <4>1 DEF ThreadIds
        <4> QED
          BY <3>1, <4>2 DEF Fits
      <3>3. entry.num = num
        OBVIOUS
      <3> HIDE DEF entry, num
      <3>4. AllFit(AddToExplore(waiting, entry), M) /\ AllFit(AddToExplore(saved, entry), M)
        BY <1>1, <2>3, <2>5, <3>2, <3>3, AddFits
      <3> QED
        BY <2>4, <2>5, <3>4
    <2> QED
      BY <2>2, <2>5
  <1>11. CASE Exhausted
    BY <1>11 DEF Exhausted
  <1>12. CASE PopPrefix
    <2>1. /\ waiting # <<>> /\ waiting' = Tail(waiting) /\ kps' = Head(waiting).num
          /\ pc' \in {"pop", "iterate"} /\ UNCHANGED <<M, late, lates, saved>>
      BY <1>12 DEF PopPrefix, rest
    <2>2. /\ Head(waiting) = waiting[1] /\ 1 \in DOMAIN waiting
          /\ \A i \in DOMAIN Tail(waiting) : i + 1 \in DOMAIN waiting /\ Tail(waiting)[i] = waiting[i + 1]
      BY <1>1, <2>1
    <2>3. AllFit(waiting, M) => Fits(Head(waiting).num, M) /\ AllFit(Tail(waiting), M)
      BY <2>2 DEF AllFit
    <2> QED
      BY <2>1, <2>3
  <1>13. CASE EndPeriod
    BY <1>13 DEF EndPeriod, dicts, rest
  <1>14. CASE LateCounts \/ LateEnd
    <2>1. lates # 0 /\ UNCHANGED <<M, lates>>
      BY <1>14 DEF LateCounts, LateEnd
    <2> QED
      BY <2>1
  <1>15. CASE Done \/ UNCHANGED vars
    BY <1>15 DEF Done, vars, search, dicts, program, rest
  <1> QED
    BY <1>2, <1>3, <1>4, <1>5, <1>6, <1>7, <1>8, <1>9, <1>10, <1>11, <1>12, <1>13, <1>14, <1>15
    DEF Next, Driver

LEMMA RowsInvInit == Init => RowsInv
  BY DEF Init, RowsInv, LoadsItsRows

LEMMA RowsInvNext == NumbersInv /\ FitInv /\ RowsInv /\ [Next]_vars => RowsInv'
  <1> SUFFICES ASSUME NumbersInv, FitInv, RowsInv, [Next]_vars PROVE RowsInv'
    OBVIOUS
  <1> USE DEF RowsInv, LoadsItsRows
  <1>1. M \in Nat /\ lates \in Nat /\ shm \in SharedMemory /\ kps \in Counts
    BY DEF NumbersInv
  <1>2. CASE Schedule
    <2>1. rows' = Filled /\ shm' = [shm EXCEPT !.N = N, !.M = M] /\ lates' = lates /\ pc' = "started"
      BY <1>2 DEF Schedule, WriteConfig
    <2>2. shm'.M = M
      BY <1>1, <2>1 DEF SharedMemory
    <2>3. ASSUME lates = 0 PROVE Filled \subseteq {M}
      <3>1. \A t \in DOMAIN kps : kps[t] \in Nat /\ kps[t] <= M
        BY <1>1, <2>3, CountsAre DEF FitInv, Fits
      <3>2. \A t \in DOMAIN kps : Larger(M, kps[t]) = M
        BY <1>1, <3>1, LargerIs
      <3> QED
        BY <3>2 DEF Filled
    <2> QED
      BY <2>1, <2>2, <2>3
  <1>3. CASE Load
    BY <1>3 DEF Load, rest
  <1>4. CASE ProgramEnds
    BY <1>4 DEF ProgramEnds, rest
  <1>5. CASE LateCounts \/ LateEnd
    <2>1. lates # 0 /\ UNCHANGED lates
      BY <1>5 DEF LateCounts, LateEnd, FitInv
    <2> QED
      BY <2>1
  <1>6. CASE Retest \/ ProgramCrashes
    BY <1>6 DEF Retest, ProgramCrashes, rest
  <1>7. CASE Timeout
    BY <1>7 DEF Timeout
  <1>8. CASE BeginPeriod \/ SkipRedundant \/ Evaluate \/ Exhausted \/ PopPrefix \/ EndPeriod
    BY <1>8 DEF BeginPeriod, SkipRedundant, Iterating, Evaluate, Exhausted, PopPrefix,
       EndPeriod
  <1>9. CASE Done \/ UNCHANGED vars
    BY <1>9 DEF Done, vars, program, rest
  <1> QED
    BY <1>2, <1>3, <1>4, <1>5, <1>6, <1>7, <1>8, <1>9 DEF Next, Driver

-----------------------------------------------------------------------------
(* In every state the dictionaries have the keys they must have: the       *)
(* inductive invariant behind the next two theorems (run_PDS.py 785-798,   *)
(* 843-871).                                                               *)
THEOREM DictionariesCorrect == Spec => []DictInv
  BY DictInvInit, DictInvNext, PTL DEF Spec

(* In stage 2 every interesting run has been continued or waits for it     *)
(* (run_PDS.py 636-876).                                                   *)
THEOREM NoneIsForgotten == Spec => []NoneForgotten
  <1>1. DictInv => NoneForgotten
    BY DEF DictInv, NoneForgotten
  <1> QED
    BY <1>1, DictionariesCorrect, PTL

(* No hash is continued twice at one number of periods (run_PDS.py 787,    *)
(* 843-871).                                                               *)
THEOREM NoneIsContinuedTwice == Spec => []NoneTwice
  <1>1. DictInv => NoneTwice
    BY DEF DictInv, NoneTwice
  <1> QED
    BY <1>1, DictionariesCorrect, PTL

(* The driver's variables and what it finds in shared memory have the      *)
(* values they should: an entry of a dictionary has as many counts as its  *)
(* run left in shared memory, stage, period and the counted runs stay in   *)
(* their bounds (run_PDS.py 636-876).                                      *)
THEOREM TypeCorrect == Spec => []TypeOK
  <1>1. TypeInv => TypeOK
    <2> SUFFICES ASSUME TypeInv PROVE TypeOK
      OBVIOUS
    <2>1. ControlInv /\ NumbersInv /\ ArraysInv /\ EntriesInv
      BY DEF TypeInv
    <2>2. /\ {M, loaded} \cup rows \subseteq Nat /\ N \in Lengths /\ kps \in Counts
          /\ {arrays.parent, arrays.copy, shm.num} \subseteq [ThreadIds -> Nat]
          /\ arrays.same => arrays.parent = arrays.copy
          /\ late \in {"no", "running", "counted"} /\ lateMet \in Outcomes
          /\ {shm.N, shm.M} \subseteq Nat
      BY <2>1, LongestOutcome DEF NumbersInv, ArraysInv, SharedMemory
    <2>3. /\ \A i \in DOMAIN waiting : waiting[i] \in Entries
          /\ \A i \in DOMAIN saved : saved[i] \in Entries
          /\ popped \cup found \subseteq Hashes
      BY <2>1 DEF EntriesInv
    <2> QED
      BY <2>1, <2>2, <2>3 DEF TypeOK, ControlInv
  <1>2. TypeInv /\ [Next]_vars => TypeInv'
    BY ControlNext, NumbersNext, ArraysNext, EntriesNext DEF TypeInv
  <1> QED
    BY <1>1, <1>2, TypeInvInit, PTL DEF Spec

(* While prefixes are continued, and before the first one is, runs are     *)
(* compared with the counts the scheduler was made from (run_PDS.py 671,   *)
(* 777-782, 860-864).                                                      *)
THEOREM PrefixIsCompared == Spec => []PrefixIsParent
  <1> DEFINE Inv == TypeInv /\ DictInv /\ ParentInv
  <1>1. Init => Inv
    BY TypeInvInit, DictInvInit, ParentInvInit
  <1>2. Inv /\ [Next]_vars => Inv'
    BY ControlNext, NumbersNext, ArraysNext, EntriesNext, DictInvNext, ParentInvNext DEF TypeInv
  <1>3. Inv => PrefixIsParent
    BY DEF ParentInv
  <1> QED
    BY <1>1, <1>2, <1>3, PTL DEF Spec

(* Except in a retest, and as long as no program has outlived its timeout, *)
(* a program loads the length that all rows of its pattern have            *)
(* (run_PDS.py 738-746, filled_with_zero, traceBegin).                     *)
THEOREM RowsAreLoaded == Spec => []LoadsItsRows
  <1> DEFINE Inv == TypeInv /\ FitInv /\ RowsInv
  <1>1. Init => Inv
    BY TypeInvInit, FitInvInit, RowsInvInit
  <1>2. Inv /\ [Next]_vars => Inv'
    BY ControlNext, NumbersNext, ArraysNext, EntriesNext, FitInvNext, RowsInvNext DEF TypeInv
  <1>3. Inv => LoadsItsRows
    BY DEF RowsInv
  <1> QED
    BY <1>1, <1>2, <1>3, PTL DEF Spec
=============================================================================
